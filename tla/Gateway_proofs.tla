--------------------------- MODULE Gateway_proofs ---------------------------
(***************************************************************************)
(* Proofs about Gateway, for any commands of the unit, any strays, any     *)
(* number of them and of mishaps, and about SerialLine, for a queue, a     *)
(* ring and frames of any size.                                            *)
(*                                                                         *)
(* First the tables: no command tells a service both, and the handler of a *)
(* relayed one does the other half (TheOtherHalf).  NetInv says that each  *)
(* port keeps the numbers in order.  HeardInv says that There has only     *)
(* been passed a command when some port is past it, and that the second    *)
(* copy of one on its way is on its way too, or lost, or has been heard;   *)
(* hence HeardInOrder.                                                     *)
(*                                                                         *)
(* Done says that a service is what it was told, or will be when its       *)
(* controller has carried out its orders, or that the request came to      *)
(* nothing.  HereInv and ThereInv say so of the last command, There only   *)
(* once no copy of it is left on its way; WantInv that a packet on its way *)
(* is never newer than it, and that a port holds it, lost it or is past    *)
(* it, so that an old copy cannot be the last to arrive.                   *)
(*                                                                         *)
(* The line last: LineOrder says that what the queue, the ring, the thread *)
(* and the device have of the frames is in the order they were pushed in,  *)
(* LineThread that the thread leaves a frame only when the last piece of   *)
(* it is out, or by an error, which is counted; hence WholeFramesInOrder.  *)
(***************************************************************************)
EXTENDS Gateway, SerialLine, FiniteSetTheorems, SequenceTheorems, TLAPS

(* No service is told both. *)
Clear(requests) == \A s \in Services : ~ (<<s, "on">> \in requests /\ <<s, "off">> \in requests)

LEMMA Talk ==
  /\ OtherHalf(TalkOn) = TalkOn /\ OtherHalf(TalkOff) = TalkOff
BY DEF OtherHalf, TalkOn, TalkOff

LEMMA Pictures ==
  ASSUME NEW to \in {"on", "off"}
  PROVE  OtherHalf(C(to)) = S(to) /\ OtherHalf(S(to)) = C(to)
BY DEF OtherHalf, C, S

LEMMA Halves ==
  ASSUME NEW r, NEW q PROVE OtherHalf(r \cup q) = OtherHalf(r) \cup OtherHalf(q)
BY DEF OtherHalf

LEMMA Both ==
  /\ OtherHalf(TalkOn \cup C("on")) = TalkOn \cup S("on")
  /\ OtherHalf(TalkOff \cup C("off")) = TalkOff \cup S("off")
  /\ OtherHalf(TalkOn \cup S("on")) = TalkOn \cup C("on")
  /\ OtherHalf(TalkOff \cup S("off")) = TalkOff \cup C("off")
  /\ OtherHalf(TalkOff \cup S("on")) = TalkOff \cup C("on")
  /\ OtherHalf(TalkOff \cup C("off") \cup S("off")) = TalkOff \cup C("off") \cup S("off")
<1>1. ASSUME NEW to \in {"on", "off"}, NEW talk \in {TalkOn, TalkOff}
      PROVE  /\ OtherHalf(talk \cup C(to)) = talk \cup S(to)
             /\ OtherHalf(talk \cup S(to)) = talk \cup C(to)
  BY Talk, Pictures, Halves
<1>2. OtherHalf((TalkOff \cup C("off")) \cup S("off"))
        = OtherHalf(TalkOff \cup C("off")) \cup OtherHalf(S("off"))
  BY Halves
<1>3. OtherHalf((TalkOff \cup C("off")) \cup S("off")) = (TalkOff \cup S("off")) \cup C("off")
  BY <1>1, <1>2, Pictures
<1>4. (TalkOff \cup S("off")) \cup C("off") = TalkOff \cup C("off") \cup S("off")
  OBVIOUS
<1>5. QED
  BY <1>1, <1>3, <1>4

LEMMA Domains ==
  /\ DOMAIN DataSingle = {"DATA_SINGLE"}
  /\ DOMAIN UartAudio = {"AUDIO_RUN", "DATA_AUDIO_RUN", "AUDIO_STOP", "DATA_AUDIO_STOP"}
  /\ DOMAIN UartVideo = {"VIDEO_REC_RUN", "DATA_VIDEO_REC_RUN", "VIDEO_REC_STOP",
                         "DATA_VIDEO_REC_STOP", "VIDEO_TRA_RUN", "DATA_VIDEO_TRA_RUN",
                         "VIDEO_TRA_STOP", "DATA_VIDEO_TRA_STOP"}
  /\ DOMAIN UdpVideo = DOMAIN UartVideo
  /\ DOMAIN UartBoth = {"ARUN_VREC_RUN", "DATA_ARUN_VREC_RUN", "ASTP_VREC_STP",
                        "DATA_ASTP_VREC_STP", "ARUN_VTRA_RUN", "DATA_ARUN_VTRA_RUN",
                        "ASTP_VTRA_STP", "DATA_ASTP_VTRA_STP"}
  /\ DOMAIN UdpBoth = DOMAIN UartBoth
  /\ DOMAIN UartMixed = {"DATA_ASTP_VTRA_RUN", "DATA_ASTP_VALL_STP"}
  /\ DOMAIN UdpMixed = DOMAIN UartMixed
BY DEF DataSingle, UartAudio, UartVideo, UdpVideo, UartBoth, UdpBoth, UartMixed, UdpMixed

LEMMA ClearParts ==
  \A to, u \in {"on", "off"} :
     /\ Clear(TalkOn) /\ Clear(TalkOff) /\ Clear(C(to)) /\ Clear(S(to))
     /\ Clear(TalkOn \cup C(to)) /\ Clear(TalkOff \cup C(to))
     /\ Clear(TalkOn \cup S(to)) /\ Clear(TalkOff \cup S(to))
     /\ Clear(TalkOff \cup C(to) \cup S(u))
BY DEF Clear, TalkOn, TalkOff, C, S, Services

LEMMA UartIsClear == \A cmd \in AllCommands : Clear(uart_message_process[cmd])
<1>1. \A cmd \in DOMAIN UartAudio : Clear(UartAudio[cmd])
  BY ClearParts, Domains DEF UartAudio
<1>2. \A cmd \in DOMAIN UartVideo : Clear(UartVideo[cmd])
  BY ClearParts, Domains DEF UartVideo
<1>3. \A cmd \in DOMAIN UartBoth : Clear(UartBoth[cmd])
  <2>1. \A cmd \in DOMAIN UartBoth :
          UartBoth[cmd] \in {TalkOn \cup C("on"), TalkOff \cup C("off"),
                             TalkOn \cup S("on"), TalkOff \cup S("off")}
    BY Domains DEF UartBoth
  <2>2. QED
    BY <2>1, ClearParts
<1>4. \A cmd \in DOMAIN UartMixed : Clear(UartMixed[cmd])
  <2>1. \A cmd \in DOMAIN UartMixed :
          UartMixed[cmd] \in {TalkOff \cup S("on"), TalkOff \cup C("off") \cup S("off")}
    BY Domains DEF UartMixed
  <2>2. QED
    BY <2>1, ClearParts
<1>5. \A cmd \in DOMAIN DataSingle : Clear(DataSingle[cmd])
  BY DEF DataSingle, Clear
<1>6. QED
  BY <1>1, <1>2, <1>3, <1>4, <1>5 DEF AllCommands, uart_message_process

(* The handler of a relayed command does the other half of what the unit's *)
(* gateway does.                                                           *)
LEMMA TheOtherHalf ==
  /\ \A cmd \in RelayedTwice : /\ cmd \in AllCommands
                               /\ udp_message_process[cmd] = OtherHalf(uart_message_process[cmd])
  /\ "DATA_SINGLE" \in AllCommands
  /\ udp_message_process["DATA_SINGLE"] = {} /\ uart_message_process["DATA_SINGLE"] = {}
<1>1. \A cmd \in DOMAIN UartAudio : UdpAudio[cmd] = OtherHalf(UartAudio[cmd])
  BY Talk, Domains DEF UdpAudio, UartAudio
<1>2. \A cmd \in DOMAIN UartVideo \cap RelayedTwice : UdpVideo[cmd] = OtherHalf(UartVideo[cmd])
  <2>1. \A cmd \in DOMAIN UartVideo \cap RelayedTwice :
          cmd \in {"DATA_VIDEO_REC_RUN", "DATA_VIDEO_REC_STOP",
                  "DATA_VIDEO_TRA_RUN", "DATA_VIDEO_TRA_STOP"}
    BY Domains DEF RelayedTwice
  <2>2. QED
    BY <2>1, Pictures DEF UdpVideo, UartVideo
<1>3. \A cmd \in DOMAIN UartBoth \cap RelayedTwice : UdpBoth[cmd] = OtherHalf(UartBoth[cmd])
  <2>1. \A cmd \in DOMAIN UartBoth \cap RelayedTwice :
          cmd \in {"DATA_ARUN_VREC_RUN", "DATA_ASTP_VREC_STP",
                  "DATA_ARUN_VTRA_RUN", "DATA_ASTP_VTRA_STP"}
    BY Domains DEF RelayedTwice
  <2>2. /\ UartBoth["DATA_ARUN_VREC_RUN"] = TalkOn \cup C("on")
        /\ UdpBoth["DATA_ARUN_VREC_RUN"] = TalkOn \cup S("on")
        /\ UartBoth["DATA_ASTP_VREC_STP"] = TalkOff \cup C("off")
        /\ UdpBoth["DATA_ASTP_VREC_STP"] = TalkOff \cup S("off")
        /\ UartBoth["DATA_ARUN_VTRA_RUN"] = TalkOn \cup S("on")
        /\ UdpBoth["DATA_ARUN_VTRA_RUN"] = TalkOn \cup C("on")
        /\ UartBoth["DATA_ASTP_VTRA_STP"] = TalkOff \cup S("off")
        /\ UdpBoth["DATA_ASTP_VTRA_STP"] = TalkOff \cup C("off")
    BY DEF UdpBoth, UartBoth
  <2>3. QED
    BY <2>1, <2>2, Both
<1>4. \A cmd \in DOMAIN UartMixed : UdpMixed[cmd] = OtherHalf(UartMixed[cmd])
  <2>1. /\ UartMixed["DATA_ASTP_VTRA_RUN"] = TalkOff \cup S("on")
        /\ UdpMixed["DATA_ASTP_VTRA_RUN"] = TalkOff \cup C("on")
        /\ UartMixed["DATA_ASTP_VALL_STP"] = TalkOff \cup C("off") \cup S("off")
        /\ UdpMixed["DATA_ASTP_VALL_STP"] = TalkOff \cup C("off") \cup S("off")
    BY DEF UdpMixed, UartMixed
  <2>2. QED
    BY <2>1, Both, Domains
<1>5. AllCommands = {"DATA_SINGLE"} \cup DOMAIN UartAudio \cup DOMAIN UartVideo
                      \cup DOMAIN UartBoth \cup DOMAIN UartMixed
  BY Domains DEF AllCommands
<1>6. RelayedTwice \subseteq DOMAIN UartAudio \cup DOMAIN UartVideo
                               \cup DOMAIN UartBoth \cup DOMAIN UartMixed
  BY Domains DEF RelayedTwice
<1>7. "DATA_SINGLE" \notin RelayedTwice
  BY DEF RelayedTwice
<1>8. /\ udp_message_process["DATA_SINGLE"] = {} /\ uart_message_process["DATA_SINGLE"] = {}
  <2>1. "DATA_SINGLE" \in AllCommands /\ "DATA_SINGLE" \in DOMAIN DataSingle
    BY <1>5, Domains
  <2>2. DataSingle["DATA_SINGLE"] = {}
    BY DEF DataSingle
  <2>3. "DATA_SINGLE" \notin DOMAIN UartAudio \cup DOMAIN UartVideo
                               \cup DOMAIN UartBoth \cup DOMAIN UartMixed
    BY Domains
  <2>4. QED
    BY <2>1, <2>2, <2>3, Domains DEF udp_message_process, uart_message_process, UdpAudio
<1>9. ASSUME NEW cmd \in RelayedTwice
      PROVE  udp_message_process[cmd] = OtherHalf(uart_message_process[cmd])
  <2>1. cmd \in AllCommands /\ cmd \notin DOMAIN DataSingle
    BY <1>5, <1>6, <1>7, Domains
  <2>2. CASE cmd \in DOMAIN UartAudio
    <3>1. /\ udp_message_process[cmd] = UdpAudio[cmd]
          /\ uart_message_process[cmd] = UartAudio[cmd]
      BY <2>1, <2>2, Domains DEF udp_message_process, uart_message_process, UdpAudio
    <3>2. QED
      BY <3>1, <2>2, <1>1
  <2>3. CASE cmd \in DOMAIN UartVideo
    <3>1. /\ udp_message_process[cmd] = UdpVideo[cmd]
          /\ uart_message_process[cmd] = UartVideo[cmd]
      BY <2>1, <2>3, Domains DEF udp_message_process, uart_message_process, UdpAudio
    <3>2. QED
      BY <3>1, <2>3, <1>2
  <2>4. CASE cmd \in DOMAIN UartBoth
    <3>1. /\ udp_message_process[cmd] = UdpBoth[cmd]
          /\ uart_message_process[cmd] = UartBoth[cmd]
      BY <2>1, <2>4, Domains DEF udp_message_process, uart_message_process, UdpAudio
    <3>2. QED
      BY <3>1, <2>4, <1>3
  <2>5. CASE cmd \in DOMAIN UartMixed
    <3>1. /\ udp_message_process[cmd] = UdpMixed[cmd]
          /\ uart_message_process[cmd] = UartMixed[cmd]
      BY <2>1, <2>5, Domains DEF udp_message_process, uart_message_process, UdpAudio
    <3>2. QED
      BY <3>1, <2>5, <1>4
  <2>6. QED
    BY <1>6, <2>2, <2>3, <2>4, <2>5
<1>10. QED
  BY <1>5, <1>6, <1>8, <1>9
-----------------------------------------------------------------------------
(* The packets on their way.  Those of the unit's commands are numbered,   *)
(* and keep their order in each port.                                      *)

Packets == (0 .. MaxCommands) \X AllCommands
Under(q) == {q[i] : i \in DOMAIN q}
Rising(q) == \A i, j \in DOMAIN q :
               i < j /\ q[i][1] # 0 /\ q[j][1] # 0 => q[i][1] < q[j][1]
Holds(q, n)  == \E k \in Under(q) : k[1] = n
Beyond(q, n) == \A k \in Under(q) : k[1] = 0 \/ n < k[1]

NetInv ==
  /\ net \in [Ports -> Seq(Packets)] /\ issued \in 0 .. MaxCommands
  /\ \A p \in Ports : Rising(net[p])
  /\ \A p \in Ports : \A k \in Under(net[p]) :
       k[1] <= issued /\ (k[1] # 0 => k[2] \in RelayedTwice \cup {"DATA_SINGLE"})

(* What the unit There has been passed: the later of two commands only     *)
(* after some port had brought it, and so whatever that port had before.   *)
HeardInv ==
  /\ heard \subseteq 1 .. issued /\ late \subseteq heard
  /\ lost \subseteq Ports \X (0 .. MaxCommands)
  /\ \A m \in heard : \E q \in Ports : Beyond(net[q], m)
  /\ \A p, q \in Ports : \A k \in Under(net[p]) :
       k[1] # 0 /\ k[2] \in RelayedTwice =>
         Holds(net[q], k[1]) \/ <<q, k[1]>> \in lost \/ k[1] \in heard
  /\ \A n \in late : \E p \in Ports : <<p, n>> \in lost
-----------------------------------------------------------------------------
LEMMA Bounds == /\ MaxCommands \in Nat /\ MaxMishaps \in Nat /\ QMax \in Nat \ {0}
                /\ Commands \subseteq AllCommands /\ Strays \subseteq AllCommands
BY BoundsAssumption, CommandsAssumption

LEMMA Appended ==
  ASSUME NEW q \in Seq(Packets), NEW k \in Packets
  PROVE  /\ Append(q, k) \in Seq(Packets) /\ Under(Append(q, k)) = Under(q) \cup {k}
         /\ Rising(q) /\ (k[1] = 0 \/ \A m \in Under(q) : m[1] < k[1])
              => Rising(Append(q, k))
<1> DEFINE r == Append(q, k)
<1>1. /\ r \in Seq(Packets) /\ DOMAIN r = 1 .. Len(q) + 1 /\ DOMAIN q = 1 .. Len(q)
      /\ Len(q) \in Nat /\ r[Len(q) + 1] = k /\ \A i \in DOMAIN q : r[i] = q[i]
  BY AppendProperties
<1> HIDE DEF r
<1>2. DOMAIN r = DOMAIN q \cup {Len(q) + 1}
  BY <1>1
<1>3. Under(r) = Under(q) \cup {k}
  <2>1. Under(r) \subseteq Under(q) \cup {k}
    BY <1>1, <1>2 DEF Under
  <2>2. Under(q) \cup {k} \subseteq Under(r)
    BY <1>1, <1>2 DEF Under
  <2>3. QED
    BY <2>1, <2>2
<1>4. ASSUME Rising(q), k[1] = 0 \/ \A m \in Under(q) : m[1] < k[1] PROVE Rising(r)
  <2> SUFFICES ASSUME NEW i \in DOMAIN r, NEW j \in DOMAIN r, i < j, r[i][1] # 0, r[j][1] # 0
               PROVE  r[i][1] < r[j][1]
    BY DEF Rising
  <2>1. i \in DOMAIN q /\ r[i] = q[i]
    BY <1>1
  <2>2. CASE j \in DOMAIN q
    BY <1>1, <1>4, <2>1, <2>2 DEF Rising
  <2>3. CASE j = Len(q) + 1
    BY <1>1, <1>4, <2>1, <2>3 DEF Under
  <2>4. QED
    BY <1>2, <2>2, <2>3
<1>5. QED
  BY <1>1, <1>3, <1>4 DEF r

LEMMA Popped ==
  ASSUME NEW q \in Seq(Packets), q # <<>>
  PROVE  /\ Head(q) \in Packets /\ Tail(q) \in Seq(Packets)
         /\ Under(q) = {Head(q)} \cup Under(Tail(q))
         /\ Rising(q) => /\ Rising(Tail(q))
                         /\ Head(q)[1] # 0 => Beyond(Tail(q), Head(q)[1])
<1> DEFINE t == Tail(q)
           h == Head(q)
<1>1. /\ t \in Seq(Packets) /\ DOMAIN q = 1 .. Len(q) /\ Len(q) \in Nat
      /\ DOMAIN t = 1 .. Len(q) - 1 /\ 1 \in DOMAIN q /\ h = q[1] /\ h \in Packets
      /\ \A i \in DOMAIN t : i + 1 \in DOMAIN q /\ t[i] = q[i + 1]
  BY HeadTailProperties, EmptySeq
<1> HIDE DEF t, h
<1>2. \A i \in DOMAIN q : i = 1 \/ (i - 1 \in DOMAIN t /\ t[i - 1] = q[i])
  BY <1>1
<1>3. Under(q) = {h} \cup Under(t)
  <2>1. Under(q) \subseteq {h} \cup Under(t)
    BY <1>1, <1>2 DEF Under
  <2>2. {h} \cup Under(t) \subseteq Under(q)
    BY <1>1 DEF Under
  <2>3. QED
    BY <2>1, <2>2
<1>4. ASSUME Rising(q) PROVE Rising(t) /\ (h[1] # 0 => Beyond(t, h[1]))
  <2>1. Rising(t)
    <3> SUFFICES ASSUME NEW i \in DOMAIN t, NEW j \in DOMAIN t, i < j, t[i][1] # 0, t[j][1] # 0
                 PROVE  t[i][1] < t[j][1]
      BY DEF Rising
    <3>1. i + 1 < j + 1
      BY <1>1
    <3>2. QED
      BY <1>1, <1>4, <3>1 DEF Rising
  <2>2. ASSUME h[1] # 0, NEW k \in Under(t) PROVE k[1] = 0 \/ h[1] < k[1]
    <3>1. PICK i \in DOMAIN t : k = t[i]
      BY DEF Under
    <3>2. 1 < i + 1 /\ k = q[i + 1] /\ i + 1 \in DOMAIN q
      BY <1>1, <3>1
    <3>3. QED
      BY <1>1, <1>4, <2>2, <3>2 DEF Rising
  <2>3. QED
    BY <2>1, <2>2 DEF Beyond
<1>5. QED
  BY <1>1, <1>3, <1>4 DEF t, h

LEMMA NumbersAreOrdered ==
  ASSUME NetInv, NEW p \in Ports, NEW k \in Under(net[p])
  PROVE  k \in Packets /\ k[1] \in Nat /\ k[2] \in AllCommands
<1>1. PICK i \in DOMAIN net[p] : k = net[p][i]
  BY DEF Under
<1>2. net[p] \in Seq(Packets)
  BY DEF NetInv
<1>3. k \in Packets
  BY <1>1, <1>2
<1>4. QED
  BY <1>3, Bounds DEF Packets

LEMMA NetStep == NetInv /\ [Next]_vars => NetInv'
<1> SUFFICES ASSUME NetInv, [Next]_vars PROVE NetInv'
  OBVIOUS
<1>1. /\ net \in [Ports -> Seq(Packets)] /\ issued \in 0 .. MaxCommands
      /\ \A p \in Ports : net[p] \in Seq(Packets) /\ Rising(net[p])
      /\ \A p \in Ports : \A k \in Under(net[p]) :
           k[1] <= issued /\ (k[1] # 0 => k[2] \in RelayedTwice \cup {"DATA_SINGLE"})
  BY DEF NetInv
<1>2. \A p \in Ports : \A k \in Under(net[p]) : k[1] \in Nat
  BY NumbersAreOrdered
<1>3. ASSUME NEW cmd \in Commands, UartMessage(cmd) PROVE NetInv'
  <2> DEFINE k == <<issued', cmd>>
  <2>1. /\ issued' = issued + 1 /\ issued' \in 0 .. MaxCommands /\ issued \in Nat
    BY <1>1, <1>3, Bounds DEF UartMessage
  <2>2. k \in Packets /\ k[1] = issued + 1 /\ k[2] = cmd
    BY <2>1, Bounds DEF Packets
  <2>3. net' = [p \in Ports |-> IF p \in Relay(cmd) THEN Append(net[p], k) ELSE net[p]]
    BY <1>3 DEF UartMessage
  <2>4. \A p \in Ports : p \in Relay(cmd) => cmd \in RelayedTwice \cup {"DATA_SINGLE"}
    BY DEF Relay
  <2> HIDE DEF k
  <2>5. ASSUME NEW p \in Ports
        PROVE  /\ net'[p] \in Seq(Packets) /\ Rising(net'[p])
               /\ \A m \in Under(net'[p]) :
                    m[1] <= issued' /\ (m[1] # 0 => m[2] \in RelayedTwice \cup {"DATA_SINGLE"})
    <3>1. CASE p \in Relay(cmd)
      <4>1. net'[p] = Append(net[p], k) /\ \A m \in Under(net[p]) : m[1] < k[1]
        BY <1>1, <1>2, <2>1, <2>2, <2>3, <3>1
      <4>2. net'[p] \in Seq(Packets) /\ Rising(net'[p]) /\ Under(net'[p]) = Under(net[p]) \cup {k}
        BY <1>1, <2>2, <4>1, Appended
      <4>3. QED
        BY <1>1, <1>2, <2>1, <2>2, <2>4, <3>1, <4>1, <4>2
    <3>2. CASE p \notin Relay(cmd)
      BY <1>1, <1>2, <2>1, <2>3, <3>2
    <3>3. QED
      BY <3>1, <3>2
  <2>6. net' \in [Ports -> Seq(Packets)]
    <3>1. DOMAIN net' = Ports /\ net' = [p \in DOMAIN net' |-> net'[p]]
      BY <2>3
    <3>2. \A p \in Ports : net'[p] \in Seq(Packets)
      BY <2>5
    <3> DEFINE after == net'
    <3>3. DOMAIN after = Ports /\ after = [p \in DOMAIN after |-> after[p]]
          /\ \A p \in Ports : after[p] \in Seq(Packets)
      BY <3>1, <3>2
    <3> HIDE DEF after
    <3>4. after \in [Ports -> Seq(Packets)]
      BY <3>3
    <3>5. QED
      BY <3>4 DEF after
  <2>7. QED
    BY <2>1, <2>5, <2>6 DEF NetInv
<1>4. ASSUME NEW p \in Ports, net[p] # <<>>, net' = [net EXCEPT ![p] = Tail(@)], issued' = issued
      PROVE  NetInv'
  <2>1. /\ Tail(net[p]) \in Seq(Packets) /\ Rising(Tail(net[p]))
        /\ Under(Tail(net[p])) \subseteq Under(net[p])
    BY <1>1, <1>4, Popped
  <2>2. \A q \in Ports : net'[q] = IF q = p THEN Tail(net[p]) ELSE net[q]
    BY <1>1, <1>4
  <2>3. net' \in [Ports -> Seq(Packets)]
    BY <1>1, <1>4, <2>1
  <2>4. QED
    BY <1>1, <1>4, <2>1, <2>2, <2>3 DEF NetInv
<1>5. ASSUME NEW cmd \in Strays, Stray(cmd) PROVE NetInv'
  <2> DEFINE k == <<0, cmd>>
  <2>1. k \in Packets /\ k[1] = 0 /\ 1 \in Ports
    BY Bounds DEF Packets, Ports
  <2>2. net' = [net EXCEPT ![1] = Append(@, k)] /\ issued' = issued
    BY <1>5 DEF Stray
  <2> HIDE DEF k
  <2>3. /\ Append(net[1], k) \in Seq(Packets) /\ Rising(Append(net[1], k))
        /\ Under(Append(net[1], k)) = Under(net[1]) \cup {k}
    BY <1>1, <2>1, Appended
  <2>4. \A q \in Ports : net'[q] = IF q = 1 THEN Append(net[1], k) ELSE net[q]
    BY <1>1, <2>1, <2>2
  <2>5. net' \in [Ports -> Seq(Packets)]
    BY <1>1, <2>1, <2>2, <2>3
  <2>6. 0 <= issued
    BY <1>1
  <2>7. QED
    BY <1>1, <2>1, <2>2, <2>3, <2>4, <2>5, <2>6 DEF NetInv
<1>6. CASE UNCHANGED <<net, issued>>
  BY <1>6 DEF NetInv
<1>7. QED
  BY <1>3, <1>4, <1>5, <1>6 DEF Next, Deliver, UdpMessage, Lose, VideoCaptureController, Opens,
     DeviceOpens, DeviceFails, vars

(* What a step does to the packets of a port.                              *)
LEMMA AllHeld ==
  ASSUME NetInv, NEW p \in Ports, net[p] # <<>>, net' = [net EXCEPT ![p] = Tail(@)]
  PROVE  /\ Head(net[p]) \in Under(net[p])
         /\ Under(net[p]) = {Head(net[p])} \cup Under(net'[p])
         /\ Head(net[p])[1] # 0 => Beyond(net'[p], Head(net[p])[1])
         /\ \A q \in Ports : /\ q # p => net'[q] = net[q]
                             /\ Under(net'[q]) \subseteq Under(net[q])
                             /\ \A n : Holds(net[q], n) =>
                                  Holds(net'[q], n) \/ (q = p /\ n = Head(net[p])[1])
<1>1. net \in [Ports -> Seq(Packets)] /\ net[p] \in Seq(Packets) /\ Rising(net[p])
  BY DEF NetInv
<1>2. net'[p] = Tail(net[p]) /\ \A q \in Ports : q # p => net'[q] = net[q]
  BY <1>1
<1>3. /\ Under(net[p]) = {Head(net[p])} \cup Under(Tail(net[p]))
      /\ Head(net[p])[1] # 0 => Beyond(Tail(net[p]), Head(net[p])[1])
  BY <1>1, Popped
<1>4. QED
  BY <1>2, <1>3 DEF Holds

LEMMA Sent ==
  ASSUME NetInv, NEW cmd \in Commands, UartMessage(cmd)
  PROVE  /\ issued' = issued + 1 /\ issued \in Nat /\ issued < MaxCommands
         /\ \A q \in Ports : Under(net'[q]) = IF q \in Relay(cmd)
                                THEN Under(net[q]) \cup {<<issued', cmd>>} ELSE Under(net[q])
<1>1. /\ issued' = issued + 1 /\ issued \in Nat /\ issued' \in 0 .. MaxCommands
      /\ net \in [Ports -> Seq(Packets)] /\ issued < MaxCommands
  BY Bounds DEF UartMessage, NetInv
<1>2. <<issued', cmd>> \in Packets
  BY <1>1, Bounds DEF Packets
<1>3. \A q \in Ports : net'[q] = IF q \in Relay(cmd) THEN Append(net[q], <<issued', cmd>>) ELSE net[q]
  BY DEF UartMessage
<1>4. QED
  BY <1>1, <1>2, <1>3, Appended

LEMMA Strayed ==
  ASSUME NetInv, NEW cmd \in Strays, Stray(cmd)
  PROVE  \A q \in Ports : /\ Under(net[q]) \subseteq Under(net'[q])
                          /\ \A k \in Under(net'[q]) : k \in Under(net[q]) \/ k[1] = 0
<1>1. net \in [Ports -> Seq(Packets)] /\ 1 \in Ports
  BY DEF NetInv, Ports
<1>2. <<0, cmd>> \in Packets
  BY Bounds DEF Packets
<1>3. \A q \in Ports : net'[q] = IF q = 1 THEN Append(net[q], <<0, cmd>>) ELSE net[q]
  BY <1>1 DEF Stray
<1>4. \A q \in Ports : Under(net'[q]) = IF q = 1 THEN Under(net[q]) \cup {<<0, cmd>>}
                                         ELSE Under(net[q])
  BY <1>1, <1>2, <1>3, Appended
<1>5. <<0, cmd>>[1] = 0
  OBVIOUS
<1>6. QED
  BY <1>4, <1>5

LEMMA HeardStep == NetInv /\ HeardInv /\ [Next]_vars => HeardInv'
<1> SUFFICES ASSUME NetInv, HeardInv, [Next]_vars PROVE HeardInv'
  OBVIOUS
<1>1. /\ heard \subseteq 1 .. issued /\ late \subseteq heard
      /\ lost \subseteq Ports \X (0 .. MaxCommands)
      /\ \A m \in heard : \E q \in Ports : Beyond(net[q], m)
      /\ \A p, q \in Ports : \A k \in Under(net[p]) :
           k[1] # 0 /\ k[2] \in RelayedTwice =>
             Holds(net[q], k[1]) \/ <<q, k[1]>> \in lost \/ k[1] \in heard
      /\ \A n \in late : \E p \in Ports : <<p, n>> \in lost
  BY DEF HeardInv
<1>2. issued \in 0 .. MaxCommands
  BY DEF NetInv
<1>3. \A p \in Ports : \A k \in Under(net[p]) : k[1] \in Nat /\ k[1] <= issued
  BY NumbersAreOrdered DEF NetInv
<1>4. ASSUME NEW cmd \in Commands, UartMessage(cmd) PROVE HeardInv'
  <2> DEFINE k == <<issued', cmd>>
  <2>1. /\ issued' = issued + 1 /\ issued \in Nat /\ k[1] = issued' /\ k[2] = cmd
        /\ UNCHANGED <<heard, late, lost>>
    BY <1>4, Sent DEF UartMessage
  <2>2. \A q \in Ports : Under(net'[q]) = IF q \in Relay(cmd) THEN Under(net[q]) \cup {k}
                                          ELSE Under(net[q])
    BY <1>4, Sent
  <2> HIDE DEF k
  <2>3. heard' \subseteq 1 .. issued'
    BY <1>1, <2>1
  <2>4. ASSUME NEW m \in heard' PROVE \E q \in Ports : Beyond(net'[q], m)
    <3>1. m \in 1 .. issued /\ m < k[1]
      BY <1>1, <2>1
    <3>2. PICK q \in Ports : Beyond(net[q], m)
      BY <1>1, <2>1
    <3>3. Beyond(net'[q], m)
      BY <2>2, <3>1, <3>2 DEF Beyond
    <3>4. QED
      BY <3>3
  <2>5. \A q \in Ports : \A n : Holds(net[q], n) => Holds(net'[q], n)
    BY <2>2 DEF Holds
  <2>6. ASSUME cmd \in RelayedTwice, NEW q \in Ports PROVE Holds(net'[q], k[1])
    <3>1. Relay(cmd) = Ports
      BY <2>6 DEF Relay, RelayedTwice
    <3>2. k \in Under(net'[q])
      BY <2>2, <3>1
    <3>3. QED
      BY <3>2 DEF Holds
  <2>7. ASSUME NEW p \in Ports, NEW q \in Ports, NEW m \in Under(net'[p]), m[1] # 0,
               m[2] \in RelayedTwice
        PROVE  Holds(net'[q], m[1]) \/ <<q, m[1]>> \in lost' \/ m[1] \in heard'
    <3>1. m \in Under(net[p]) \/ m = k
      BY <2>2
    <3>2. CASE m \in Under(net[p])
      BY <1>1, <2>1, <2>5, <2>7, <3>2
    <3>3. CASE m = k
      BY <2>1, <2>6, <2>7, <3>3
    <3>4. QED
      BY <3>1, <3>2, <3>3
  <2>8. QED
    BY <1>1, <2>1, <2>3, <2>4, <2>7 DEF HeardInv
<1>5. ASSUME NEW p \in Ports, Lose(p) PROVE HeardInv'
  <2> DEFINE n == Head(net[p])[1]
  <2>1. /\ net[p] # <<>> /\ net' = [net EXCEPT ![p] = Tail(@)]
        /\ lost' = lost \cup {<<p, n>>} /\ UNCHANGED <<heard, late, issued>>
    BY <1>5 DEF Lose
  <2>2. n \in 0 .. MaxCommands
    <3>1. Head(net[p]) \in Under(net[p])
      BY <2>1, AllHeld
    <3> HIDE DEF n
    <3>2. n \in Nat /\ n <= issued
      BY <1>3, <3>1 DEF n
    <3>3. QED
      BY <1>2, <3>2, Bounds
  <2>3. \A q \in Ports : /\ Under(net'[q]) \subseteq Under(net[q])
                         /\ \A m : Holds(net[q], m) => Holds(net'[q], m) \/ (q = p /\ m = n)
    BY <2>1, AllHeld
  <2> HIDE DEF n
  <2>4. lost' \subseteq Ports \X (0 .. MaxCommands)
    BY <1>1, <2>1, <2>2
  <2>5. \A m \in heard' : \E q \in Ports : Beyond(net'[q], m)
    BY <1>1, <2>1, <2>3 DEF Beyond
  <2>6. QED
    BY <1>1, <2>1, <2>3, <2>4, <2>5 DEF HeardInv
<1>6. ASSUME NEW cmd \in Strays, Stray(cmd) PROVE HeardInv'
  <2>1. UNCHANGED <<heard, late, lost, issued>>
    BY <1>6 DEF Stray
  <2>2. \A q \in Ports : /\ Under(net[q]) \subseteq Under(net'[q])
                         /\ \A k \in Under(net'[q]) : k \in Under(net[q]) \/ k[1] = 0
    BY <1>6, Strayed
  <2>3. \A m \in heard' : \E q \in Ports : Beyond(net'[q], m)
    BY <1>1, <2>1, <2>2 DEF Beyond
  <2>4. \A q \in Ports : \A n : Holds(net[q], n) => Holds(net'[q], n)
    BY <2>2 DEF Holds
  <2>5. QED
    BY <1>1, <2>1, <2>2, <2>3, <2>4 DEF HeardInv
<1>7. ASSUME NEW p \in Ports, UdpMessage(p) PROVE HeardInv'
  <2> DEFINE n == Head(net[p])[1]
             cmd == Head(net[p])[2]
  <2>1. /\ net[p] # <<>> /\ net' = [net EXCEPT ![p] = Tail(@)] /\ UNCHANGED <<lost, issued>>
        /\ n = 0 => UNCHANGED <<heard, late>>
        /\ n # 0 => /\ heard' = heard \cup {n}
                    /\ late' = IF cmd \in RelayedTwice /\ n \notin heard /\ \E m \in heard : m > n
                               THEN late \cup {n} ELSE late
    BY <1>7 DEF UdpMessage
  <2>2. /\ Head(net[p]) \in Under(net[p]) /\ n \in Nat /\ n <= issued
        /\ n # 0 => Beyond(net'[p], n)
        /\ \A q \in Ports : /\ q # p => net'[q] = net[q]
                            /\ Under(net'[q]) \subseteq Under(net[q])
                            /\ \A m : Holds(net[q], m) => Holds(net'[q], m) \/ (q = p /\ m = n)
    BY <1>3, <2>1, AllHeld
  <2>3. \A m \in heard : \E q \in Ports : Beyond(net'[q], m)
    BY <1>1, <2>2 DEF Beyond
  <2>4. CASE n = 0
    BY <1>1, <2>1, <2>2, <2>3, <2>4 DEF HeardInv
  <2>5. CASE n # 0
    <3>1. heard' = heard \cup {n} /\ late' \subseteq heard' /\ n \in 1 .. issued
      <4>1. heard' = heard \cup {n} /\ late' \subseteq late \cup {n}
        BY <2>1, <2>5
      <4> HIDE DEF n
      <4>2. n \in 1 .. issued
        BY <1>2, <2>2, <2>5
      <4>3. QED
        BY <1>1, <4>1, <4>2
    <3>2. \A m \in heard' : \E q \in Ports : Beyond(net'[q], m)
      BY <2>2, <2>3, <2>5, <3>1
    <3>3. ASSUME NEW m \in late' PROVE \E q \in Ports : <<q, m>> \in lost
      <4>1. CASE m \in late
        BY <1>1, <4>1
      <4>2. CASE m \notin late
        <5>1. m = n /\ cmd \in RelayedTwice /\ n \notin heard
          BY <2>1, <2>5, <3>3, <4>2
        <5>2. PICK l \in heard : l > n
          BY <2>1, <2>5, <3>3, <4>2
        <5>3. PICK q \in Ports : Beyond(net[q], l)
          BY <1>1
        <5>4. l \in Nat /\ ~ Holds(net[q], n)
          <6>1. l \in Nat
            BY <1>1, <1>2
          <6>2. ASSUME NEW k \in Under(net[q]), k[1] = n PROVE FALSE
            BY <2>2, <2>5, <5>2, <5>3, <6>1, <6>2 DEF Beyond
          <6>3. QED
            BY <6>1, <6>2 DEF Holds
        <5>5. <<q, n>> \in lost
          BY <1>1, <2>2, <2>5, <5>1, <5>4
        <5>6. QED
          BY <5>1, <5>5
      <4>3. QED
        BY <4>1, <4>2
    <3>4. \A q, r \in Ports : \A k \in Under(net'[q]) :
            k[1] # 0 /\ k[2] \in RelayedTwice =>
              Holds(net'[r], k[1]) \/ <<r, k[1]>> \in lost' \/ k[1] \in heard'
      BY <1>1, <2>1, <2>2, <3>1
    <3>5. QED
      BY <1>1, <2>1, <3>1, <3>2, <3>3, <3>4 DEF HeardInv
  <2>6. QED
    BY <2>4, <2>5
<1>8. CASE UNCHANGED <<net, issued, lost, heard, late>>
  BY <1>1, <1>8 DEF HeardInv
<1>9. QED
  BY <1>4, <1>5, <1>6, <1>7, <1>8 DEF Next, Deliver, VideoCaptureController, Opens,
     DeviceOpens, DeviceFails, vars
-----------------------------------------------------------------------------
(* The services of the two gateways.                                       *)

States == {"IDLE", "START", "RUN"}
Asked(requests, s) == \E to \in {"on", "off"} : <<s, to>> \in requests
Says(requests, s)  == CHOOSE t \in {"on", "off"} : <<s, t>> \in requests

ServiceInv ==
  /\ service \in [Gateways -> [Services -> States]]
  /\ bound \in [Gateways -> SUBSET {"playback", "display"}]
  /\ \A g \in Gateways : \A s \in bound[g] : service[g][s] = "IDLE"
  /\ orders \in [Gateways -> Seq({"on", "off"})]
  /\ \A g \in Gateways : Len(orders[g]) <= QMax
  /\ refused \in [Gateways -> SUBSET (Services \cup {"order"})]
  /\ mishaps \in 0 .. MaxMishaps

LEMMA Telling ==
  ASSUME NEW requests, NEW s
  PROVE  /\ Asked(requests, s) => Says(requests, s) \in {"on", "off"} /\ <<s, Says(requests, s)>> \in requests
         /\ \A t \in {"on", "off"} : <<s, t>> \in requests => Asked(requests, s)
         /\ s \in Services /\ Clear(requests)
              => \A t \in {"on", "off"} : <<s, t>> \in requests => Says(requests, s) = t
<1>1. ASSUME Asked(requests, s)
      PROVE  Says(requests, s) \in {"on", "off"} /\ <<s, Says(requests, s)>> \in requests
  <2>1. \E t \in {"on", "off"} : <<s, t>> \in requests
    BY <1>1 DEF Asked
  <2>2. QED
    BY <2>1 DEF Says
<1>2. \A t \in {"on", "off"} : <<s, t>> \in requests => Asked(requests, s)
  BY DEF Asked
<1>3. ASSUME s \in Services, Clear(requests), NEW t \in {"on", "off"}, <<s, t>> \in requests
      PROVE  Says(requests, s) = t
  <2>1. ~ (<<s, "on">> \in requests /\ <<s, "off">> \in requests)
    BY <1>3 DEF Clear
  <2>2. Says(requests, s) \in {"on", "off"} /\ <<s, Says(requests, s)>> \in requests
    BY <1>1, <1>2, <1>3
  <2>3. QED
    BY <1>3, <2>1, <2>2
<1>4. QED
  BY <1>1, <1>2, <1>3

LEMMA Turning ==
  ASSUME ServiceInv, NEW g \in Gateways, NEW s \in Services, NEW to \in {"on", "off"}
  PROVE  Turned(g, s, to) \in States /\ (s \in bound[g] => Turned(g, s, to) = "IDLE")
<1>1. service[g][s] \in States /\ (s \in bound[g] => service[g][s] = "IDLE")
  BY DEF ServiceInv
<1>2. QED
  BY <1>1 DEF Turned, Starts, Stops, States

(* What carrying out a command does to each service of the gateway.        *)
LEMMA Performed ==
  ASSUME ServiceInv, NEW g \in Gateways, NEW requests, Perform(g, requests)
  PROVE  /\ service' \in [Gateways -> [Services -> States]]
         /\ \A h \in Gateways \ {g} : service'[h] = service[h] /\ refused'[h] = refused[h]
                                      /\ orders'[h] = orders[h]
         /\ \A s \in Services : service'[g][s] =
              IF s \in Immediate /\ Asked(requests, s) THEN Turned(g, s, Says(requests, s))
              ELSE service[g][s]
         /\ orders' \in [Gateways -> Seq({"on", "off"})]
         /\ orders'[g] = IF Asked(requests, "camera") /\ Len(orders[g]) < QMax
                         THEN Append(orders[g], Says(requests, "camera")) ELSE orders[g]
         /\ refused' \in [Gateways -> SUBSET (Services \cup {"order"})]
         /\ \A s \in Immediate : Asked(requests, s) =>
              (s \in refused'[g] <=> ~ Obeyed(Says(requests, s), service'[g][s]))
         /\ \A s \in Services : s = "camera" \/ ~ Asked(requests, s) =>
              (s \in refused'[g] <=> s \in refused[g])
         /\ "order" \in refused'[g] <=>
              IF Asked(requests, "camera") THEN ~ (Len(orders[g]) < QMax) ELSE "order" \in refused[g]
         /\ UNCHANGED bound
<1> DEFINE asked(s) == Asked(requests, s)
           to(s)    == Says(requests, s)
           after    == [s \in Services |-> IF s \in Immediate /\ asked(s)
                                           THEN Turned(g, s, to(s)) ELSE service[g][s]]
           failed   == {s \in Immediate : asked(s) /\ ~ Obeyed(to(s), after[s])}
           kept(s)  == IF s = "order" THEN ~ asked("camera") ELSE s = "camera" \/ ~ asked(s)
           some     == IF asked("camera") /\ ~ (Len(orders[g]) < QMax) THEN {"order"} ELSE {}
<1>1. /\ service' = [service EXCEPT ![g] = after]
      /\ orders' = IF asked("camera") THEN API_ToMulticast(g, to("camera")) ELSE orders
      /\ refused' = [refused EXCEPT ![g] = {s \in @ : kept(s)} \cup failed \cup some]
      /\ UNCHANGED bound
  BY DEF Perform, Asked, Says
<1>2. /\ service \in [Gateways -> [Services -> States]]
      /\ orders \in [Gateways -> Seq({"on", "off"})]
      /\ refused \in [Gateways -> SUBSET (Services \cup {"order"})]
  BY DEF ServiceInv
<1>3. /\ "camera" \in Services /\ "order" \notin Services /\ "camera" \notin Immediate
      /\ Immediate \subseteq Services /\ \A s \in Services : s \in Immediate \/ s = "camera"
  BY DEF Services, Immediate
<1>4. \A s \in Services : asked(s) => to(s) \in {"on", "off"}
  BY Telling
<1> HIDE DEF asked, to
<1>5. \A s \in Services : after[s] \in States
  <2> TAKE s \in Services
  <2>1. asked(s) => Turned(g, s, to(s)) \in States
    BY <1>4, Turning
  <2>2. service[g][s] \in States
    BY <1>2
  <2>3. QED
    BY <2>1, <2>2
<1>6. after \in [Services -> States]
  BY <1>5
<1>7. /\ service' \in [Gateways -> [Services -> States]] /\ service'[g] = after
      /\ \A h \in Gateways \ {g} : service'[h] = service[h]
  <2> HIDE DEF after
  <2>1. QED
    BY <1>1, <1>2, <1>6
<1>8. /\ \A h \in Gateways \ {g} : refused'[h] = refused[h]
      /\ refused'[g] = {s \in refused[g] : kept(s)} \cup failed \cup some
      /\ refused' \in [Gateways -> SUBSET (Services \cup {"order"})]
  <2>1. failed \subseteq Services /\ some \subseteq {"order"}
    BY <1>3
  <2> HIDE DEF failed, some, kept
  <2>2. QED
    BY <1>1, <1>2, <2>1
<1>9. /\ orders' \in [Gateways -> Seq({"on", "off"})]
      /\ \A h \in Gateways \ {g} : orders'[h] = orders[h]
      /\ orders'[g] = IF asked("camera") /\ Len(orders[g]) < QMax
                      THEN Append(orders[g], to("camera")) ELSE orders[g]
  <2>1. CASE asked("camera") /\ Len(orders[g]) < QMax
    <3>1. orders' = [orders EXCEPT ![g] = Append(@, to("camera"))]
      BY <1>1, <2>1 DEF API_ToMulticast
    <3>2. Append(orders[g], to("camera")) \in Seq({"on", "off"})
      BY <1>2, <1>3, <1>4, <2>1
    <3>3. QED
      BY <1>2, <2>1, <3>1, <3>2
  <2>2. CASE ~ (asked("camera") /\ Len(orders[g]) < QMax)
    BY <1>1, <1>2, <2>2 DEF API_ToMulticast
  <2>3. QED
    BY <2>1, <2>2
<1>10. /\ \A s \in Immediate : asked(s) => (s \in refused'[g] <=> ~ Obeyed(to(s), service'[g][s]))
       /\ \A s \in Services : s = "camera" \/ ~ asked(s) => (s \in refused'[g] <=> s \in refused[g])
       /\ "order" \in refused'[g] <=>
              IF asked("camera") THEN ~ (Len(orders[g]) < QMax) ELSE "order" \in refused[g]
  <2> HIDE DEF after
  <2>1. \A s : s \in refused'[g] <=> (s \in refused[g] /\ kept(s)) \/ s \in failed \/ s \in some
    BY <1>8
  <2>2. \A s : s \in some <=> s = "order" /\ asked("camera") /\ ~ (Len(orders[g]) < QMax)
    OBVIOUS
  <2>3. \A s : s \in failed <=> s \in Immediate /\ asked(s) /\ ~ Obeyed(to(s), service'[g][s])
    BY <1>7
  <2> HIDE DEF failed, some
  <2>4. \A s \in Immediate : asked(s) => (s \in refused'[g] <=> ~ Obeyed(to(s), service'[g][s]))
    BY <1>3, <2>1, <2>2, <2>3
  <2>5. \A s \in Services : s = "camera" \/ ~ asked(s) => (s \in refused'[g] <=> s \in refused[g])
    BY <1>3, <2>1, <2>2, <2>3
  <2>6. "order" \in refused'[g] <=>
              IF asked("camera") THEN ~ (Len(orders[g]) < QMax) ELSE "order" \in refused[g]
    BY <1>3, <2>1, <2>2, <2>3
  <2>7. QED
    BY <2>4, <2>5, <2>6
<1>11. \A s \in Services : service'[g][s] =
         IF s \in Immediate /\ asked(s) THEN Turned(g, s, to(s)) ELSE service[g][s]
  BY <1>7
<1>12. QED
  BY <1>1, <1>7, <1>8, <1>9, <1>10, <1>11 DEF asked, to

LEMMA PerformKeeps ==
  ASSUME ServiceInv, NEW g \in Gateways, NEW requests, Perform(g, requests), UNCHANGED mishaps
  PROVE  ServiceInv'
<1>1. \A h \in Gateways : \A s \in bound[h] : s \in Services /\ service[h][s] = "IDLE"
  BY DEF ServiceInv, Services
<1>2. ASSUME NEW h \in Gateways, NEW s \in bound[h] PROVE service'[h][s] = "IDLE"
  <2>1. CASE h = g /\ s \in Immediate /\ Asked(requests, s)
    <3>1. Says(requests, s) \in {"on", "off"} /\ s \in Services /\ s \in bound[g]
      BY <1>1, <1>2, <2>1, Telling
    <3>2. Turned(g, s, Says(requests, s)) = "IDLE"
      BY <3>1, Turning
    <3>3. service'[g][s] = Turned(g, s, Says(requests, s))
      BY <2>1, <3>1, Performed
    <3>4. QED
      BY <2>1, <3>2, <3>3
  <2>2. CASE ~ (h = g /\ s \in Immediate /\ Asked(requests, s))
    BY <1>1, <2>2, Performed
  <2>3. QED
    BY <2>1, <2>2
<1>3. ASSUME NEW h \in Gateways PROVE Len(orders'[h]) <= QMax
  <2>1. /\ orders[h] \in Seq({"on", "off"}) /\ Len(orders[h]) <= QMax /\ QMax \in Nat
    BY Bounds DEF ServiceInv
  <2>2. CASE h = g /\ Asked(requests, "camera") /\ Len(orders[g]) < QMax
    <3>1. orders'[g] = Append(orders[g], Says(requests, "camera")) /\ Says(requests, "camera") \in {"on", "off"}
      BY <2>2, Performed, Telling
    <3>2. Len(orders'[g]) = Len(orders[g]) + 1
      BY <2>1, <2>2, <3>1, AppendProperties
    <3>3. QED
      BY <2>1, <2>2, <3>2, LenProperties
  <2>3. CASE ~ (h = g /\ Asked(requests, "camera") /\ Len(orders[g]) < QMax)
    <3>1. orders'[h] = orders[h]
      BY <2>3, Performed
    <3>2. QED
      BY <2>1, <3>1
  <2>4. QED
    BY <2>2, <2>3
<1>4. /\ service' \in [Gateways -> [Services -> States]]
      /\ orders' \in [Gateways -> Seq({"on", "off"})]
      /\ refused' \in [Gateways -> SUBSET (Services \cup {"order"})]
      /\ UNCHANGED bound
  BY Performed
<1>5. bound' \in [Gateways -> SUBSET {"playback", "display"}] /\ mishaps' \in 0 .. MaxMishaps
  BY <1>4 DEF ServiceInv
<1>6. \A h \in Gateways : \A s \in bound'[h] : service'[h][s] = "IDLE"
  BY <1>2, <1>4
<1>7. QED
  BY <1>3, <1>4, <1>5, <1>6 DEF ServiceInv

WantTyped == want \in [Gateways -> [Services -> (0 .. issued) \X {"on", "off", "any"}]]

LEMMA ServiceStep == ServiceInv /\ [Next]_vars => ServiceInv'
<1> SUFFICES ASSUME ServiceInv, [Next]_vars PROVE ServiceInv'
  OBVIOUS
<1>1. /\ service \in [Gateways -> [Services -> States]]
      /\ bound \in [Gateways -> SUBSET {"playback", "display"}]
      /\ \A g \in Gateways : \A s \in bound[g] : service[g][s] = "IDLE"
      /\ orders \in [Gateways -> Seq({"on", "off"})]
      /\ \A g \in Gateways : Len(orders[g]) <= QMax
      /\ refused \in [Gateways -> SUBSET (Services \cup {"order"})]
      /\ mishaps \in 0 .. MaxMishaps
  BY DEF ServiceInv
<1>2. Here \in Gateways /\ There \in Gateways /\ "camera" \in Services
  BY DEF Gateways, Services
<1>3. ASSUME NEW cmd \in Commands, UartMessage(cmd) PROVE ServiceInv'
  <2>1. Perform(Here, uart_message_process[cmd]) /\ UNCHANGED mishaps
    BY <1>3 DEF UartMessage
  <2>2. QED
    BY <1>2, <2>1, PerformKeeps
<1>4. ASSUME NEW p \in Ports, UdpMessage(p) PROVE ServiceInv'
  <2>1. Perform(There, udp_message_process[Head(net[p])[2]]) /\ UNCHANGED mishaps
    BY <1>4 DEF UdpMessage
  <2>2. QED
    BY <1>2, <2>1, PerformKeeps
<1>5. ASSUME mishaps < MaxMishaps, mishaps' = mishaps + 1 PROVE mishaps' \in 0 .. MaxMishaps
  BY <1>1, <1>5, Bounds
<1>6. ASSUME NEW p \in Ports, Lose(p) PROVE ServiceInv'
  BY <1>1, <1>5, <1>6 DEF Lose, halves, ServiceInv
<1>7. ASSUME NEW cmd \in Strays, Stray(cmd) PROVE ServiceInv'
  BY <1>1, <1>5, <1>7 DEF Stray, halves, ServiceInv
<1>8. ASSUME NEW g \in Gateways, VideoCaptureController(g) PROVE ServiceInv'
  <2> DEFINE order == Head(orders[g])
             state == Turned(g, "camera", order)
  <2>1. /\ orders[g] # <<>> /\ orders' = [orders EXCEPT ![g] = Tail(@)]
        /\ service' = [service EXCEPT ![g]["camera"] = state]
        /\ refused' = [refused EXCEPT ![g] = IF Obeyed(order, state) THEN @ \ {"camera"}
                                             ELSE @ \cup {"camera"}]
        /\ UNCHANGED <<bound, mishaps>>
    BY <1>8 DEF VideoCaptureController
  <2>2. /\ order \in {"on", "off"} /\ Tail(orders[g]) \in Seq({"on", "off"})
        /\ Len(Tail(orders[g])) = Len(orders[g]) - 1 /\ Len(orders[g]) \in Nat
    BY <1>1, <2>1, HeadTailProperties, LenProperties
  <2>3. state \in States /\ ("camera" \in bound[g] => state = "IDLE")
    BY <1>2, <2>2, Turning
  <2> HIDE DEF order, state
  <2>4. service' \in [Gateways -> [Services -> States]]
    BY <1>1, <1>2, <2>1, <2>3
  <2>5. \A h \in Gateways : \A s \in bound'[h] : service'[h][s] = "IDLE"
    <3>1. \A h \in Gateways : \A s \in Services :
            service'[h][s] = IF h = g /\ s = "camera" THEN state ELSE service[h][s]
      BY <1>1, <2>1
    <3>2. \A h \in Gateways : bound[h] \subseteq Services
      BY <1>1 DEF Services
    <3>3. QED
      BY <1>1, <2>1, <2>3, <3>1, <3>2
  <2>6. orders' \in [Gateways -> Seq({"on", "off"})]
    BY <1>1, <2>1, <2>2
  <2>7. \A h \in Gateways : Len(orders'[h]) <= QMax
    <3>1. Len(Tail(orders[g])) <= QMax
      BY <1>1, <2>2, Bounds
    <3>2. QED
      BY <1>1, <2>1, <3>1
  <2>8. refused' \in [Gateways -> SUBSET (Services \cup {"order"})]
    BY <1>1, <1>2, <2>1
  <2>9. QED
    BY <1>1, <2>1, <2>4, <2>5, <2>6, <2>7, <2>8 DEF ServiceInv
<1>9. ASSUME NEW g \in Gateways, NEW s \in Services, DeviceOpens(g, s) PROVE ServiceInv'
  <2>1. /\ service[g][s] = "START" /\ service' = [service EXCEPT ![g][s] = "RUN"]
        /\ UNCHANGED <<bound, orders, refused, mishaps>>
    BY <1>9 DEF DeviceOpens
  <2>2. service' \in [Gateways -> [Services -> States]]
    BY <1>1, <2>1 DEF States
  <2>3. s \notin bound[g]
    BY <1>1, <2>1
  <2>4. \A h \in Gateways : \A t \in Services : ~ (h = g /\ t = s) => service'[h][t] = service[h][t]
    BY <1>1, <2>1
  <2>5. \A h \in Gateways : bound[h] \subseteq Services
    BY <1>1 DEF Services
  <2>6. \A h \in Gateways : \A t \in bound'[h] : service'[h][t] = "IDLE"
    BY <1>1, <2>1, <2>3, <2>4, <2>5
  <2>7. QED
    BY <1>1, <2>1, <2>2, <2>6 DEF ServiceInv
<1>10. ASSUME NEW g \in Gateways, NEW s \in Services, DeviceFails(g, s) PROVE ServiceInv'
  <2>1. /\ service[g][s] = "START" /\ service' = [service EXCEPT ![g][s] = "IDLE"]
        /\ bound' = [bound EXCEPT ![g] = @ \cup ({s} \cap {"playback", "display"})]
        /\ refused' = [refused EXCEPT ![g] = @ \cup {s}]
        /\ mishaps' \in 0 .. MaxMishaps /\ UNCHANGED orders
    BY <1>5, <1>10 DEF DeviceFails
  <2>2. service' \in [Gateways -> [Services -> States]]
    BY <1>1, <2>1 DEF States
  <2>3. /\ bound' \in [Gateways -> SUBSET {"playback", "display"}]
        /\ refused' \in [Gateways -> SUBSET (Services \cup {"order"})]
        /\ \A h \in Gateways : \A t \in bound'[h] : t \in bound[h] \/ (h = g /\ t = s)
    BY <1>1, <2>1
  <2>4. \A h \in Gateways : \A t \in Services :
          service'[h][t] = IF h = g /\ t = s THEN "IDLE" ELSE service[h][t]
    BY <1>1, <2>1
  <2>5. \A h \in Gateways : bound'[h] \subseteq Services
    BY <2>3 DEF Services
  <2>6. \A h \in Gateways : \A t \in bound'[h] : service'[h][t] = "IDLE"
    <3> TAKE h \in Gateways
    <3> TAKE t \in bound'[h]
    <3>1. t \in Services
      BY <2>5
    <3>2. CASE h = g /\ t = s
      BY <2>4, <3>1, <3>2
    <3>3. CASE ~ (h = g /\ t = s)
      <4>1. t \in bound[h] /\ service[h][t] = "IDLE"
        BY <1>1, <2>3, <3>3
      <4>2. QED
        BY <2>4, <3>1, <4>1
    <3>4. QED
      BY <3>2, <3>3
  <2>7. QED
    BY <1>1, <2>1, <2>2, <2>3, <2>6 DEF ServiceInv
<1>11. CASE UNCHANGED vars
  BY <1>1, <1>11 DEF ServiceInv, vars, halves
<1>12. QED
  BY <1>3, <1>4, <1>6, <1>7, <1>8, <1>9, <1>10, <1>11 DEF Next, Deliver, Opens

LEMMA WishSame ==
  ASSUME NEW n, NEW requests, NEW w, NEW s \in Services, ~ Asked(requests, s)
  PROVE  Wanted(n, requests, w)[s] = w[s]
<1>1. <<s, "on">> \notin requests /\ <<s, "off">> \notin requests
  BY DEF Asked
<1>2. QED
  BY <1>1 DEF Wanted

LEMMA WishNew ==
  ASSUME NEW n, NEW requests, NEW w, NEW s \in Services, Clear(requests),
         NEW t \in {"on", "off"}, <<s, t>> \in requests
  PROVE  Wanted(n, requests, w)[s] = <<n, t>>
<1>1. CASE t = "on"
  BY <1>1 DEF Wanted, Clear
<1>2. CASE t = "off"
  BY <1>2 DEF Wanted, Clear
<1>3. QED
  BY <1>1, <1>2

LEMMA WishSome ==
  ASSUME NEW n, NEW requests, NEW w, NEW s \in Services, Asked(requests, s)
  PROVE  Wanted(n, requests, w)[s] \in {<<n, "on">>, <<n, "off">>}
<1> DEFINE on == <<s, "on">> \in requests
           off == <<s, "off">> \in requests
<1>1. Wanted(n, requests, w)[s] = CASE on -> <<n, "on">> [] off -> <<n, "off">> [] OTHER -> w[s]
  BY DEF Wanted
<1>2. on \/ off
  BY DEF Asked
<1> HIDE DEF on, off
<1>3. QED
  BY <1>1, <1>2

LEMMA WantStep == NetInv /\ WantTyped /\ [Next]_vars => WantTyped'
<1> SUFFICES ASSUME NetInv, WantTyped, [Next]_vars PROVE WantTyped'
  OBVIOUS
<1> DEFINE Wish(n) == [Services -> (0 .. n) \X {"on", "off", "any"}]
<1>1. /\ want \in [Gateways -> Wish(issued)] /\ issued \in 0 .. MaxCommands
      /\ Here \in Gateways /\ There \in Gateways
  BY DEF WantTyped, NetInv, Gateways
<1>2. ASSUME NEW cmd \in Commands, UartMessage(cmd) PROVE WantTyped'
  <2>1. /\ issued' = issued + 1
        /\ want' = [want EXCEPT
              ![Here]  = Wanted(issued', uart_message_process[cmd], @),
              ![There] = IF Relay(cmd) = {} THEN @
                         ELSE Wanted(issued', OtherHalf(uart_message_process[cmd]), @)]
    BY <1>2 DEF UartMessage
  <2>2. 0 .. issued \subseteq 0 .. issued' /\ issued' \in 0 .. issued'
    BY <1>1, <2>1
  <2>3. \A w \in Wish(issued) : w \in Wish(issued')
    BY <2>2
  <2>4. ASSUME NEW requests, NEW w \in Wish(issued) PROVE Wanted(issued', requests, w) \in Wish(issued')
    <3>1. ASSUME NEW s \in Services
          PROVE  Wanted(issued', requests, w)[s] \in (0 .. issued') \X {"on", "off", "any"}
      <4>1. w[s] \in (0 .. issued') \X {"on", "off", "any"}
        BY <2>3
      <4>2. \/ Wanted(issued', requests, w)[s] \in {<<issued', "on">>, <<issued', "off">>}
            \/ Wanted(issued', requests, w)[s] = w[s]
        <5> HIDE DEF Wish
        <5>1. CASE Asked(requests, s)
          BY <5>1, WishSome
        <5>2. CASE ~ Asked(requests, s)
          BY <5>2, WishSame
        <5>3. QED
          BY <5>1, <5>2
      <4>3. QED
        BY <2>2, <4>1, <4>2
    <3> DEFINE W == Wanted(issued', requests, w)
    <3>2. DOMAIN W = Services /\ W = [s \in DOMAIN W |-> W[s]]
      BY DEF Wanted
    <3> HIDE DEF W
    <3>3. \A s \in Services : W[s] \in (0 .. issued') \X {"on", "off", "any"}
      BY <3>1 DEF W
    <3>4. W \in Wish(issued')
      BY <3>2, <3>3
    <3>5. QED
      BY <3>4 DEF W
  <2> HIDE DEF Wish
  <2>5. want' \in [Gateways -> Wish(issued')]
    <3> DEFINE a == Wanted(issued', uart_message_process[cmd], want[Here])
               b == Wanted(issued', OtherHalf(uart_message_process[cmd]), want[There])
               c == IF Relay(cmd) = {} THEN want[There] ELSE b
    <3>1. a \in Wish(issued') /\ b \in Wish(issued') /\ c \in Wish(issued')
      BY <1>1, <2>3, <2>4
    <3>2. want' = [want EXCEPT ![Here] = a, ![There] = c]
      BY <1>1, <2>1 DEF Here, There
    <3> HIDE DEF a, b, c
    <3>3. \A g \in Gateways : g = Here \/ g = There
      BY DEF Gateways
    <3>4. QED
      BY <1>1, <2>3, <3>1, <3>2, <3>3
  <2>6. QED
    BY <2>5 DEF WantTyped, Wish
<1>3. ASSUME NEW p \in Ports, UdpMessage(p) PROVE WantTyped'
  <2> DEFINE requests == udp_message_process[Head(net[p])[2]]
             any == [s \in Services |-> IF \E to \in {"on", "off"} : <<s, to>> \in requests
                                        THEN <<0, "any">> ELSE want[There][s]]
  <2>1. issued' = issued /\ (want' = want \/ want' = [want EXCEPT ![There] = any])
    BY <1>3 DEF UdpMessage
  <2>2. want[There] \in Wish(issued) /\ 0 \in 0 .. issued
    BY <1>1
  <2>3. \A s \in Services : any[s] \in (0 .. issued) \X {"on", "off", "any"}
    BY <2>2
  <2>4. any \in Wish(issued)
    BY <2>3
  <2> HIDE DEF Wish, any
  <2>5. want' \in [Gateways -> Wish(issued')]
    BY <1>1, <2>1, <2>4
  <2>6. QED
    BY <2>5 DEF WantTyped, Wish
<1>4. CASE UNCHANGED <<want, issued>>
  BY <1>4 DEF WantTyped
<1>5. QED
  BY <1>2, <1>3, <1>4 DEF Next, Deliver, Lose, Stray, VideoCaptureController, Opens,
     DeviceOpens, DeviceFails, vars

HeardParts == NetInv /\ HeardInv /\ ServiceInv /\ WantTyped

LEMMA HeardInit == Init => HeardParts
<1> SUFFICES ASSUME Init PROVE HeardParts
  OBVIOUS
<1>1. 0 \in 0 .. MaxCommands /\ 0 \in 0 .. MaxMishaps /\ 0 <= QMax
  BY Bounds
<1>2. /\ net = [p \in Ports |-> <<>>] /\ issued = 0 /\ heard = {} /\ late = {} /\ lost = {}
      /\ orders = [g \in Gateways |-> <<>>] /\ mishaps = 0
  BY DEF Init
<1>3. <<>> \in Seq(Packets) /\ <<>> \in Seq({"on", "off"})
  OBVIOUS
<1>4. \A p \in Ports : net[p] = <<>> /\ Under(net[p]) = {} /\ Rising(net[p])
  BY <1>2 DEF Under, Rising
<1>5. net \in [Ports -> Seq(Packets)]
  BY <1>2, <1>3
<1>6. NetInv
  BY <1>1, <1>2, <1>4, <1>5 DEF NetInv
<1>7. HeardInv
  BY <1>2, <1>4 DEF HeardInv
<1>8. ServiceInv
  <2>1. /\ service = [g \in Gateways |-> [s \in Services |-> "IDLE"]]
        /\ bound = [g \in Gateways |-> {}] /\ refused = [g \in Gateways |-> {}]
    BY DEF Init
  <2>2. orders \in [Gateways -> Seq({"on", "off"})] /\ \A g \in Gateways : Len(orders[g]) = 0
    BY <1>2, <1>3
  <2>3. service \in [Gateways -> [Services -> States]]
    BY <2>1 DEF States
  <2>4. QED
    BY <1>1, <1>2, <2>1, <2>2, <2>3 DEF ServiceInv
<1>9. WantTyped
  <2>1. want = [g \in Gateways |-> [s \in Services |-> <<0, "off">>]]
    BY DEF Init
  <2>2. <<0, "off">> \in (0 .. issued) \X {"on", "off", "any"}
    BY <1>2
  <2>3. QED
    BY <2>1, <2>2 DEF WantTyped
<1>10. QED
  BY <1>6, <1>7, <1>8, <1>9 DEF HeardParts

LEMMA HeardHolds == HeardParts => HeardInOrder
<1> SUFFICES ASSUME HeardParts PROVE HeardInOrder
  OBVIOUS
<1>1. NetInv /\ HeardInv /\ ServiceInv /\ WantTyped
  BY DEF HeardParts
<1>2. \A p \in Ports : net[p] \in Seq((0 .. MaxCommands) \X AllCommands)
  BY <1>1 DEF NetInv, Packets
<1>3. TypeOK
  BY <1>1, <1>2 DEF NetInv, HeardInv, ServiceInv, WantTyped, TypeOK, States
<1>4. QED
  BY <1>1, <1>3 DEF HeardInv, HeardInOrder

(* The unit There first hears of the commands relayed over both ports in   *)
(* the order they were given, unless a copy was lost: however many, over   *)
(* two ports with no order between them, with strays in between.           *)
THEOREM CommandsAreHeardInOrder == Spec => []HeardInOrder
<1>1. HeardParts /\ [Next]_vars => HeardParts'
  BY NetStep, HeardStep, ServiceStep, WantStep DEF HeardParts
<1>2. QED
  BY <1>1, HeardInit, HeardHolds, PTL DEF Spec
-----------------------------------------------------------------------------
(* The services follow the commands.                                       *)

(* Service s of gateway g does what "to" says, or will when the orders of  *)
(* its controller are carried out, or the request came to nothing.         *)
Done(g, s, to) ==
  IF s # "camera" THEN s \in refused[g] \/ Obeyed(to, service[g][s])
  ELSE \/ "order" \in refused[g]
       \/ orders[g] # <<>> /\ orders[g][Len(orders[g])] = to
       \/ orders[g] = <<>> /\ (s \in refused[g] \/ Obeyed(to, service[g][s]))

HereInv == \A s \in Services, to \in {"on", "off"} : want[Here][s][2] = to => Done(Here, s, to)

(* A packet on its way concerns s no later than the last command for s;    *)
(* and a port has this last command, or has lost it, or is past it.        *)
WantInv ==
  \A s \in Services, to \in {"on", "off"}, n \in Nat : want[There][s] = <<n, to>> =>
    /\ \A p \in Ports : \A k \in Under(net[p]) : k[1] # 0 =>
         /\ Asked(udp_message_process[k[2]], s) => k[1] <= n
         /\ k[1] = n => <<s, to>> \in udp_message_process[k[2]]
    /\ n # 0 => \A p \in Ports : Holds(net[p], n) \/ <<p, n>> \in lost \/ Beyond(net[p], n)

ThereInv ==
  \A s \in Services, to \in {"on", "off"}, n \in Nat : want[There][s] = <<n, to>> =>
    \/ \E p \in Ports : <<p, n>> \in lost
    \/ n # 0 /\ \E p \in Ports : Holds(net[p], n)
    \/ Done(There, s, to)
-----------------------------------------------------------------------------
(* No command tells a service both.                                        *)
LEMMA UdpIsClear == \A cmd \in AllCommands : Clear(udp_message_process[cmd])
<1>1. \A cmd \in DOMAIN UdpAudio : Clear(UdpAudio[cmd])
  BY ClearParts, Domains DEF UartAudio, UdpAudio
<1>2. \A cmd \in DOMAIN UdpVideo : Clear(UdpVideo[cmd])
  <2>1. \A cmd \in DOMAIN UdpVideo : UdpVideo[cmd] \in {C("on"), C("off"), S("on"), S("off")}
    BY Domains DEF UdpVideo
  <2>2. QED
    BY <2>1, ClearParts
<1>3. \A cmd \in DOMAIN UdpBoth : Clear(UdpBoth[cmd])
  <2>1. \A cmd \in DOMAIN UdpBoth :
          UdpBoth[cmd] \in {TalkOn \cup C("on"), TalkOff \cup C("off"),
                            TalkOn \cup S("on"), TalkOff \cup S("off")}
    BY Domains DEF UdpBoth
  <2>2. QED
    BY <2>1, ClearParts
<1>4. \A cmd \in DOMAIN UdpMixed : Clear(UdpMixed[cmd])
  <2>1. \A cmd \in DOMAIN UdpMixed :
          UdpMixed[cmd] \in {TalkOff \cup C("on"), TalkOff \cup C("off") \cup S("off")}
    BY Domains DEF UdpMixed
  <2>2. QED
    BY <2>1, ClearParts
<1>5. \A cmd \in DOMAIN DataSingle : Clear(DataSingle[cmd])
  BY DEF DataSingle, Clear
<1>6. DOMAIN UdpAudio = DOMAIN UartAudio
  BY DEF UdpAudio
<1>7. QED
  BY <1>1, <1>2, <1>3, <1>4, <1>5, <1>6, Domains DEF AllCommands, udp_message_process
-----------------------------------------------------------------------------
(* What a step of the gateway does to what it has done.                    *)
LEMMA DonePerformed ==
  ASSUME ServiceInv, NEW g \in Gateways, NEW requests, Perform(g, requests), Clear(requests),
         NEW s \in Services, NEW to \in {"on", "off"}
  PROVE  /\ <<s, to>> \in requests => Done(g, s, to)'
         /\ ~ Asked(requests, s) /\ Done(g, s, to) => Done(g, s, to)'
<1>1. /\ s \in Immediate <=> s # "camera"
      /\ orders[g] \in Seq({"on", "off"})
  BY DEF Immediate, Services, ServiceInv
<1>2. ASSUME <<s, to>> \in requests PROVE Done(g, s, to)'
  <2>1. Asked(requests, s) /\ Says(requests, s) = to
    BY <1>2, Telling
  <2>2. CASE s # "camera"
    <3>1. s \in refused'[g] <=> ~ Obeyed(to, service'[g][s])
      BY <1>1, <2>1, <2>2, Performed
    <3>2. QED
      BY <2>2, <3>1 DEF Done
  <2>3. CASE s = "camera"
    <3>1. CASE Len(orders[g]) < QMax
      <4>1. orders'[g] = Append(orders[g], to)
        BY <2>1, <2>3, <3>1, Performed
      <4>2. orders'[g] # <<>> /\ orders'[g][Len(orders'[g])] = to
        <5>1. /\ Len(orders[g]) \in Nat /\ Len(orders'[g]) = Len(orders[g]) + 1
              /\ orders'[g][Len(orders[g]) + 1] = to /\ orders'[g] \in Seq({"on", "off"})
          BY <1>1, <4>1, AppendProperties, LenProperties
        <5>2. QED
          BY <5>1, EmptySeq
      <4>3. QED
        BY <2>3, <4>2 DEF Done
    <3>2. CASE ~ (Len(orders[g]) < QMax)
      <4>1. "order" \in refused'[g]
        BY <2>1, <2>3, <3>2, Performed
      <4>2. QED
        BY <2>3, <4>1 DEF Done
    <3>3. QED
      BY <3>1, <3>2
  <2>4. QED
    BY <2>2, <2>3
<1>3. ASSUME ~ Asked(requests, s), Done(g, s, to) PROVE Done(g, s, to)'
  <2>1. service'[g][s] = service[g][s] /\ (s \in refused'[g] <=> s \in refused[g])
    BY <1>3, Performed
  <2>2. s = "camera" => orders'[g] = orders[g] /\ ("order" \in refused'[g] <=> "order" \in refused[g])
    BY <1>3, Performed
  <2>3. QED
    BY <1>3, <2>1, <2>2 DEF Done
<1>4. QED
  BY <1>2, <1>3

LEMMA DoneElsewhere ==
  ASSUME ServiceInv, NEW g \in Gateways, NEW requests, Perform(g, requests),
         NEW h \in Gateways \ {g}, NEW s \in Services, NEW to \in {"on", "off"}, Done(h, s, to)
  PROVE  Done(h, s, to)'
<1>1. service'[h] = service[h] /\ refused'[h] = refused[h] /\ orders'[h] = orders[h]
  BY Performed
<1>2. QED
  BY <1>1 DEF Done

(* The controller and the devices undo nothing.                            *)
LEMMA DoneStays ==
  ASSUME ServiceInv, NEW g \in Gateways,
         VideoCaptureController(g) \/ \E s \in Services : Opens(g, s),
         NEW h \in Gateways, NEW s \in Services, NEW to \in {"on", "off"}, Done(h, s, to)
  PROVE  Done(h, s, to)'
<1>1. /\ service \in [Gateways -> [Services -> States]] /\ "camera" \in Services
      /\ orders \in [Gateways -> Seq({"on", "off"})] /\ "order" \notin Services
      /\ refused \in [Gateways -> SUBSET (Services \cup {"order"})]
  BY DEF ServiceInv, Services
<1>2. CASE VideoCaptureController(g)
  <2> DEFINE order == Head(orders[g])
             state == Turned(g, "camera", order)
  <2>1. /\ orders[g] # <<>> /\ orders' = [orders EXCEPT ![g] = Tail(@)]
        /\ service' = [service EXCEPT ![g]["camera"] = state]
        /\ refused' = [refused EXCEPT ![g] = IF Obeyed(order, state) THEN @ \ {"camera"}
                                             ELSE @ \cup {"camera"}]
    BY <1>2 DEF VideoCaptureController
  <2>2. /\ orders[g] \in Seq({"on", "off"}) /\ Len(orders[g]) \in Nat /\ Len(orders[g]) # 0
        /\ order = orders[g][1] /\ Tail(orders[g]) \in Seq({"on", "off"})
        /\ Len(Tail(orders[g])) = Len(orders[g]) - 1
        /\ \A i \in 1 .. Len(Tail(orders[g])) : Tail(orders[g])[i] = orders[g][i + 1]
    BY <1>1, <2>1, HeadTailProperties, LenProperties, EmptySeq
  <2> HIDE DEF order, state
  <2>3. CASE h # g
    <3>1. service'[h] = service[h] /\ refused'[h] = refused[h] /\ orders'[h] = orders[h]
      BY <1>1, <2>1, <2>3
    <3>2. QED
      BY <3>1 DEF Done
  <2>4. CASE h = g /\ s # "camera"
    <3>1. service'[h][s] = service[h][s] /\ (s \in refused'[h] <=> s \in refused[h])
      BY <1>1, <2>1, <2>4
    <3>2. QED
      BY <2>4, <3>1 DEF Done
  <2>5. CASE h = g /\ s = "camera"
    <3>1. /\ orders'[g] = Tail(orders[g]) /\ service'[g]["camera"] = state
          /\ ("order" \in refused'[g] <=> "order" \in refused[g])
          /\ ("camera" \in refused'[g] <=> ~ Obeyed(order, state))
      BY <1>1, <2>1
    <3>2. CASE "order" \in refused[g]
      BY <2>5, <3>1, <3>2 DEF Done
    <3>3. CASE "order" \notin refused[g]
      <4>1. orders[g][Len(orders[g])] = to
        BY <2>1, <2>5, <3>3 DEF Done
      <4>2. CASE orders'[g] = <<>>
        <5>1. Len(orders[g]) = 1
          <6>1. Len(Tail(orders[g])) = 0
            BY <2>2, <3>1, <4>2, EmptySeq
          <6>2. QED
            BY <2>2, <6>1
        <5>2. order = to
          BY <2>2, <4>1, <5>1
        <5>3. QED
          BY <2>5, <3>1, <4>2, <5>2 DEF Done
      <4>3. CASE orders'[g] # <<>>
        <5>1. /\ Len(Tail(orders[g])) \in 1 .. Len(Tail(orders[g]))
              /\ Len(Tail(orders[g])) + 1 = Len(orders[g])
          BY <2>2, <3>1, <4>3, EmptySeq
        <5>2. Tail(orders[g])[Len(Tail(orders[g]))] = to
          BY <2>2, <4>1, <5>1
        <5>3. QED
          BY <2>5, <3>1, <4>3, <5>2 DEF Done
      <4>4. QED
        BY <4>2, <4>3
    <3>4. QED
      BY <3>2, <3>3
  <2>6. QED
    BY <2>3, <2>4, <2>5
<1>3. ASSUME NEW t \in Services, DeviceOpens(g, t) PROVE Done(h, s, to)'
  <2>1. /\ service[g][t] = "START" /\ service' = [service EXCEPT ![g][t] = "RUN"]
        /\ UNCHANGED <<orders, refused>>
    BY <1>3 DEF DeviceOpens
  <2>2. service'[h][s] = service[h][s] \/ (service[h][s] = "START" /\ service'[h][s] = "RUN")
    BY <1>1, <2>1
  <2>3. Obeyed(to, service[h][s]) => Obeyed(to, service'[h][s])
    BY <2>2 DEF Obeyed
  <2>4. QED
    BY <2>1, <2>3 DEF Done
<1>4. ASSUME NEW t \in Services, DeviceFails(g, t) PROVE Done(h, s, to)'
  <2>1. /\ service' = [service EXCEPT ![g][t] = "IDLE"] /\ UNCHANGED orders
        /\ refused' = [refused EXCEPT ![g] = @ \cup {t}]
    BY <1>4 DEF DeviceFails
  <2>2. s \in refused'[h] \/ (service'[h][s] = service[h][s] /\ (s \in refused'[h] <=> s \in refused[h]))
    BY <1>1, <2>1
  <2>3. "order" \in refused[h] => "order" \in refused'[h]
    BY <1>1, <2>1
  <2>4. QED
    BY <2>1, <2>2, <2>3 DEF Done
<1>5. QED
  BY <1>2, <1>3, <1>4 DEF Opens
-----------------------------------------------------------------------------
(* What a command makes the unit want.                                     *)
LEMMA Wishes ==
  ASSUME WantTyped, NEW cmd \in Commands, UartMessage(cmd), NEW s \in Services
  PROVE  /\ \A t \in {"on", "off"} : <<s, t>> \in uart_message_process[cmd] => want'[Here][s] = <<issued', t>>
         /\ ~ Asked(uart_message_process[cmd], s) => want'[Here][s] = want[Here][s]
         /\ cmd \in RelayedTwice =>
              \A t \in {"on", "off"} : <<s, t>> \in udp_message_process[cmd] => want'[There][s] = <<issued', t>>
         /\ cmd \notin RelayedTwice \/ ~ Asked(udp_message_process[cmd], s) => want'[There][s] = want[There][s]
<1> DEFINE here == Wanted(issued', uart_message_process[cmd], want[Here])
           other == Wanted(issued', OtherHalf(uart_message_process[cmd]), want[There])
<1>1. /\ want \in [Gateways -> [Services -> (0 .. issued) \X {"on", "off", "any"}]]
      /\ Here \in Gateways /\ There \in Gateways /\ Here # There
  BY DEF WantTyped, Gateways, Here, There
<1>2. want' = [want EXCEPT ![Here] = here, ![There] = IF Relay(cmd) = {} THEN @ ELSE other]
  BY <1>1 DEF UartMessage
<1>3. want'[Here] = here /\ want'[There] = IF Relay(cmd) = {} THEN want[There] ELSE other
  <2> HIDE DEF here, other
  <2>1. QED
    BY <1>1, <1>2
<1>4. cmd \in AllCommands /\ Clear(uart_message_process[cmd])
  BY Bounds, UartIsClear
<1>5. /\ \A t \in {"on", "off"} : <<s, t>> \in uart_message_process[cmd] => here[s] = <<issued', t>>
      /\ ~ Asked(uart_message_process[cmd], s) => here[s] = want[Here][s]
  <2>1. ASSUME NEW t \in {"on", "off"}, <<s, t>> \in uart_message_process[cmd] PROVE here[s] = <<issued', t>>
    BY <1>4, <2>1, WishNew
  <2>2. ASSUME ~ Asked(uart_message_process[cmd], s) PROVE here[s] = want[Here][s]
    BY <2>2, WishSame
  <2> HIDE DEF here
  <2>3. QED
    BY <2>1, <2>2
<1>6. CASE cmd \in RelayedTwice
  <2>1. /\ other = Wanted(issued', udp_message_process[cmd], want[There])
        /\ Clear(udp_message_process[cmd])
    BY <1>4, <1>6, TheOtherHalf, UdpIsClear
  <2>2. /\ \A t \in {"on", "off"} : <<s, t>> \in udp_message_process[cmd] => other[s] = <<issued', t>>
        /\ ~ Asked(udp_message_process[cmd], s) => other[s] = want[There][s]
    <3>1. ASSUME NEW t \in {"on", "off"}, <<s, t>> \in udp_message_process[cmd] PROVE other[s] = <<issued', t>>
      <4>1. Wanted(issued', udp_message_process[cmd], want[There])[s] = <<issued', t>>
        BY <2>1, <3>1, WishNew
      <4> HIDE DEF other
      <4>2. QED
        BY <2>1, <4>1
    <3>2. ASSUME ~ Asked(udp_message_process[cmd], s) PROVE other[s] = want[There][s]
      BY <2>1, <3>2, WishSame
    <3> HIDE DEF other
    <3>3. QED
      BY <3>1, <3>2
  <2>3. Relay(cmd) # {}
    BY <1>6 DEF Relay, RelayedTwice, Ports
  <2> HIDE DEF here, other
  <2>4. QED
    BY <1>3, <1>5, <1>6, <2>2, <2>3
<1>7. CASE cmd = "DATA_SINGLE"
  <2>1. OtherHalf(uart_message_process[cmd]) = {} /\ cmd \notin RelayedTwice
    BY <1>7, TheOtherHalf DEF OtherHalf, RelayedTwice
  <2>2. ~ Asked(OtherHalf(uart_message_process[cmd]), s)
    BY <2>1 DEF Asked
  <2>3. other[s] = want[There][s]
    BY <2>2, WishSame
  <2> HIDE DEF here, other
  <2>4. QED
    BY <1>3, <1>5, <2>1, <2>3
<1>8. CASE cmd \notin RelayedTwice /\ cmd # "DATA_SINGLE"
  <2>1. Relay(cmd) = {}
    BY <1>8 DEF Relay
  <2> HIDE DEF here, other
  <2>2. QED
    BY <1>3, <1>5, <1>8, <2>1
<1>9. QED
  BY <1>6, <1>7, <1>8

LEMMA HereStep == ServiceInv /\ WantTyped /\ HereInv /\ [Next]_vars => HereInv'
<1> SUFFICES ASSUME ServiceInv, WantTyped, HereInv, [Next]_vars PROVE HereInv'
  OBVIOUS
<1>1. /\ Here \in Gateways /\ There \in Gateways /\ Here # There
      /\ \A s \in Services, to \in {"on", "off"} : want[Here][s][2] = to => Done(Here, s, to)
  BY DEF HereInv, Gateways, Here, There
<1>2. ASSUME NEW cmd \in Commands, UartMessage(cmd) PROVE HereInv'
  <2> SUFFICES ASSUME NEW s \in Services, NEW to \in {"on", "off"}, want'[Here][s][2] = to
               PROVE  Done(Here, s, to)'
    BY DEF HereInv
  <2> DEFINE requests == uart_message_process[cmd]
  <2>1. Perform(Here, requests) /\ Clear(requests)
    BY <1>2, Bounds, UartIsClear DEF UartMessage
  <2>2. CASE Asked(requests, s)
    <3>1. PICK t \in {"on", "off"} : <<s, t>> \in requests
      BY <2>2 DEF Asked
    <3>2. want'[Here][s] = <<issued', t>>
      BY <1>2, <3>1, Wishes
    <3>3. t = to
      BY <3>2
    <3> HIDE DEF requests
    <3>4. QED
      BY <1>1, <2>1, <3>1, <3>3, DonePerformed
  <2>3. CASE ~ Asked(requests, s)
    <3>1. want'[Here][s] = want[Here][s]
      BY <1>2, <2>3, Wishes
    <3>2. Done(Here, s, to)
      BY <1>1, <3>1
    <3> HIDE DEF requests
    <3>3. QED
      BY <1>1, <2>1, <2>3, <3>2, DonePerformed
  <2>4. QED
    BY <2>2, <2>3
<1>3. ASSUME NEW p \in Ports, UdpMessage(p) PROVE HereInv'
  <2> DEFINE requests == udp_message_process[Head(net[p])[2]]
             any == [s \in Services |-> IF \E to \in {"on", "off"} : <<s, to>> \in requests
                                        THEN <<0, "any">> ELSE want[There][s]]
  <2>1. Perform(There, requests) /\ (want' = want \/ want' = [want EXCEPT ![There] = any])
    BY <1>3 DEF UdpMessage
  <2> HIDE DEF any, requests
  <2>2. want'[Here] = want[Here]
    BY <1>1, <2>1 DEF WantTyped
  <2>3. ASSUME NEW s \in Services, NEW to \in {"on", "off"}, want'[Here][s][2] = to
        PROVE  Done(Here, s, to)'
    BY <1>1, <2>1, <2>2, <2>3, DoneElsewhere
  <2>4. QED
    BY <2>3 DEF HereInv
<1>4. ASSUME NEW g \in Gateways, VideoCaptureController(g) \/ \E s \in Services : Opens(g, s)
      PROVE  HereInv'
  <2>1. want' = want
    BY <1>4 DEF VideoCaptureController, Opens, DeviceOpens, DeviceFails
  <2>2. ASSUME NEW s \in Services, NEW to \in {"on", "off"}, want'[Here][s][2] = to
        PROVE  Done(Here, s, to)'
    BY <1>1, <1>4, <2>1, <2>2, DoneStays
  <2>3. QED
    BY <2>2 DEF HereInv
<1>5. CASE UNCHANGED <<want, halves>>
  BY <1>5 DEF HereInv, Done, halves
<1>6. QED
  BY <1>2, <1>3, <1>4, <1>5 DEF Next, Deliver, Lose, Stray, vars

LEMMA Delivered ==
  ASSUME WantTyped, NEW p \in Ports, UdpMessage(p),
         NEW s \in Services, NEW to \in {"on", "off"}, NEW n, want'[There][s] = <<n, to>>
  PROVE  /\ want[There][s] = <<n, to>>
         /\ Head(net[p])[1] = 0 => ~ Asked(udp_message_process[Head(net[p])[2]], s)
<1> DEFINE requests == udp_message_process[Head(net[p])[2]]
           any == [t \in Services |-> IF \E u \in {"on", "off"} : <<t, u>> \in requests
                                      THEN <<0, "any">> ELSE want[There][t]]
<1>1. IF Head(net[p])[1] = 0 THEN want' = [want EXCEPT ![There] = any] ELSE want' = want
  BY DEF UdpMessage
<1>2. any[s] = IF Asked(requests, s) THEN <<0, "any">> ELSE want[There][s]
  BY DEF Asked
<1> HIDE DEF any, requests
<1>3. CASE Head(net[p])[1] = 0
  <2>1. want'[There] = any
    BY <1>1, <1>3 DEF WantTyped, Gateways
  <2>2. <<0, "any">> # <<n, to>>
    OBVIOUS
  <2>3. ~ Asked(requests, s) /\ want[There][s] = <<n, to>>
    BY <1>2, <2>1, <2>2
  <2>4. QED
    BY <2>3 DEF requests
<1>4. QED
  BY <1>1, <1>3

LEMMA Numbered ==
  ASSUME NetInv, WantTyped, NEW s \in Services, NEW to, NEW n, want[There][s] = <<n, to>>
  PROVE  n \in Nat /\ n <= issued
<1>1. want[There][s] \in (0 .. issued) \X {"on", "off", "any"}
  BY DEF WantTyped, Gateways
<1>2. n \in 0 .. issued
  BY <1>1
<1>3. QED
  BY <1>2, Bounds DEF NetInv

LEMMA WantedStep == NetInv /\ HeardInv /\ WantTyped /\ WantInv /\ [Next]_vars => WantInv'
<1> SUFFICES ASSUME NetInv, HeardInv, WantTyped, WantInv, [Next]_vars,
                    NEW s \in Services, NEW to \in {"on", "off"}, NEW n \in Nat,
                    want'[There][s] = <<n, to>>
             PROVE  /\ \A p \in Ports : \A k \in Under(net'[p]) : k[1] # 0 =>
                         /\ Asked(udp_message_process[k[2]], s) => k[1] <= n
                         /\ k[1] = n => <<s, to>> \in udp_message_process[k[2]]
                    /\ n # 0 => \A p \in Ports : Holds(net'[p], n) \/ <<p, n>> \in lost'
                                                 \/ Beyond(net'[p], n)
  BY DEF WantInv
<1> DEFINE Before == want[There][s] = <<n, to>>
<1>1. ASSUME Before
      PROVE  /\ \A p \in Ports : \A k \in Under(net[p]) : k[1] # 0 =>
                  /\ Asked(udp_message_process[k[2]], s) => k[1] <= n
                  /\ k[1] = n => <<s, to>> \in udp_message_process[k[2]]
             /\ n # 0 => \A p \in Ports : Holds(net[p], n) \/ <<p, n>> \in lost \/ Beyond(net[p], n)
             /\ n <= issued
  BY <1>1, Numbered DEF WantInv
<1>2. \A p \in Ports : \A k \in Under(net[p]) : k[1] \in Nat /\ k[1] <= issued
  BY NumbersAreOrdered DEF NetInv
<1>3. ASSUME NEW cmd \in Commands, UartMessage(cmd)
      PROVE  /\ \A p \in Ports : \A k \in Under(net'[p]) : k[1] # 0 =>
                  /\ Asked(udp_message_process[k[2]], s) => k[1] <= n
                  /\ k[1] = n => <<s, to>> \in udp_message_process[k[2]]
             /\ n # 0 => \A p \in Ports : Holds(net'[p], n) \/ <<p, n>> \in lost'
                                          \/ Beyond(net'[p], n)
  <2> DEFINE m == <<issued', cmd>>
  <2>1. /\ issued' = issued + 1 /\ issued \in Nat /\ m[1] = issued' /\ m[2] = cmd /\ lost' = lost
        /\ \A q \in Ports : Under(net'[q]) = IF q \in Relay(cmd) THEN Under(net[q]) \cup {m}
                                             ELSE Under(net[q])
    BY <1>3, Sent DEF UartMessage
  <2> HIDE DEF m
  <2>2. CASE cmd \in RelayedTwice /\ Asked(udp_message_process[cmd], s)
    <3>1. PICK t \in {"on", "off"} : <<s, t>> \in udp_message_process[cmd]
      BY <2>2 DEF Asked
    <3>2. want'[There][s] = <<issued', t>>
      BY <1>3, <2>2, <3>1, Wishes
    <3>3. n = issued' /\ to = t
      BY <3>2
    <3>4. Relay(cmd) = Ports
      BY <2>2 DEF Relay, RelayedTwice
    <3>5. ASSUME NEW p \in Ports, NEW k \in Under(net'[p])
          PROVE  k[1] <= n /\ (k[1] = n => <<s, to>> \in udp_message_process[k[2]])
      <4>1. CASE k = m
        BY <2>1, <3>1, <3>3, <4>1
      <4>2. CASE k \in Under(net[p])
        <5>1. k[1] \in Nat /\ k[1] <= issued
          BY <1>2, <4>2
        <5>2. k[1] <= n /\ k[1] # n
          BY <2>1, <3>3, <5>1
        <5>3. QED
          BY <5>2
      <4>3. QED
        BY <2>1, <4>1, <4>2
    <3>6. \A p \in Ports : Holds(net'[p], n)
      BY <2>1, <3>3, <3>4 DEF Holds
    <3>7. QED
      BY <3>5, <3>6
  <2>3. CASE ~ (cmd \in RelayedTwice /\ Asked(udp_message_process[cmd], s))
    <3>1. want'[There][s] = want[There][s]
      BY <1>3, <2>3, Wishes
    <3>2. Before /\ n <= issued
      BY <1>1, <3>1
    <3>3. n # issued' /\ n < issued'
      BY <2>1, <3>2
    <3>4. ASSUME NEW p \in Ports, NEW k \in Under(net'[p]), k[1] # 0
          PROVE  /\ Asked(udp_message_process[k[2]], s) => k[1] <= n
                 /\ k[1] = n => <<s, to>> \in udp_message_process[k[2]]
      <4>1. CASE k \in Under(net[p])
        BY <1>1, <3>2, <3>4, <4>1
      <4>2. CASE k = m /\ p \in Relay(cmd)
        <5>1. cmd \in RelayedTwice \/ cmd = "DATA_SINGLE"
          BY <4>2 DEF Relay
        <5>2. ~ Asked(udp_message_process[cmd], s)
          <6>1. CASE cmd = "DATA_SINGLE"
            BY <6>1, TheOtherHalf DEF Asked
          <6>2. QED
            BY <2>3, <5>1, <6>1
        <5>3. QED
          BY <2>1, <3>3, <4>2, <5>2
      <4>3. QED
        BY <2>1, <4>1, <4>2
    <3>5. ASSUME n # 0, NEW p \in Ports
          PROVE  Holds(net'[p], n) \/ <<p, n>> \in lost' \/ Beyond(net'[p], n)
      <4>1. Holds(net[p], n) \/ <<p, n>> \in lost \/ Beyond(net[p], n)
        BY <1>1, <3>2, <3>5
      <4>2. Holds(net[p], n) => Holds(net'[p], n)
        BY <2>1 DEF Holds
      <4>3. Beyond(net[p], n) => Beyond(net'[p], n)
        BY <2>1, <3>3 DEF Beyond
      <4>4. QED
        BY <2>1, <4>1, <4>2, <4>3
    <3>6. QED
      BY <3>4, <3>5
  <2>4. QED
    BY <2>2, <2>3
<1> DEFINE Concern(k) == k[1] # 0 => /\ Asked(udp_message_process[k[2]], s) => k[1] <= n
                                     /\ k[1] = n => <<s, to>> \in udp_message_process[k[2]]
           Seen(q, l) == n # 0 => \A p \in Ports : Holds(q[p], n) \/ <<p, n>> \in l \/ Beyond(q[p], n)
<1>4. ASSUME NEW p \in Ports, UdpMessage(p)
      PROVE  (\A q \in Ports : \A k \in Under(net'[q]) : Concern(k)) /\ Seen(net', lost')
  <2> DEFINE m == Head(net[p])[1]
  <2>1. net[p] # <<>> /\ net' = [net EXCEPT ![p] = Tail(@)] /\ lost' = lost
    BY <1>4 DEF UdpMessage
  <2>2. Before
    BY <1>4, Delivered
  <2>3. /\ m # 0 => Beyond(net'[p], m)
        /\ \A q \in Ports : /\ Under(net'[q]) \subseteq Under(net[q])
                            /\ \A i : Holds(net[q], i) => Holds(net'[q], i) \/ (q = p /\ i = m)
    BY <2>1, AllHeld
  <2> HIDE DEF m, Before
  <2>4. \A q \in Ports : \A k \in Under(net'[q]) : Concern(k)
    BY <1>1, <2>2, <2>3
  <2>5. ASSUME n # 0, NEW q \in Ports
        PROVE  Holds(net'[q], n) \/ <<q, n>> \in lost' \/ Beyond(net'[q], n)
    <3>1. Holds(net[q], n) \/ <<q, n>> \in lost \/ Beyond(net[q], n)
      BY <1>1, <2>2, <2>5
    <3>2. Beyond(net[q], n) => Beyond(net'[q], n)
      BY <2>3 DEF Beyond
    <3>3. Holds(net[q], n) => Holds(net'[q], n) \/ Beyond(net'[q], n)
      BY <2>3, <2>5
    <3>4. QED
      BY <2>1, <3>1, <3>2, <3>3
  <2>6. QED
    BY <2>4, <2>5
<1>5. ASSUME NEW p \in Ports, Lose(p)
      PROVE  (\A q \in Ports : \A k \in Under(net'[q]) : Concern(k)) /\ Seen(net', lost')
  <2> DEFINE m == Head(net[p])[1]
  <2>1. /\ net[p] # <<>> /\ net' = [net EXCEPT ![p] = Tail(@)] /\ lost' = lost \cup {<<p, m>>}
        /\ want' = want
    BY <1>5 DEF Lose
  <2>2. Before
    BY <2>1
  <2>3. \A q \in Ports : /\ Under(net'[q]) \subseteq Under(net[q])
                         /\ \A i : Holds(net[q], i) => Holds(net'[q], i) \/ (q = p /\ i = m)
    BY <2>1, AllHeld
  <2> HIDE DEF m, Before
  <2>4. \A q \in Ports : \A k \in Under(net'[q]) : Concern(k)
    BY <1>1, <2>2, <2>3
  <2>5. ASSUME n # 0, NEW q \in Ports
        PROVE  Holds(net'[q], n) \/ <<q, n>> \in lost' \/ Beyond(net'[q], n)
    <3>1. Holds(net[q], n) \/ <<q, n>> \in lost \/ Beyond(net[q], n)
      BY <1>1, <2>2, <2>5
    <3>2. Beyond(net[q], n) => Beyond(net'[q], n)
      BY <2>3 DEF Beyond
    <3>3. Holds(net[q], n) => Holds(net'[q], n) \/ <<q, n>> \in lost'
      BY <2>1, <2>3
    <3>4. QED
      BY <2>1, <3>1, <3>2, <3>3
  <2>6. QED
    BY <2>4, <2>5
<1>6. ASSUME NEW cmd \in Strays, Stray(cmd)
      PROVE  (\A q \in Ports : \A k \in Under(net'[q]) : Concern(k)) /\ Seen(net', lost')
  <2>1. lost' = lost /\ want' = want
    BY <1>6 DEF Stray
  <2>2. \A q \in Ports : /\ Under(net[q]) \subseteq Under(net'[q])
                         /\ \A k \in Under(net'[q]) : k \in Under(net[q]) \/ k[1] = 0
    BY <1>6, Strayed
  <2>3. Before
    BY <2>1
  <2> HIDE DEF Before
  <2>4. \A q \in Ports : \A k \in Under(net'[q]) : Concern(k)
    BY <1>1, <2>2, <2>3
  <2>5. \A q \in Ports : /\ Holds(net[q], n) => Holds(net'[q], n)
                         /\ Beyond(net[q], n) => Beyond(net'[q], n)
    BY <2>2 DEF Holds, Beyond
  <2>6. QED
    BY <1>1, <2>1, <2>3, <2>4, <2>5
<1>7. CASE UNCHANGED <<net, lost, want>>
  BY <1>1, <1>7
<1>8. QED
  BY <1>3, <1>4, <1>5, <1>6, <1>7 DEF Next, Deliver, VideoCaptureController, Opens,
     DeviceOpens, DeviceFails, vars

LEMMA ThereStep ==
  NetInv /\ HeardInv /\ ServiceInv /\ WantTyped /\ WantInv /\ ThereInv /\ [Next]_vars => ThereInv'
<1> SUFFICES ASSUME NetInv, HeardInv, ServiceInv, WantTyped, WantInv, ThereInv, [Next]_vars,
                    NEW s \in Services, NEW to \in {"on", "off"}, NEW n \in Nat,
                    want'[There][s] = <<n, to>>
             PROVE  \/ \E p \in Ports : <<p, n>> \in lost'
                    \/ n # 0 /\ \E p \in Ports : Holds(net'[p], n)
                    \/ Done(There, s, to)'
  BY DEF ThereInv
<1> DEFINE Before == want[There][s] = <<n, to>>
           After  == \/ \E p \in Ports : <<p, n>> \in lost'
                     \/ n # 0 /\ \E p \in Ports : Holds(net'[p], n)
                     \/ Done(There, s, to)'
<1>1. ASSUME Before
      PROVE  /\ \A p \in Ports : \A k \in Under(net[p]) : k[1] # 0 =>
                  /\ Asked(udp_message_process[k[2]], s) => k[1] <= n
                  /\ k[1] = n => <<s, to>> \in udp_message_process[k[2]]
             /\ n # 0 => \A p \in Ports : Holds(net[p], n) \/ <<p, n>> \in lost \/ Beyond(net[p], n)
             /\ \/ \E p \in Ports : <<p, n>> \in lost
                \/ n # 0 /\ \E p \in Ports : Holds(net[p], n)
                \/ Done(There, s, to)
  BY <1>1 DEF WantInv, ThereInv
<1>2. Here \in Gateways /\ There \in Gateways /\ Here # There
  BY DEF Gateways, Here, There
<1>3. ASSUME NEW cmd \in Commands, UartMessage(cmd) PROVE After
  <2>1. /\ issued' = issued + 1 /\ issued \in Nat /\ lost' = lost
        /\ \A q \in Ports : Under(net'[q]) = IF q \in Relay(cmd) THEN Under(net[q]) \cup {<<issued', cmd>>}
                                             ELSE Under(net[q])
    BY <1>3, Sent DEF UartMessage
  <2>2. CASE cmd \in RelayedTwice /\ Asked(udp_message_process[cmd], s)
    <3>1. PICK t \in {"on", "off"} : <<s, t>> \in udp_message_process[cmd]
      BY <2>2 DEF Asked
    <3>2. want'[There][s] = <<issued', t>>
      BY <1>3, <2>2, <3>1, Wishes
    <3>3. n = issued' /\ 1 \in Ports
      BY <3>2 DEF Ports
    <3>4. Relay(cmd) = Ports
      BY <2>2 DEF Relay, RelayedTwice
    <3>5. <<issued', cmd>> \in Under(net'[1])
      BY <2>1, <3>3, <3>4
    <3>6. n # 0 /\ Holds(net'[1], n)
      BY <2>1, <3>3, <3>5 DEF Holds
    <3>7. QED
      BY <3>3, <3>6
  <2>3. CASE ~ (cmd \in RelayedTwice /\ Asked(udp_message_process[cmd], s))
    <3>1. Before
      BY <1>3, <2>3, Wishes
    <3>2. \A q \in Ports : Holds(net[q], n) => Holds(net'[q], n)
      BY <2>1 DEF Holds
    <3>3. Done(There, s, to) => Done(There, s, to)'
      BY <1>2, <1>3, DoneElsewhere DEF UartMessage
    <3> HIDE DEF Before
    <3>4. QED
      BY <1>1, <2>1, <3>1, <3>2, <3>3
  <2>4. QED
    BY <2>2, <2>3
<1>4. ASSUME NEW p \in Ports, UdpMessage(p) PROVE After
  <2> DEFINE m == Head(net[p])[1]
             cmd == Head(net[p])[2]
             requests == udp_message_process[cmd]
  <2>1. /\ net[p] # <<>> /\ net' = [net EXCEPT ![p] = Tail(@)] /\ lost' = lost
        /\ Perform(There, requests)
    BY <1>4 DEF UdpMessage
  <2>2. Before /\ (m = 0 => ~ Asked(requests, s))
    BY <1>4, Delivered
  <2>3. /\ Head(net[p]) \in Under(net[p])
        /\ \A q \in Ports : \A i : Holds(net[q], i) => Holds(net'[q], i) \/ (q = p /\ i = m)
    BY <2>1, AllHeld
  <2>4. m \in Nat /\ cmd \in AllCommands /\ Clear(requests)
    BY <2>3, NumbersAreOrdered, UdpIsClear
  <2>5. /\ <<s, to>> \in requests => Done(There, s, to)'
        /\ ~ Asked(requests, s) /\ Done(There, s, to) => Done(There, s, to)'
    <3> HIDE DEF requests
    <3>1. QED
      BY <1>2, <2>1, <2>4, DonePerformed
  <2>6. m # 0 => /\ Asked(requests, s) => m <= n
                 /\ m = n => <<s, to>> \in requests
    BY <1>1, <2>2, <2>3
  <2>7. <<s, to>> \in requests => Asked(requests, s)
    BY DEF Asked
  <2> HIDE DEF m, cmd, requests, Before
  <2>8. CASE Asked(requests, s)
    <3>1. m # 0 /\ m <= n
      BY <2>2, <2>6, <2>8
    <3>2. CASE m = n
      BY <2>5, <2>6, <3>1, <3>2
    <3>3. CASE m # n
      <4>1. n # 0 /\ m < n
        BY <2>4, <3>1, <3>3
      <4>2. Holds(net[p], n) \/ <<p, n>> \in lost \/ Beyond(net[p], n)
        BY <1>1, <2>2, <4>1
      <4>3. ~ Beyond(net[p], n)
        <5>1. SUFFICES ASSUME Beyond(net[p], n) PROVE FALSE
          OBVIOUS
        <5>2. m = 0 \/ n < m
          BY <2>3, <5>1 DEF Beyond, m
        <5>3. QED
          BY <2>4, <3>1, <4>1, <5>2
      <4>4. Holds(net[p], n) => Holds(net'[p], n)
        BY <2>3, <3>3
      <4>5. QED
        BY <2>1, <4>1, <4>2, <4>3, <4>4
    <3>4. QED
      BY <3>2, <3>3
  <2>9. CASE ~ Asked(requests, s)
    <3>1. n # 0 => m # n
      BY <2>6, <2>7, <2>9
    <3>2. n # 0 => \A q \in Ports : Holds(net[q], n) => Holds(net'[q], n)
      BY <2>3, <3>1
    <3>3. QED
      BY <1>1, <2>1, <2>2, <2>5, <2>9, <3>2
  <2>10. QED
    BY <2>8, <2>9
<1>5. ASSUME NEW p \in Ports, Lose(p) PROVE After
  <2> DEFINE m == Head(net[p])[1]
  <2>1. /\ net[p] # <<>> /\ net' = [net EXCEPT ![p] = Tail(@)] /\ lost' = lost \cup {<<p, m>>}
        /\ UNCHANGED <<want, service, orders, refused>>
    BY <1>5 DEF Lose, halves
  <2>2. Before
    BY <2>1
  <2>3. \A q \in Ports : \A i : Holds(net[q], i) => Holds(net'[q], i) \/ (q = p /\ i = m)
    BY <2>1, AllHeld
  <2>4. Done(There, s, to) => Done(There, s, to)'
    BY <2>1 DEF Done
  <2> HIDE DEF m, Before
  <2>5. QED
    BY <1>1, <2>1, <2>2, <2>3, <2>4
<1>6. ASSUME NEW cmd \in Strays, Stray(cmd) PROVE After
  <2>1. UNCHANGED <<lost, want, service, orders, refused>>
    BY <1>6 DEF Stray, halves
  <2>2. \A q \in Ports : Holds(net[q], n) => Holds(net'[q], n)
    BY <1>6, Strayed DEF Holds
  <2>3. Before
    BY <2>1
  <2>4. Done(There, s, to) => Done(There, s, to)'
    BY <2>1 DEF Done
  <2> HIDE DEF Before
  <2>5. QED
    BY <1>1, <2>1, <2>2, <2>3, <2>4
<1>7. ASSUME NEW g \in Gateways, VideoCaptureController(g) \/ \E t \in Services : Opens(g, t)
      PROVE  After
  <2>1. UNCHANGED <<net, want, lost>>
    BY <1>7 DEF VideoCaptureController, Opens, DeviceOpens, DeviceFails
  <2>2. Before
    BY <2>1
  <2>3. Done(There, s, to) => Done(There, s, to)'
    BY <1>2, <1>7, DoneStays
  <2> HIDE DEF Before
  <2>4. QED
    BY <1>1, <2>1, <2>2, <2>3
<1>8. CASE UNCHANGED vars
  <2>1. UNCHANGED <<net, want, lost, service, orders, refused>>
    BY <1>8 DEF vars, halves
  <2>2. Before
    BY <2>1
  <2>3. Done(There, s, to) => Done(There, s, to)'
    BY <2>1 DEF Done
  <2> HIDE DEF Before
  <2>4. QED
    BY <1>1, <2>1, <2>2, <2>3
<1>9. QED
  BY <1>3, <1>4, <1>5, <1>6, <1>7, <1>8 DEF Next, Deliver
-----------------------------------------------------------------------------
FollowInv == HeardParts /\ HereInv /\ WantInv /\ ThereInv

LEMMA FollowInit == Init => FollowInv
<1> SUFFICES ASSUME Init PROVE FollowInv
  OBVIOUS
<1>1. HeardParts
  BY HeardInit
<1>2. /\ net = [p \in Ports |-> <<>>]
      /\ service = [g \in Gateways |-> [t \in Services |-> "IDLE"]]
      /\ orders = [g \in Gateways |-> <<>>]
      /\ want = [g \in Gateways |-> [t \in Services |-> <<0, "off">>]]
  BY DEF Init
<1>3. ASSUME NEW g \in Gateways, NEW s \in Services
      PROVE  want[g][s] = <<0, "off">> /\ Done(g, s, "off")
  BY <1>2 DEF Done, Obeyed
<1>4. Here \in Gateways /\ There \in Gateways
  BY DEF Gateways
<1>5. \A p \in Ports : Under(net[p]) = {}
  BY <1>2 DEF Under
<1>6. ASSUME NEW s \in Services, NEW to, NEW n, want[There][s] = <<n, to>>
      PROVE  n = 0 /\ to = "off"
  BY <1>3, <1>4, <1>6
<1>7. HereInv
  <2>1. \A s \in Services, to \in {"on", "off"} : want[Here][s][2] = to => to = "off"
    BY <1>3, <1>4
  <2>2. QED
    BY <1>3, <1>4, <2>1 DEF HereInv
<1>8. WantInv
  BY <1>5, <1>6 DEF WantInv
<1>9. ThereInv
  BY <1>3, <1>4, <1>6 DEF ThereInv
<1>10. QED
  BY <1>1, <1>7, <1>8, <1>9 DEF FollowInv

LEMMA FollowHolds == FollowInv => ServicesAgree
<1> SUFFICES ASSUME FollowInv, Settled, NEW g \in Gateways, NEW s \in Services
             PROVE  LET n == want[g][s][1]  to == want[g][s][2] IN
                      \/ to = "any" \/ (g = There /\ \E p \in Ports : <<p, n>> \in lost)
                      \/ s \in refused[g] \/ (s = "camera" /\ "order" \in refused[g])
                      \/ Obeyed(to, service[g][s])
  BY DEF ServicesAgree
<1> DEFINE n  == want[g][s][1]
           to == want[g][s][2]
<1>1. /\ want[g][s] = <<n, to>> /\ n \in Nat /\ to \in {"on", "off", "any"}
  BY DEF FollowInv, HeardParts, WantTyped
<1>2. \A p \in Ports : ~ Holds(net[p], n)
  <2>1. \A p \in Ports : Under(net[p]) = {}
    BY DEF Settled, Under
  <2>2. QED
    BY <2>1 DEF Holds
<1>3. g = Here \/ g = There
  BY DEF Gateways
<1> HIDE DEF n, to
<1>4. to = "any" \/ (g = There /\ \E p \in Ports : <<p, n>> \in lost) \/ Done(g, s, to)
  <2>1. CASE g = Here
    BY <1>1, <2>1 DEF FollowInv, HereInv
  <2>2. CASE g = There
    BY <1>1, <1>2, <2>2 DEF FollowInv, ThereInv
  <2>3. QED
    BY <1>3, <2>1, <2>2
<1>5. Done(g, s, to) => \/ s \in refused[g] \/ (s = "camera" /\ "order" \in refused[g])
                        \/ Obeyed(to, service[g][s])
  BY DEF Done, Settled
<1>6. QED
  BY <1>4, <1>5 DEF n, to

(* Once all has come in and every thread has opened or given up, every     *)
(* service of both gateways is what the last command for it says, with the *)
(* exceptions ServicesAgree names.                                         *)
THEOREM ServicesFollow == Spec => []ServicesAgree
<1>1. FollowInv /\ [Next]_vars => FollowInv'
  <2> SUFFICES ASSUME FollowInv, [Next]_vars PROVE FollowInv'
    OBVIOUS
  <2>1. NetInv /\ HeardInv /\ ServiceInv /\ WantTyped /\ HereInv /\ WantInv /\ ThereInv
    BY DEF FollowInv, HeardParts
  <2>2. HeardParts'
    BY <2>1, NetStep, HeardStep, ServiceStep, WantStep DEF HeardParts
  <2>3. HereInv' /\ WantInv' /\ ThereInv'
    BY <2>1, HereStep, WantedStep, ThereStep
  <2>4. QED
    BY <2>2, <2>3 DEF FollowInv
<1>2. QED
  BY <1>1, FollowInit, FollowHolds, PTL DEF Spec
-----------------------------------------------------------------------------
(* Frames in the order they were pushed, those on the same way, and        *)
(* compared to a number; D are those past the queue.                       *)
Precedes(f, g, D) == f # g /\ ((f \in D <=> g \in D) => f < g)
Ascending(s, D)   == \A i, j \in 1 .. Len(s) : i < j => Precedes(s[i], s[j], D)
Above(x, s, D)    == \A i \in 1 .. Len(s) : Precedes(x, s[i], D)
UpTo(s, x)        == \A i \in 1 .. Len(s) : s[i] <= x

(* The order of the pieces on the line.                                    *)
PieceFirst(a, b, D) == Precedes(a[1], b[1], D) \/ (a[1] = b[1] /\ a[2] < b[2])
Ordered(l, D)       == \A i, j \in 1 .. Len(l) : i < j => PieceFirst(l[i], l[j], D)
Chained(l)          == /\ l # <<>> => l[1][2] = 1
                       /\ \A i \in 1 .. Len(l) - 1 : Follows(l[i], l[i + 1])

(* What the device has of the frame under way is what has been written.    *)
Passed(piece) == Precedes(piece[1], frame, direct) \/ (piece[1] = frame /\ piece[2] <= done)

(* What is pushed now comes after the queue, the queue after the ring, the *)
(* ring after the frame under way, that one after what is on the line -    *)
(* each way by itself.  None that went past the queue is in it.            *)
LineOrder ==
  /\ \A i \in 1 .. Len(queue) : queue[i] \notin direct
  /\ \A f \in direct : f <= pushed
  /\ Ascending(queue, direct) /\ Ascending(ring, direct)
  /\ \A i \in 1 .. Len(ring) : Above(ring[i], queue, direct)
  /\ UpTo(queue, pushed) /\ UpTo(ring, pushed) /\ frame <= pushed
  /\ Above(frame, queue, direct) /\ Above(frame, ring, direct)
  /\ \A i \in 1 .. Len(line) : /\ line[i][1] <= pushed
                               /\ Above(line[i][1], queue, direct) /\ Above(line[i][1], ring, direct)
                               /\ frame # 0 => Passed(line[i])

(* Where the thread is tells what it has of its frame.                     *)
LineThread ==
  /\ frame # 0 /\ done > 0 => Len(line) > 0 /\ line[Len(line)] = <<frame, done>>
  /\ at = "pop" /\ frame # 0 => done = Pieces
  /\ at = "write" => frame # 0
  /\ at \in {"open", "sleep"} => frame = 0

LineInv == WholeFramesInOrder /\ LineOrder /\ LineThread

LEMMA WholeIs ==
  /\ WholeFramesInOrder <=> /\ OutTypeOK /\ Chained(line) /\ Ordered(line, direct)
                            /\ Cardinality(Cut) <= errors
  /\ WholeFramesInOrder' <=> /\ OutTypeOK' /\ Chained(line') /\ Ordered(line', direct')
                             /\ Cardinality(Cut') <= errors'
BY DEF WholeFramesInOrder, Chained, Ordered, PieceFirst, Earlier, Ahead, Precedes

LEMMA LessPrecedes ==
  ASSUME NEW D, NEW f \in Nat, NEW g \in Nat, f < g PROVE Precedes(f, g, D)
BY DEF Precedes

(* A frame sent past the queue changes nothing between older ones.         *)
LEMMA OldOrder ==
  ASSUME NEW D, NEW last \in Nat, NEW f \in Nat, NEW g \in Nat, f <= last, g <= last
  PROVE  Precedes(f, g, D \cup {last + 1}) <=> Precedes(f, g, D)
BY DEF Precedes

LEMMA TailAscends ==
  ASSUME NEW D, NEW Some \in SUBSET Nat, NEW s \in Seq(Some), s # <<>>
  PROVE  /\ Tail(s) \in Seq(Some) /\ Len(Tail(s)) = Len(s) - 1 /\ Head(s) \in Some
         /\ Ascending(s, D) => Ascending(Tail(s), D) /\ Above(Head(s), Tail(s), D)
         /\ \A x : Above(x, s, D) => Precedes(x, Head(s), D) /\ Above(x, Tail(s), D)
         /\ \A x : UpTo(s, x) => Head(s) <= x /\ UpTo(Tail(s), x)
         /\ \E i \in 1 .. Len(s) : Head(s) = s[i]
         /\ \A i \in 1 .. Len(Tail(s)) : \E j \in 1 .. Len(s) : Tail(s)[i] = s[j]
<1>1. /\ Tail(s) \in Seq(Some) /\ Len(Tail(s)) = Len(s) - 1 /\ Head(s) \in Some
      /\ \A i \in 1 .. Len(Tail(s)) : Tail(s)[i] = s[i + 1]
  BY HeadTailProperties
<1>2. Len(s) \in Nat \ {0} /\ Head(s) = s[1] /\ 1 \in 1 .. Len(s)
  BY EmptySeq
<1>3. \A i \in 1 .. Len(Tail(s)) : i + 1 \in 1 .. Len(s) /\ i + 1 > 1
  BY <1>1, <1>2
<1>4. Ascending(s, D) => Ascending(Tail(s), D) /\ Above(Head(s), Tail(s), D)
  BY <1>1, <1>2, <1>3 DEF Ascending, Above
<1>5. ASSUME NEW x, Above(x, s, D) PROVE Precedes(x, Head(s), D) /\ Above(x, Tail(s), D)
  BY <1>1, <1>2, <1>3, <1>5 DEF Above
<1>6. ASSUME NEW x, UpTo(s, x) PROVE Head(s) <= x /\ UpTo(Tail(s), x)
  BY <1>1, <1>2, <1>3, <1>6 DEF UpTo
<1>7. QED
  BY <1>1, <1>2, <1>3, <1>4, <1>5, <1>6

LEMMA AppendAscends ==
  ASSUME NEW D, NEW Some \in SUBSET Nat, NEW s \in Seq(Some), NEW f \in Some
  PROVE  /\ Append(s, f) \in Seq(Some) /\ Len(Append(s, f)) = Len(s) + 1
         /\ Ascending(s, D) /\ (\A i \in 1 .. Len(s) : Precedes(s[i], f, D)) => Ascending(Append(s, f), D)
         /\ \A x : Above(x, s, D) /\ Precedes(x, f, D) => Above(x, Append(s, f), D)
         /\ \A x : UpTo(s, x) /\ f <= x => UpTo(Append(s, f), x)
         /\ \A i \in 1 .. Len(Append(s, f)) : Append(s, f)[i] = f \/ \E j \in 1 .. Len(s) : Append(s, f)[i] = s[j]
<1>1. /\ Append(s, f) \in Seq(Some) /\ Len(Append(s, f)) = Len(s) + 1 /\ Len(s) \in Nat
      /\ \A i \in 1 .. Len(s) : Append(s, f)[i] = s[i]
      /\ Append(s, f)[Len(s) + 1] = f
  BY AppendProperties, LenProperties
<1>2. \A i \in 1 .. Len(Append(s, f)) : i \in 1 .. Len(s) \/ i = Len(s) + 1
  BY <1>1
<1>3. Ascending(s, D) /\ (\A i \in 1 .. Len(s) : Precedes(s[i], f, D)) => Ascending(Append(s, f), D)
  <2>1. SUFFICES ASSUME Ascending(s, D), \A i \in 1 .. Len(s) : Precedes(s[i], f, D),
                        NEW i \in 1 .. Len(Append(s, f)), NEW j \in 1 .. Len(Append(s, f)), i < j
                 PROVE  Precedes(Append(s, f)[i], Append(s, f)[j], D)
    BY DEF Ascending
  <2>2. i \in 1 .. Len(s) /\ Append(s, f)[i] = s[i]
    BY <1>1, <1>2, <2>1
  <2>3. CASE j \in 1 .. Len(s)
    BY <1>1, <2>1, <2>2, <2>3 DEF Ascending
  <2>4. CASE j = Len(s) + 1
    BY <1>1, <2>1, <2>2, <2>4
  <2>5. QED
    BY <1>2, <2>3, <2>4
<1>4. ASSUME NEW x, Above(x, s, D), Precedes(x, f, D) PROVE Above(x, Append(s, f), D)
  BY <1>1, <1>2, <1>4 DEF Above
<1>5. ASSUME NEW x, UpTo(s, x), f <= x PROVE UpTo(Append(s, f), x)
  BY <1>1, <1>2, <1>5 DEF UpTo
<1>6. QED
  BY <1>1, <1>2, <1>3, <1>4, <1>5

LineTypes == /\ {QueueSize, RingSize, MaxFrames, LineMishaps} \subseteq Nat /\ Pieces \in Nat \ {0}
             /\ Frames \subseteq Nat \ {0}

LEMMA LineConstants == LineTypes
BY LineAssumption DEF LineTypes, Frames

LEMMA PairsAre ==
  ASSUME NEW Some, NEW Other, NEW pair \in Some \X Other
  PROVE  pair[1] \in Some /\ pair[2] \in Other
OBVIOUS

LEMMA PiecesAre ==
  ASSUME NEW piece \in Frames \X (1 .. Pieces)
  PROVE  piece[1] \in Nat /\ piece[2] \in Nat
<1>1. piece[1] \in Frames /\ piece[2] \in 1 .. Pieces
  BY PairsAre
<1>2. Frames \subseteq Nat /\ 1 .. Pieces \subseteq Nat
  BY LineConstants DEF LineTypes
<1>3. QED
  BY <1>1, <1>2

LEMMA NextPiece ==
  ASSUME NEW piece \in Frames \X (1 .. Pieces), Passed(piece), done \in Nat, NEW d \in Nat, done < d
  PROVE  PieceFirst(piece, <<frame, d>>, direct)
<1>1. piece[2] \in Nat
  BY PiecesAre
<1>2. Precedes(piece[1], frame, direct) \/ (piece[1] = frame /\ piece[2] < d)
  BY <1>1 DEF Passed
<1>3. QED
  BY <1>2 DEF PieceFirst

(* The device takes n pieces more of the frame under way.                  *)
LEMMA LongerLine ==
  ASSUME WholeFramesInOrder, LineOrder, LineThread, NEW n \in Nat, done + n <= Pieces,
         n = 0 \/ frame # 0, NEW longer, longer = line \o Written(n)
  PROVE  /\ longer \in Seq(Frames \X (1 .. Pieces)) /\ Len(longer) = Len(line) + n
         /\ \A i \in 1 .. Len(line) : longer[i] = line[i]
         /\ \A i \in 1 .. Len(longer) :
              i \notin 1 .. Len(line) => longer[i] = <<frame, done + (i - Len(line))>>
         /\ Chained(longer) /\ Ordered(longer, direct)
<1> DEFINE P == Frames \X (1 .. Pieces)
           w == Written(n)
<1>1. /\ done \in 0 .. Pieces /\ frame \in Nat /\ (frame # 0 => frame \in Frames)
      /\ line \in Seq(P) /\ Len(line) \in Nat /\ Pieces \in Nat
  BY LenProperties, LineConstants DEF WholeFramesInOrder, OutTypeOK, Frames, LineTypes
<1>2. w \in Seq(P) /\ Len(w) = n /\ \A i \in 1 .. n : w[i] = <<frame, done + i>>
  <2>1. w = [i \in 1 .. n |-> <<frame, done + i>>]
    BY DEF Written
  <2>2. \A i \in 1 .. n : frame \in Frames /\ done + i \in 1 .. Pieces
    BY <1>1
  <2>3. \A i \in 1 .. n : <<frame, done + i>> \in P
    BY <2>2
  <2> HIDE DEF w, P
  <2>4. w \in [1 .. n -> P]
    BY <2>1, <2>3
  <2>5. w \in Seq(P)
    BY <2>4, SeqDef
  <2>6. QED
    BY <2>1, <2>4, <2>5, LenProperties
<1>3. /\ longer \in Seq(P) /\ Len(longer) = Len(line) + n
      /\ \A i \in 1 .. Len(line) + n : longer[i] = IF i <= Len(line) THEN line[i] ELSE w[i - Len(line)]
  <2>1. longer = line \o w
    OBVIOUS
  <2> HIDE DEF w, P
  <2>2. /\ line \o w \in Seq(P) /\ Len(line \o w) = Len(line) + Len(w)
        /\ \A i \in 1 .. Len(line) + Len(w) :
             (line \o w)[i] = IF i <= Len(line) THEN line[i] ELSE w[i - Len(line)]
    BY <1>1, <1>2, ConcatProperties
  <2>3. QED
    BY <1>2, <2>1, <2>2
<1> HIDE DEF w
<1>4. \A i \in 1 .. Len(line) : longer[i] = line[i]
  BY <1>1, <1>3
<1>5. ASSUME NEW i \in 1 .. Len(longer), i \notin 1 .. Len(line)
      PROVE  longer[i] = <<frame, done + (i - Len(line))>>
  <2>1. i \in 1 .. Len(line) + n /\ ~(i <= Len(line)) /\ i - Len(line) \in 1 .. n
    BY <1>1, <1>3, <1>5
  <2>2. QED
    BY <1>2, <1>3, <2>1
<1>6. Ordered(longer, direct)
  <2>1. SUFFICES ASSUME NEW i \in 1 .. Len(longer), NEW j \in 1 .. Len(longer), i < j
                 PROVE  PieceFirst(longer[i], longer[j], direct)
    BY DEF Ordered
  <2>2. CASE j \in 1 .. Len(line)
    <3>1. i \in 1 .. Len(line)
      BY <1>1, <1>3, <2>1, <2>2
    <3>2. PieceFirst(line[i], line[j], direct)
      BY <2>1, <2>2, <3>1, WholeIs DEF Ordered
    <3>3. QED
      BY <1>4, <2>2, <3>1, <3>2
  <2>3. CASE j \notin 1 .. Len(line)
    <3>0. n # 0 /\ j \in Nat
      BY <1>1, <1>3, <2>3
    <3>1. longer[j] = <<frame, done + (j - Len(line))>> /\ n # 0
      BY <1>5, <2>3, <3>0
    <3>2. done + (j - Len(line)) \in Nat /\ done < done + (j - Len(line)) /\ done \in Nat
      BY <1>1, <1>3, <2>3
    <3>3. CASE i \in 1 .. Len(line)
      <4>1. longer[i] = line[i] /\ Passed(line[i])
        BY <1>4, <3>1, <3>3 DEF LineOrder
      <4>2. line[i] \in P
        BY <1>1, <3>3, ElementOfSeq
      <4>3. QED
        BY <3>1, <3>2, <4>1, <4>2, NextPiece
    <3>4. CASE i \notin 1 .. Len(line)
      <4>1. longer[i] = <<frame, done + (i - Len(line))>>
        BY <1>5, <3>4
      <4>2. done + (i - Len(line)) < done + (j - Len(line))
        BY <1>1, <1>3, <2>1
      <4>3. QED
        BY <3>1, <4>1, <4>2 DEF PieceFirst
    <3>5. QED
      BY <3>3, <3>4
  <2>4. QED
    BY <2>2, <2>3
<1>7. longer # <<>> => longer[1][2] = 1
  <2>1. SUFFICES ASSUME longer # <<>> PROVE longer[1][2] = 1
    OBVIOUS
  <2>2. Len(longer) # 0 /\ Len(longer) \in Nat /\ 1 \in 1 .. Len(longer)
    BY <1>3, <2>1, EmptySeq, LenProperties
  <2>3. CASE line # <<>>
    <3>1. 1 \in 1 .. Len(line) /\ line[1][2] = 1
      BY <1>1, <2>3, EmptySeq, LenProperties, WholeIs DEF Chained
    <3>2. QED
      BY <1>4, <3>1
  <2>4. CASE line = <<>>
    <3>1. Len(line) = 0 /\ n # 0 /\ frame # 0
      BY <1>1, <1>3, <2>2, <2>4
    <3>2. done = 0
      BY <1>1, <3>1 DEF LineThread
    <3>3. longer[1] = <<frame, 1>>
      BY <1>5, <2>2, <3>1, <3>2
    <3>4. QED
      BY <3>3
  <2>5. QED
    BY <2>3, <2>4
<1>8. ASSUME NEW i \in 1 .. Len(longer) - 1
      PROVE  Follows(longer[i], longer[i + 1])
  <2>1. CASE i + 1 \in 1 .. Len(line)
    <3>1. i \in 1 .. Len(line) - 1 /\ i \in 1 .. Len(line)
      BY <1>1, <1>8, <2>1
    <3>2. Follows(line[i], line[i + 1])
      BY <3>1, WholeIs DEF Chained
    <3>3. QED
      BY <1>4, <2>1, <3>1, <3>2
  <2>2. CASE i + 1 \notin 1 .. Len(line)
    <3>1. i \in 1 .. Len(longer) /\ i + 1 \in 1 .. Len(longer) /\ n # 0 /\ frame # 0
      BY <1>1, <1>3, <1>8, <2>2
    <3> PICK next, d : next = i + 1 /\ d = done + (next - Len(line))
      OBVIOUS
    <3>2. longer[next] = <<frame, d>>
      <4>1. longer[next] = <<frame, done + (next - Len(line))>>
        BY <1>5, <2>2, <3>1
      <4>2. QED
        BY <4>1
    <3>3. CASE i \in 1 .. Len(line)
      <4>1. longer[i] = line[i] /\ i = Len(line) /\ d = done + 1
        BY <1>1, <1>4, <2>2, <3>1, <3>3
      <4>2. CASE done = 0
        BY <3>2, <4>1, <4>2 DEF Follows
      <4>3. CASE done # 0
        <5>1. line[i] = <<frame, done>>
          BY <1>1, <3>1, <4>1, <4>3 DEF LineThread
        <5>2. QED
          BY <3>2, <4>1, <5>1 DEF Follows
      <4>4. QED
        BY <4>2, <4>3
    <3>4. CASE i \notin 1 .. Len(line)
      <4>1. longer[i] = <<frame, done + (i - Len(line))>>
        BY <1>5, <3>1, <3>4
      <4>2. d = (done + (i - Len(line))) + 1
        BY <1>1, <3>1
      <4>3. QED
        BY <3>2, <4>1, <4>2 DEF Follows
    <3>5. QED
      BY <3>3, <3>4
  <2>3. QED
    BY <2>1, <2>2
<1>9. QED
  BY <1>3, <1>4, <1>5, <1>6, <1>7, <1>8 DEF Chained

(* Frames cut short, before and after a step that cuts no other, or the    *)
(* one under way.                                                          *)
LEMMA Cuts ==
  ASSUME NEW before \in SUBSET Frames, NEW after \in SUBSET Frames, NEW e \in Nat,
         Cardinality(before) <= e
  PROVE  /\ after \subseteq before => Cardinality(after) <= e
         /\ \A f : after \subseteq before \cup {f} => Cardinality(after) <= e + 1
<1>1. IsFiniteSet(Frames)
  BY FS_Interval, LineConstants DEF Frames, LineTypes
<1>2. IsFiniteSet(before) /\ Cardinality(before) \in Nat
  BY <1>1, FS_Subset, FS_CardinalityType
<1>3. ASSUME after \subseteq before PROVE Cardinality(after) <= e
  <2>1. IsFiniteSet(after) /\ Cardinality(after) <= Cardinality(before)
    BY <1>2, <1>3, FS_Subset
  <2>2. Cardinality(after) \in Nat
    BY <2>1, FS_CardinalityType
  <2>3. QED
    BY <1>2, <2>1, <2>2
<1>4. ASSUME NEW f, after \subseteq before \cup {f} PROVE Cardinality(after) <= e + 1
  <2>1. IsFiniteSet(before \cup {f}) /\ Cardinality(before \cup {f}) <= Cardinality(before) + 1
    BY <1>2, FS_AddElement
  <2>2. IsFiniteSet(after) /\ Cardinality(after) <= Cardinality(before \cup {f})
    BY <1>4, <2>1, FS_Subset
  <2>3. Cardinality(after) \in Nat /\ Cardinality(before \cup {f}) \in Nat
    BY <2>1, <2>2, FS_CardinalityType
  <2>4. QED
    BY <1>2, <2>1, <2>2, <2>3
<1>5. QED
  BY <1>3, <1>4

(* No step that leaves the line alone, and what is to come on it, does     *)
(* harm.                                                                   *)
LEMMA LineAlone ==
  ASSUME LineInv, OutTypeOK', UNCHANGED <<queue, ring, frame, done, line, pushed, direct>>, LineThread',
         errors' = errors \/ errors' = errors + 1
  PROVE  LineInv'
<1>1. /\ OutTypeOK /\ LineOrder
      /\ Chained(line) /\ Ordered(line, direct)
      /\ Cardinality(Cut) <= errors
  BY WholeIs DEF LineInv
<1>2. Cut' = Cut
  BY DEF Cut
<1>3. errors \in Nat
  BY <1>1, LineConstants DEF OutTypeOK, LineTypes
<1>4. Cardinality(Cut) <= errors /\ Cardinality(Cut) <= errors + 1
  <2>1. Cut \in SUBSET Frames
    BY DEF Cut
  <2> PICK cut \in SUBSET Frames : cut = Cut
    BY <2>1
  <2>2. cut \subseteq cut \cup {0}
    OBVIOUS
  <2>3. QED
    BY <1>1, <1>3, <2>2, Cuts
<1>5. Cardinality(Cut') <= errors'
  BY <1>2, <1>4
<1>6. LineOrder'
  BY <1>1 DEF LineOrder, Passed
<1>7. Chained(line') /\ Ordered(line', direct')
  BY <1>1
<1>8. QED
  BY <1>5, <1>6, <1>7, WholeIs DEF LineInv

(* What a step has to show of the state it ends in.                        *)
LineSteps == /\ queue \in Seq(Frames) /\ ring \in Seq(Frames) /\ line \in Seq(Frames \X (1 .. Pieces))
             /\ {frame, pushed, arrived, done, errors} \subseteq Nat /\ done <= Pieces
             /\ frame # 0 => frame \in Frames
             /\ {Len(queue), Len(ring), Len(line)} \subseteq Nat

LEMMA LineStepsHold == ASSUME OutTypeOK PROVE LineSteps
<1>1. /\ {frame, pushed, arrived} \subseteq 0 .. MaxFrames /\ done \in 0 .. Pieces
      /\ queue \in Seq(Frames) /\ ring \in Seq(Frames) /\ line \in Seq(Frames \X (1 .. Pieces))
      /\ errors \in 0 .. LineMishaps
  BY DEF OutTypeOK
<1>2. {Len(queue), Len(ring), Len(line)} \subseteq Nat
  BY <1>1, LenProperties
<1>3. frame # 0 => frame \in Frames
  BY <1>1 DEF Frames
<1>4. QED
  BY <1>1, <1>2, <1>3, LineConstants DEF LineSteps, LineTypes

LEMMA SendStep ==
  ASSUME LineInv, vdp_uart_send_data PROVE LineInv'
<1>1. OutTypeOK /\ LineOrder /\ LineThread /\ LineSteps
  BY LineStepsHold DEF LineInv, WholeFramesInOrder
<1>2. pushed' = pushed + 1 /\ pushed' \in Frames /\ UNCHANGED <<ring, frame, done, line, direct, thread, in, errors>>
  <2>1. /\ pushed' = pushed + 1 /\ pushed + arrived < MaxFrames
        /\ UNCHANGED <<ring, frame, done, line, direct, thread, in, errors>>
    BY DEF vdp_uart_send_data, Sends
  <2>2. pushed \in Nat /\ arrived \in Nat /\ MaxFrames \in Nat
    BY <1>1, LineConstants DEF LineSteps, LineTypes
  <2>3. pushed' \in Frames
    BY <2>1, <2>2 DEF Frames
  <2>4. QED
    BY <2>1, <2>3
<1>3. PICK f \in Frames : f = pushed'
  BY <1>2
<1>4. queue' = queue \/ (Len(queue) < QueueSize /\ queue' = Append(queue, f))
  BY <1>3 DEF vdp_uart_send_data, Sends
<1>5. /\ queue \in Seq(Frames) /\ Ascending(queue, direct) /\ UpTo(queue, pushed) /\ pushed < f
      /\ Frames \subseteq Nat /\ f <= pushed' /\ \A i \in 1 .. Len(queue) : queue[i] < f
  <2>1. /\ queue \in Seq(Frames) /\ Ascending(queue, direct) /\ UpTo(queue, pushed) /\ pushed \in Nat
        /\ Frames \subseteq Nat
    BY <1>1, LineConstants DEF LineSteps, LineOrder, LineTypes
  <2>2. pushed < f /\ f <= pushed'
    BY <1>2, <1>3, <2>1
  <2>3. ASSUME NEW i \in 1 .. Len(queue) PROVE queue[i] < f
    <3>1. queue[i] \in Nat /\ queue[i] <= pushed /\ f \in Nat
      BY <2>1, ElementOfSeq DEF UpTo
    <3>2. QED
      BY <2>1, <2>2, <3>1
  <2>4. QED
    BY <2>1, <2>2, <2>3
<1>6. /\ Append(queue, f) \in Seq(Frames) /\ Len(Append(queue, f)) = Len(queue) + 1
      /\ Ascending(Append(queue, f), direct)
      /\ \A x : Above(x, queue, direct) /\ Precedes(x, f, direct) => Above(x, Append(queue, f), direct)
      /\ \A i \in 1 .. Len(Append(queue, f)) :
           Append(queue, f)[i] = f \/ \E j \in 1 .. Len(queue) : Append(queue, f)[i] = queue[j]
      /\ \A x : UpTo(queue, x) /\ f <= x => UpTo(Append(queue, f), x)
  <2>1. \A i \in 1 .. Len(queue) : Precedes(queue[i], f, direct)
    <3>1. ASSUME NEW i \in 1 .. Len(queue) PROVE queue[i] \in Nat /\ f \in Nat
      BY <1>5, ElementOfSeq
    <3>2. QED
      BY <1>5, <3>1, LessPrecedes
  <2> PICK D : D = direct
    OBVIOUS
  <2>2. Frames \in SUBSET Nat /\ Ascending(queue, D) /\ \A i \in 1 .. Len(queue) : Precedes(queue[i], f, D)
    BY <1>5, <2>1
  <2>3. QED
    BY <1>5, <2>2, AppendAscends
<1>7. queue' \in Seq(Frames) /\ Len(queue') <= QueueSize
  <2>1. QueueSize \in Nat /\ Len(queue) \in Nat /\ Len(queue) <= QueueSize
    BY <1>1, LineConstants DEF OutTypeOK, LineSteps, LineTypes
  <2>2. CASE queue' = queue
    BY <1>5, <2>1, <2>2
  <2>3. CASE Len(queue) < QueueSize /\ queue' = Append(queue, f)
    BY <1>6, <2>1, <2>3
  <2>4. QED
    BY <1>4, <2>2, <2>3
<1>8. OutTypeOK'
  <2>1. UNCHANGED <<at, running, joining, initialised, arrived, damage>>
    BY <1>2 DEF thread, in
  <2>2. pushed' \in 0 .. MaxFrames
    BY <1>2, LineConstants DEF Frames, LineTypes
  <2>3. QED
    BY <1>1, <1>2, <1>7, <2>1, <2>2 DEF OutTypeOK
<1>9. Ascending(queue', direct) /\ UpTo(queue', pushed')
  <2>1. UpTo(queue, pushed')
    <3>1. SUFFICES ASSUME NEW i \in 1 .. Len(queue) PROVE queue[i] <= f
      BY <1>3 DEF UpTo
    <3>2. queue[i] \in Nat /\ f \in Nat /\ queue[i] < f
      BY <1>5, ElementOfSeq
    <3>3. QED
      BY <3>2
  <2>2. QED
    BY <1>4, <1>5, <1>6, <2>1
<1>10. ASSUME NEW x \in Nat, x <= pushed, Above(x, queue, direct) PROVE x <= pushed' /\ Above(x, queue', direct)
  <2>1. x < f /\ x <= pushed' /\ f \in Nat
    BY <1>1, <1>2, <1>5, <1>10 DEF LineSteps
  <2>2. Precedes(x, f, direct)
    BY <1>10, <2>1, LessPrecedes
  <2>3. QED
    BY <1>4, <1>6, <1>10, <2>1, <2>2
<1>11. LineOrder'
  <2>1. frame <= pushed' /\ Above(frame, queue', direct)
    BY <1>1, <1>10 DEF LineOrder, LineSteps
  <2>2. ASSUME NEW i \in 1 .. Len(ring) PROVE ring[i] <= pushed' /\ Above(ring[i], queue', direct)
    <3>1. ring[i] \in Nat
      BY <1>1, <1>5, ElementOfSeq DEF LineSteps
    <3>2. ring[i] <= pushed /\ Above(ring[i], queue, direct)
      BY <1>1 DEF LineOrder, UpTo
    <3>3. QED
      BY <1>10, <3>1, <3>2
  <2>3. ASSUME NEW i \in 1 .. Len(line) PROVE line[i][1] <= pushed' /\ Above(line[i][1], queue', direct)
    <3>1. line[i] \in Frames \X (1 .. Pieces)
      BY <1>1, ElementOfSeq DEF LineSteps
    <3>2. line[i][1] \in Nat
      BY <3>1, PiecesAre
    <3>3. line[i][1] <= pushed /\ Above(line[i][1], queue, direct)
      BY <1>1 DEF LineOrder
    <3>4. QED
      BY <1>10, <3>2, <3>3
  <2>4. UpTo(ring, pushed')
    BY <2>2 DEF UpTo
  <2>5. \A g \in direct : g <= pushed /\ g \in Nat
    BY <1>1, <1>5 DEF LineOrder, OutTypeOK
  <2>6. direct' = direct /\ (\A g \in direct : g <= pushed') /\ f \notin direct
    BY <1>1, <1>2, <1>3, <1>5, <2>5 DEF LineSteps
  <2>7. \A i \in 1 .. Len(queue') : queue'[i] \notin direct
    BY <1>1, <1>4, <1>6, <2>6 DEF LineOrder
  <2>8. QED
    BY <1>1, <1>2, <1>9, <2>1, <2>2, <2>3, <2>4, <2>6, <2>7 DEF LineOrder, Passed
<1>12. LineThread'
  BY <1>1, <1>2 DEF LineThread, thread
<1>13. WholeFramesInOrder'
  <2>1. Cut' = Cut /\ line' = line /\ direct' = direct /\ errors' = errors
    BY <1>2 DEF Cut
  <2>2. QED
    BY <1>8, <2>1, WholeIs DEF LineInv
<1>14. QED
  BY <1>11, <1>12, <1>13 DEF LineInv

(* Past the queue: the frame is the youngest, and no queued one is on its  *)
(* way.                                                                    *)
LEMMA SendOnceStep ==
  ASSUME LineInv, vdp_uart_send_data_once PROVE LineInv'
<1>1. OutTypeOK /\ LineOrder /\ LineThread /\ LineSteps
  BY LineStepsHold DEF LineInv, WholeFramesInOrder
<1>2. /\ pushed' = pushed + 1 /\ pushed + arrived < MaxFrames /\ direct' = direct \cup {pushed + 1}
      /\ UNCHANGED <<queue, frame, done, line, thread, in, errors>>
      /\ ring' = ring \/ (Len(ring) < RingSize /\ ring' = Append(ring, pushed + 1))
  BY DEF vdp_uart_send_data_once, Sends, push_serial_data
<1> PICK f, D : f = pushed + 1 /\ D = direct'
  OBVIOUS
<1>3. /\ pushed \in Nat /\ f \in Nat /\ f \in Frames /\ pushed < f
      /\ queue \in Seq(Frames) /\ ring \in Seq(Frames) /\ Frames \in SUBSET Nat
  <2>1. /\ pushed \in Nat /\ arrived \in Nat /\ MaxFrames \in Nat
        /\ queue \in Seq(Frames) /\ ring \in Seq(Frames) /\ Frames \in SUBSET Nat
    BY <1>1, LineConstants DEF LineSteps, LineTypes
  <2>2. f \in 1 .. MaxFrames
    BY <1>2, <2>1
  <2>3. QED
    BY <2>1, <2>2 DEF Frames
<1>4. \A g, h \in Nat : g <= pushed /\ h <= pushed => (Precedes(g, h, D) <=> Precedes(g, h, direct))
  BY <1>2, <1>3, OldOrder
<1>5. ASSUME NEW s \in Seq(Frames), UpTo(s, pushed)
      PROVE  /\ \A i \in 1 .. Len(s) : s[i] \in Nat /\ s[i] <= pushed
             /\ Ascending(s, direct) => Ascending(s, D)
             /\ \A x \in Nat : x <= pushed /\ Above(x, s, direct) => Above(x, s, D)
  <2>1. \A i \in 1 .. Len(s) : s[i] \in Nat /\ s[i] <= pushed
    BY <1>3, <1>5, ElementOfSeq DEF UpTo
  <2>2. QED
    BY <1>4, <2>1 DEF Ascending, Above
<1>6. /\ UpTo(queue, pushed) /\ UpTo(ring, pushed) /\ frame <= pushed /\ frame \in Nat
      /\ \A i \in 1 .. Len(line) : line[i][1] \in Nat /\ line[i][1] <= pushed
  <2>1. ASSUME NEW i \in 1 .. Len(line) PROVE line[i][1] \in Nat
    BY <1>1, <2>1, ElementOfSeq, PiecesAre DEF LineSteps
  <2>2. QED
    BY <1>1, <2>1 DEF LineOrder, LineSteps
<1>7. Above(f, queue, D)
  <2>1. SUFFICES ASSUME NEW i \in 1 .. Len(queue) PROVE Precedes(f, queue[i], D)
    BY DEF Above
  <2>2. queue[i] \notin direct /\ queue[i] \in Nat /\ queue[i] <= pushed
    BY <1>1, <1>3, <1>5, <1>6 DEF LineOrder
  <2>3. queue[i] # f /\ f \in D /\ queue[i] \notin D
    BY <1>2, <1>3, <2>2
  <2>4. QED
    BY <2>3 DEF Precedes
<1>8. /\ Ascending(queue, D) /\ Ascending(ring, D)
      /\ \A i \in 1 .. Len(ring) : ring[i] \in Nat /\ ring[i] <= pushed /\ Above(ring[i], queue, D)
                                   /\ Precedes(ring[i], f, D)
  <2>1. Ascending(queue, D) /\ Ascending(ring, D)
    BY <1>1, <1>3, <1>5, <1>6 DEF LineOrder
  <2>2. ASSUME NEW i \in 1 .. Len(ring)
        PROVE  ring[i] \in Nat /\ ring[i] <= pushed /\ Above(ring[i], queue, D)
    BY <1>1, <1>3, <1>5, <1>6 DEF LineOrder
  <2>3. ASSUME NEW i \in 1 .. Len(ring) PROVE Precedes(ring[i], f, D)
    <3>1. ring[i] < f
      BY <1>3, <2>2
    <3>2. QED
      BY <1>3, <2>2, <3>1, LessPrecedes
  <2>4. QED
    BY <2>1, <2>2, <2>3
<1>9. /\ Append(ring, f) \in Seq(Frames) /\ Len(Append(ring, f)) = Len(ring) + 1
      /\ Ascending(Append(ring, f), D)
      /\ \A x : Above(x, ring, D) /\ Precedes(x, f, D) => Above(x, Append(ring, f), D)
      /\ \A x : UpTo(ring, x) /\ f <= x => UpTo(Append(ring, f), x)
      /\ \A i \in 1 .. Len(Append(ring, f)) : Append(ring, f)[i] = f \/ \E j \in 1 .. Len(ring) : Append(ring, f)[i] = ring[j]
  BY <1>3, <1>8, AppendAscends
<1>10. ASSUME NEW x \in Nat, x <= pushed
       PROVE  /\ Above(x, queue, direct) => Above(x, queue, D)
              /\ Above(x, ring, direct) => Above(x, ring', D)
  <2>1. x < f
    BY <1>3, <1>10
  <2>2. Precedes(x, f, D)
    BY <1>3, <2>1, LessPrecedes
  <2>3. QED
    BY <1>2, <1>3, <1>5, <1>6, <1>9, <1>10, <2>2
<1>11. ring' \in Seq(Frames) /\ Len(ring') <= RingSize
  <2>1. RingSize \in Nat /\ Len(ring) \in Nat /\ Len(ring) <= RingSize
    BY <1>1, LineConstants DEF OutTypeOK, LineSteps, LineTypes
  <2>2. CASE ring' = ring
    BY <1>3, <2>1, <2>2
  <2>3. CASE Len(ring) < RingSize /\ ring' = Append(ring, f)
    BY <1>9, <2>1, <2>3
  <2>4. QED
    BY <1>2, <2>2, <2>3
<1>12. OutTypeOK'
  <2>1. UNCHANGED <<at, running, joining, initialised, arrived, damage>>
    BY <1>2 DEF thread, in
  <2>2. pushed' \in 0 .. MaxFrames /\ direct' \subseteq Frames
    BY <1>1, <1>2, <1>3, LineConstants DEF Frames, LineTypes, OutTypeOK
  <2>3. QED
    BY <1>1, <1>2, <1>11, <2>1, <2>2 DEF OutTypeOK
<1>13. LineOrder'
  <2>1. /\ \A i \in 1 .. Len(queue) : queue[i] \notin D
        /\ \A g \in D : g <= f
    <3>1. \A i \in 1 .. Len(queue) : queue[i] \in Nat /\ queue[i] <= pushed /\ queue[i] \notin direct
      BY <1>1, <1>3, <1>5, <1>6 DEF LineOrder
    <3>2. \A g \in direct : g \in Nat /\ g <= pushed
      BY <1>1, <1>3 DEF LineOrder, OutTypeOK
    <3>3. QED
      BY <1>2, <1>3, <3>1, <3>2
  <2>2. ASSUME NEW s \in Seq(Frames), UpTo(s, pushed) PROVE UpTo(s, f)
    <3>1. \A i \in 1 .. Len(s) : s[i] \in Nat /\ s[i] <= pushed
      BY <1>5, <2>2
    <3>2. QED
      BY <1>3, <3>1 DEF UpTo
  <2>3. UpTo(queue, f) /\ UpTo(ring', f) /\ Ascending(ring', D)
    <3>1. UpTo(queue, f) /\ UpTo(ring, f) /\ f <= f
      BY <1>3, <1>6, <2>2
    <3>2. QED
      BY <1>2, <1>8, <1>9, <3>1
  <2>4. ASSUME NEW i \in 1 .. Len(ring') PROVE Above(ring'[i], queue, D)
    <3>1. ring'[i] = f \/ \E j \in 1 .. Len(ring) : ring'[i] = ring[j]
      BY <1>2, <1>9, <2>4
    <3>2. QED
      BY <1>7, <1>8, <3>1
  <2>5. Above(frame, queue, D) /\ Above(frame, ring', D) /\ frame <= f
    BY <1>1, <1>3, <1>6, <1>10 DEF LineOrder
  <2>6. ASSUME NEW i \in 1 .. Len(line)
        PROVE  /\ line[i][1] <= f /\ Above(line[i][1], queue, D) /\ Above(line[i][1], ring', D)
               /\ frame # 0 => Precedes(line[i][1], frame, D) \/ (line[i][1] = frame /\ line[i][2] <= done)
    <3>1. line[i][1] \in Nat /\ line[i][1] <= pushed /\ line[i][1] <= f
      BY <1>3, <1>6
    <3>2. Above(line[i][1], queue, D) /\ Above(line[i][1], ring', D)
      BY <1>1, <1>10, <3>1 DEF LineOrder
    <3>3. Precedes(line[i][1], frame, direct) => Precedes(line[i][1], frame, D)
      BY <1>4, <1>6, <3>1
    <3>4. QED
      BY <1>1, <3>1, <3>2, <3>3 DEF LineOrder, Passed
  <2>7. pushed' = f /\ direct' = D /\ UNCHANGED <<queue, frame, done, line>>
    BY <1>2
  <2>8. QED
    BY <1>8, <2>1, <2>3, <2>4, <2>5, <2>6, <2>7 DEF LineOrder, Passed
<1>14. LineThread'
  BY <1>1, <1>2 DEF LineThread, thread
<1>15. Ordered(line, D)
  <2>1. SUFFICES ASSUME NEW i \in 1 .. Len(line), NEW j \in 1 .. Len(line), i < j
                 PROVE  PieceFirst(line[i], line[j], D)
    BY DEF Ordered
  <2>2. PieceFirst(line[i], line[j], direct)
    BY <2>1, WholeIs DEF LineInv, Ordered
  <2>3. QED
    BY <1>4, <1>6, <2>2 DEF PieceFirst
<1>16. WholeFramesInOrder'
  <2>1. Cut' = Cut /\ line' = line /\ direct' = D /\ errors' = errors
    BY <1>2 DEF Cut
  <2>2. QED
    BY <1>12, <1>15, <2>1, WholeIs DEF LineInv
<1>17. QED
  BY <1>13, <1>14, <1>16 DEF LineInv

LEMMA QueueStep ==
  ASSUME LineInv, vdp_uart_sending_queue_task PROVE LineInv'
<1>1. OutTypeOK /\ LineOrder /\ LineThread /\ LineSteps
  BY LineStepsHold DEF LineInv, WholeFramesInOrder
<1>2. /\ queue # <<>> /\ queue' = Tail(queue) /\ UNCHANGED <<frame, done, line, pushed, direct, thread, in, errors>>
      /\ ring' = ring \/ (Len(ring) < RingSize /\ ring' = Append(ring, Head(queue)))
  BY DEF vdp_uart_sending_queue_task, push_serial_data
<1>3. PICK f : f = Head(queue)
  OBVIOUS
<1>4. /\ queue \in Seq(Frames) /\ ring \in Seq(Frames) /\ Frames \in SUBSET Nat
  BY <1>1, LineConstants DEF LineSteps, LineTypes
<1>5. /\ Tail(queue) \in Seq(Frames) /\ Len(Tail(queue)) = Len(queue) - 1 /\ f \in Frames
      /\ Ascending(Tail(queue), direct) /\ Above(f, Tail(queue), direct)
      /\ \A x : Above(x, queue, direct) => Precedes(x, f, direct) /\ Above(x, Tail(queue), direct)
      /\ \A x : UpTo(queue, x) => f <= x /\ UpTo(Tail(queue), x)
      /\ \A i \in 1 .. Len(Tail(queue)) : \E j \in 1 .. Len(queue) : Tail(queue)[i] = queue[j]
  <2>1. Ascending(queue, direct)
    BY <1>1 DEF LineOrder
  <2>2. QED
    BY <1>2, <1>3, <1>4, <2>1, TailAscends
<1>6. f <= pushed /\ UpTo(ring, pushed) /\ Ascending(ring, direct)
      /\ \A i \in 1 .. Len(ring) : Precedes(ring[i], f, direct) /\ Above(ring[i], queue, direct)
  BY <1>1, <1>5 DEF LineOrder
<1>7. /\ Append(ring, f) \in Seq(Frames) /\ Len(Append(ring, f)) = Len(ring) + 1
      /\ Ascending(Append(ring, f), direct)
      /\ \A x : Above(x, ring, direct) /\ Precedes(x, f, direct) => Above(x, Append(ring, f), direct)
      /\ \A x : UpTo(ring, x) /\ f <= x => UpTo(Append(ring, f), x)
      /\ \A i \in 1 .. Len(Append(ring, f)) : Append(ring, f)[i] = f \/ \E j \in 1 .. Len(ring) : Append(ring, f)[i] = ring[j]
  BY <1>4, <1>5, <1>6, AppendAscends
<1>8. OutTypeOK'
  <2>1. UNCHANGED <<at, running, joining, initialised, arrived, damage>>
    BY <1>2 DEF thread, in
  <2>2. queue' \in Seq(Frames) /\ Len(queue') <= QueueSize
    <3>1. QueueSize \in Nat /\ Len(queue) \in Nat /\ Len(queue) <= QueueSize
      BY <1>1, LineConstants DEF OutTypeOK, LineSteps, LineTypes
    <3>2. QED
      BY <1>2, <1>5, <3>1
  <2>3. ring' \in Seq(Frames) /\ Len(ring') <= RingSize
    <3>1. RingSize \in Nat /\ Len(ring) \in Nat /\ Len(ring) <= RingSize
      BY <1>1, LineConstants DEF OutTypeOK, LineSteps, LineTypes
    <3>2. CASE ring' = ring
      BY <1>4, <3>1, <3>2
    <3>3. CASE Len(ring) < RingSize /\ ring' = Append(ring, f)
      BY <1>7, <3>1, <3>3
    <3>4. QED
      BY <1>2, <1>3, <3>2, <3>3
  <2>4. QED
    BY <1>1, <1>2, <2>1, <2>2, <2>3 DEF OutTypeOK
<1>9. ASSUME NEW x, Above(x, queue, direct) PROVE Above(x, queue', direct) /\ (Above(x, ring, direct) => Above(x, ring', direct))
  BY <1>2, <1>3, <1>5, <1>7, <1>9
<1>10. /\ Ascending(queue', direct) /\ UpTo(queue', pushed) /\ Ascending(ring', direct) /\ UpTo(ring', pushed)
  BY <1>1, <1>2, <1>3, <1>5, <1>6, <1>7 DEF LineOrder
<1>11. ASSUME NEW i \in 1 .. Len(ring') PROVE Above(ring'[i], queue', direct)
  <2>1. CASE ring' = ring
    BY <1>6, <1>9, <1>11, <2>1
  <2>2. CASE ring' = Append(ring, f)
    <3>1. ring'[i] = f \/ \E j \in 1 .. Len(ring) : ring'[i] = ring[j]
      BY <1>7, <1>11, <2>2
    <3>2. QED
      BY <1>2, <1>5, <1>6, <1>9, <3>1
  <2>3. QED
    BY <1>2, <1>3, <2>1, <2>2
<1>12. LineOrder'
  <2>1. Above(frame, queue', direct) /\ Above(frame, ring', direct)
    BY <1>1, <1>9 DEF LineOrder
  <2>2. \A i \in 1 .. Len(line) : Above(line[i][1], queue', direct) /\ Above(line[i][1], ring', direct)
    BY <1>1, <1>9 DEF LineOrder
  <2>3. \A i \in 1 .. Len(queue') : queue'[i] \notin direct
    BY <1>1, <1>2, <1>5 DEF LineOrder
  <2>4. QED
    BY <1>1, <1>2, <1>10, <1>11, <2>1, <2>2, <2>3 DEF LineOrder, Passed
<1>13. LineThread'
  BY <1>1, <1>2 DEF LineThread, thread
<1>14. WholeFramesInOrder'
  <2>1. Cut' = Cut /\ line' = line /\ direct' = direct /\ errors' = errors
    BY <1>2 DEF Cut
  <2>2. QED
    BY <1>8, <2>1, WholeIs DEF LineInv
<1>15. QED
  BY <1>12, <1>13, <1>14 DEF LineInv

(* While the line grows by pieces of the frame under way no other is cut.  *)
LEMMA CutsOfLonger ==
  ASSUME LineSteps, NEW longer \in Seq(Frames \X (1 .. Pieces)), longer = line',
         Len(longer) \in Nat, Len(line) <= Len(longer),
         \A i \in 1 .. Len(line) : longer[i] = line[i],
         \A i \in 1 .. Len(longer) :
           i \notin 1 .. Len(line) => longer[i] = <<frame, done + (i - Len(line))>>
  PROVE  Cut' \subseteq Cut \cup {frame} /\ (frame' = frame => Cut' \subseteq Cut)
<1>1. SUFFICES ASSUME NEW f \in Frames, f \in Cut', f # frame PROVE f \in Cut
  BY DEF Cut, Frames
<1>2. /\ \E i \in DOMAIN longer : longer[i][1] = f
      /\ \A i \in DOMAIN longer : longer[i] # <<f, Pieces>>
  BY <1>1 DEF Cut
<1>3. DOMAIN longer = 1 .. Len(longer) /\ DOMAIN line = 1 .. Len(line) /\ Len(line) \in Nat
  BY LenProperties DEF LineSteps
<1>4. \A i \in 1 .. Len(longer) : i \notin 1 .. Len(line) => longer[i][1] = frame
  OBVIOUS
<1>5. /\ \E i \in DOMAIN line : line[i][1] = f
      /\ \A i \in DOMAIN line : line[i] # <<f, Pieces>>
  <2>1. PICK i \in 1 .. Len(longer) : longer[i][1] = f
    BY <1>2, <1>3
  <2>2. i \in 1 .. Len(line) /\ line[i][1] = f
    BY <1>1, <1>4, <2>1
  <2>3. ASSUME NEW j \in 1 .. Len(line) PROVE line[j] # <<f, Pieces>>
    <3>1. j \in 1 .. Len(longer) /\ longer[j] = line[j]
      BY <1>3
    <3>2. QED
      BY <1>2, <1>3, <3>1
  <2>4. QED
    BY <1>3, <2>2, <2>3
<1>6. QED
  BY <1>1, <1>5 DEF Cut

LEMMA FewerCuts ==
  ASSUME Cardinality(Cut) <= errors, errors \in Nat
  PROVE  /\ Cut' \subseteq Cut => Cardinality(Cut') <= errors
         /\ \A f : Cut' \subseteq Cut \cup {f} => Cardinality(Cut') <= errors + 1
<1>1. Cut \in SUBSET Frames /\ Cut' \in SUBSET Frames
  BY DEF Cut, Frames
<1> PICK before \in SUBSET Frames : before = Cut
  BY <1>1
<1> PICK after \in SUBSET Frames : after = Cut'
  BY <1>1
<1>2. QED
  BY Cuts

(* With no frame under way nothing comes before one that is to come.       *)
LEMMA NoneUnderWay ==
  ASSUME LineSteps PROVE Above(0, queue, direct) /\ Above(0, ring, direct) /\ 0 <= pushed
<1>1. queue \in Seq(Frames) /\ ring \in Seq(Frames) /\ Frames \subseteq Nat \ {0} /\ 0 <= pushed
  BY LineConstants DEF LineSteps, LineTypes
<1>2. \A x \in Nat \ {0} : Precedes(0, x, direct)
  BY LessPrecedes
<1>3. \A i \in 1 .. Len(queue) : queue[i] \in Nat \ {0}
  BY <1>1, ElementOfSeq
<1>4. \A i \in 1 .. Len(ring) : ring[i] \in Nat \ {0}
  BY <1>1, ElementOfSeq
<1>5. QED
  BY <1>1, <1>2, <1>3, <1>4 DEF Above

(* The next frame is taken when the last one is gone: none is cut.         *)
LEMMA PopCuts ==
  ASSUME LineInv, pop_serial_data, OutTypeOK', LineOrder'
  PROVE  LineInv'
<1>1. OutTypeOK /\ LineThread /\ LineSteps /\ WholeFramesInOrder
  BY LineStepsHold DEF LineInv, WholeFramesInOrder
<1>2. at = "pop" /\ at' = "read" /\ done' = 0 /\ UNCHANGED <<line, errors>>
  BY DEF pop_serial_data, Goes
<1>3. Cut' \subseteq Cut
  <2>1. SUFFICES ASSUME NEW f \in Frames, f \in Cut' PROVE f \in Cut
    BY DEF Cut, Frames
  <2>2. /\ \E i \in DOMAIN line : line[i][1] = f
        /\ \A i \in DOMAIN line : line[i] # <<f, Pieces>>
    BY <1>2, <2>1 DEF Cut
  <2>3. f # frame
    <3>1. SUFFICES ASSUME f = frame PROVE FALSE
      OBVIOUS
    <3>2. frame # 0 /\ done = Pieces /\ Pieces > 0
      BY <1>1, <1>2, <3>1, LineConstants DEF LineThread, LineTypes
    <3>3. Len(line) > 0 /\ line[Len(line)] = <<frame, Pieces>>
      BY <1>1, <3>2 DEF LineThread
    <3>4. DOMAIN line = 1 .. Len(line) /\ Len(line) \in Nat
      BY <1>1, LenProperties DEF LineSteps
    <3>5. QED
      BY <2>2, <3>1, <3>3, <3>4
  <2>4. QED
    BY <2>2, <2>3 DEF Cut
<1>4. Cardinality(Cut') <= errors'
  BY <1>1, <1>2, <1>3, FewerCuts DEF WholeFramesInOrder, LineSteps
<1>5. LineThread'
  BY <1>2 DEF LineThread
<1>6. line' = line /\ direct' = direct
  BY DEF pop_serial_data
<1>7. QED
  BY <1>1, <1>4, <1>5, <1>6, WholeIs DEF LineInv

LEMMA PopStep ==
  ASSUME LineInv, pop_serial_data PROVE LineInv'
<1>1. OutTypeOK /\ LineOrder /\ LineThread /\ LineSteps
  BY LineStepsHold DEF LineInv, WholeFramesInOrder
<1>2. /\ at = "pop" /\ at' = "read" /\ done' = 0
      /\ UNCHANGED <<queue, line, pushed, direct, running, joining, in, errors>>
      /\ \/ ring = <<>> /\ frame' = 0 /\ ring' = ring
         \/ ring # <<>> /\ frame' = Head(ring) /\ ring' = Tail(ring)
  BY DEF pop_serial_data, Goes
<1>3. queue \in Seq(Frames) /\ ring \in Seq(Frames) /\ Frames \in SUBSET Nat /\ Frames \subseteq Nat \ {0}
  BY <1>1, LineConstants DEF LineSteps, LineTypes
<1>4. CASE ring = <<>> /\ frame' = 0 /\ ring' = ring
  <2>1. OutTypeOK'
    BY <1>1, <1>2, <1>4, LineConstants DEF OutTypeOK, in, LineTypes
  <2>2. Above(frame', queue', direct) /\ Above(frame', ring', direct) /\ frame' <= pushed'
    <3>1. \A i \in 1 .. Len(queue) : queue[i] \in Nat \ {0}
      BY <1>3, ElementOfSeq
    <3>2. \A i \in 1 .. Len(ring) : ring[i] \in Nat \ {0}
      BY <1>3, ElementOfSeq
    <3>3. \A x \in Nat \ {0} : Precedes(0, x, direct)
      BY LessPrecedes
    <3>4. 0 <= pushed
      BY <1>1 DEF LineSteps
    <3>5. QED
      BY <1>2, <1>4, <3>1, <3>2, <3>3, <3>4 DEF Above
  <2>3. LineOrder'
    BY <1>1, <1>2, <1>4, <2>2 DEF LineOrder, Passed
  <2>4. QED
    BY <1>2, <1>4, <2>1, <2>3, PopCuts
<1>5. CASE ring # <<>> /\ frame' = Head(ring) /\ ring' = Tail(ring)
  <2>1. Ascending(ring, direct) /\ UpTo(ring, pushed) /\ \A i \in 1 .. Len(ring) : Above(ring[i], queue, direct)
    BY <1>1 DEF LineOrder
  <2>2. /\ Tail(ring) \in Seq(Frames) /\ Len(Tail(ring)) = Len(ring) - 1 /\ Head(ring) \in Frames
        /\ Ascending(Tail(ring), direct) /\ Above(Head(ring), Tail(ring), direct)
        /\ \A x : Above(x, ring, direct) => Precedes(x, Head(ring), direct) /\ Above(x, Tail(ring), direct)
        /\ \A x : UpTo(ring, x) => Head(ring) <= x /\ UpTo(Tail(ring), x)
        /\ \E i \in 1 .. Len(ring) : Head(ring) = ring[i]
        /\ \A i \in 1 .. Len(Tail(ring)) : \E j \in 1 .. Len(ring) : Tail(ring)[i] = ring[j]
    BY <1>3, <1>5, <2>1, TailAscends
  <2>3. ring' \in Seq(Frames) /\ Len(ring') <= RingSize
    <3>1. RingSize \in Nat /\ Len(ring) \in Nat /\ Len(ring) <= RingSize
      BY <1>1, LineConstants DEF OutTypeOK, LineSteps, LineTypes
    <3>2. QED
      BY <1>5, <2>2, <3>1
  <2>4. OutTypeOK'
    <3>1. frame' \in 0 .. MaxFrames /\ done' \in 0 .. Pieces
      <4>1. frame' \in 1 .. MaxFrames /\ MaxFrames \in Nat /\ Pieces \in Nat /\ done' = 0
        BY <1>2, <1>5, <2>2, LineConstants DEF Frames, LineTypes
      <4>2. QED
        BY <4>1
    <3>2. QED
      BY <1>1, <1>2, <2>3, <3>1 DEF OutTypeOK, in
  <2>5. Above(frame', queue', direct) /\ Above(frame', ring', direct) /\ frame' <= pushed'
    BY <1>2, <1>5, <2>1, <2>2
  <2>6. /\ Ascending(ring', direct) /\ UpTo(ring', pushed')
        /\ \A i \in 1 .. Len(ring') : Above(ring'[i], queue', direct)
    BY <1>2, <1>5, <2>1, <2>2
  <2>7. ASSUME NEW i \in 1 .. Len(line)
        PROVE  Precedes(line[i][1], frame', direct) /\ Above(line[i][1], ring', direct)
    <3>1. Above(line[i][1], ring, direct)
      BY <1>1 DEF LineOrder
    <3>2. QED
      BY <1>5, <2>2, <3>1
  <2>8. LineOrder'
    BY <1>1, <1>2, <2>5, <2>6, <2>7 DEF LineOrder, Passed
  <2>9. QED
    BY <1>2, <2>4, <2>8, PopCuts
<1>6. QED
  BY <1>2, <1>4, <1>5

LEMMA WriteStep ==
  ASSUME LineInv, Write PROVE LineInv'
<1>1. /\ OutTypeOK /\ LineOrder /\ LineThread /\ LineSteps /\ WholeFramesInOrder
  BY LineStepsHold DEF LineInv, WholeFramesInOrder
<1>2. PICK n \in 0 .. Pieces - done :
        /\ line' = line \o Written(n) /\ done' = done + n
        /\ at = "write" /\ at' = (IF done' = Pieces THEN "pop" ELSE "read")
        /\ UNCHANGED <<queue, ring, frame, pushed, direct, running, joining, in, errors>>
  BY DEF Write, Goes
<1>3. n \in Nat /\ done + n <= Pieces /\ done \in Nat /\ frame # 0 /\ frame \in Nat /\ Len(line) \in Nat
      /\ Pieces \in Nat /\ done <= done'
  <2>1. done \in Nat /\ frame # 0 /\ frame \in Nat /\ Len(line) \in Nat /\ Pieces \in Nat
    BY <1>1, <1>2, LineConstants DEF LineSteps, LineTypes, LineThread
  <2>2. QED
    BY <1>2, <2>1
<1> PICK longer : longer = line'
  OBVIOUS
<1>4. /\ longer \in Seq(Frames \X (1 .. Pieces)) /\ Len(longer) = Len(line) + n
      /\ \A i \in 1 .. Len(line) : longer[i] = line[i]
      /\ \A i \in 1 .. Len(longer) :
           i \notin 1 .. Len(line) => longer[i] = <<frame, done + (i - Len(line))>>
      /\ Chained(longer) /\ Ordered(longer, direct)
  <2>1. longer = line \o Written(n)
    BY <1>2
  <2>2. QED
    BY <1>1, <1>3, <2>1, LongerLine
<1>5. OutTypeOK'
  <2>1. done' \in 0 .. Pieces
    BY <1>2, <1>3
  <2>2. QED
    BY <1>1, <1>2, <1>4, <2>1 DEF OutTypeOK, in
<1>6. LineOrder'
  <2>1. SUFFICES ASSUME NEW i \in 1 .. Len(longer)
                 PROVE  /\ longer[i][1] <= pushed
                        /\ Above(longer[i][1], queue, direct) /\ Above(longer[i][1], ring, direct)
                        /\ Precedes(longer[i][1], frame, direct) \/ (longer[i][1] = frame /\ longer[i][2] <= done')
    BY <1>1, <1>2 DEF LineOrder, Passed
  <2>2. CASE i \in 1 .. Len(line)
    <3>1. longer[i] = line[i]
      BY <1>4, <2>2
    <3>2. /\ line[i][1] <= pushed
          /\ Above(line[i][1], queue, direct) /\ Above(line[i][1], ring, direct)
          /\ Precedes(line[i][1], frame, direct) \/ (line[i][1] = frame /\ line[i][2] <= done)
      BY <1>1, <1>3, <2>2 DEF LineOrder, Passed
    <3>3. line[i][2] \in Nat
      BY <1>1, <2>2, ElementOfSeq, PiecesAre DEF LineSteps
    <3>4. line[i][2] <= done => line[i][2] <= done'
      BY <1>2, <1>3, <3>3
    <3>5. QED
      BY <3>1, <3>2, <3>4
  <2>3. CASE i \notin 1 .. Len(line)
    <3>1. longer[i] = <<frame, done + (i - Len(line))>>
      BY <1>4, <2>3
    <3>2. done + (i - Len(line)) <= done'
      BY <1>2, <1>3, <1>4
    <3>3. longer[i][1] = frame /\ longer[i][2] <= done'
      BY <3>1, <3>2
    <3>4. frame <= pushed /\ Above(frame, queue, direct) /\ Above(frame, ring, direct)
      BY <1>1 DEF LineOrder
    <3>5. QED
      BY <3>3, <3>4
  <2>4. QED
    BY <2>2, <2>3
<1>7. LineThread'
  <2>1. done' > 0 => Len(longer) > 0 /\ longer[Len(longer)] = <<frame, done'>>
    <3>1. CASE n = 0
      <4>1. done' = done /\ Len(longer) = Len(line)
        BY <1>2, <1>3, <1>4, <3>1
      <4>2. done > 0 => Len(line) > 0 /\ line[Len(line)] = <<frame, done>>
        BY <1>1, <1>3 DEF LineThread
      <4>3. QED
        BY <1>4, <4>1, <4>2
    <3>2. CASE n # 0
      <4>1. Len(longer) \in 1 .. Len(longer) /\ Len(longer) \notin 1 .. Len(line)
            /\ Len(longer) - Len(line) = n
        BY <1>3, <1>4, <3>2
      <4>2. longer[Len(longer)] = <<frame, done + n>>
        BY <1>4, <4>1
      <4>3. QED
        BY <1>2, <4>1, <4>2
    <3>3. QED
      BY <3>1, <3>2
  <2>2. QED
    BY <1>2, <1>3, <2>1 DEF LineThread
<1>10. Len(longer) \in Nat /\ Len(line) <= Len(longer)
  BY <1>3, <1>4
<1>8. Cardinality(Cut') <= errors'
  <2>1. Cut' \subseteq Cut
    BY <1>1, <1>2, <1>4, <1>10, CutsOfLonger
  <2>2. QED
    BY <1>1, <1>2, <2>1, FewerCuts DEF WholeFramesInOrder, LineSteps
<1>9. QED
  BY <1>2, <1>4, <1>5, <1>6, <1>7, <1>8, WholeIs DEF LineInv

LEMMA FailsStep ==
  ASSUME LineInv, Fails PROVE LineInv'
<1>1. OutTypeOK /\ LineOrder /\ LineThread /\ LineSteps /\ WholeFramesInOrder
  BY LineStepsHold DEF LineInv, WholeFramesInOrder
<1>2. PICK n \in 0 .. Pieces :
        /\ line' = line \o Written(n) /\ done + n <= Pieces /\ frame' = 0 /\ done' = 0
        /\ at \in {"read", "write"} /\ (at = "read" => n = 0)
        /\ at' \in {"sleep", "stopped"}
        /\ errors + damage < LineMishaps /\ errors' = errors + 1
        /\ UNCHANGED <<queue, ring, pushed, direct, running, joining, in>>
  BY DEF Fails, DeviceError
<1>3. n \in Nat /\ (n = 0 \/ frame # 0) /\ frame \in Nat /\ Len(line) \in Nat
  BY <1>1, <1>2, LineConstants DEF LineSteps, LineTypes, LineThread
<1> PICK longer : longer = line'
  OBVIOUS
<1>4. /\ longer \in Seq(Frames \X (1 .. Pieces)) /\ Len(longer) = Len(line) + n
      /\ \A i \in 1 .. Len(line) : longer[i] = line[i]
      /\ \A i \in 1 .. Len(longer) :
           i \notin 1 .. Len(line) => longer[i] = <<frame, done + (i - Len(line))>>
      /\ Chained(longer) /\ Ordered(longer, direct)
  <2>1. longer = line \o Written(n)
    BY <1>2
  <2>2. QED
    BY <1>1, <1>2, <1>3, <2>1, LongerLine
<1>5. OutTypeOK'
  <2>1. frame' \in 0 .. MaxFrames /\ done' \in 0 .. Pieces
    BY <1>2, LineConstants DEF LineTypes
  <2>2. errors' \in 0 .. LineMishaps
    <3>1. errors \in 0 .. LineMishaps /\ damage \in 0 .. LineMishaps /\ LineMishaps \in Nat
      BY <1>1, LineConstants DEF LineTypes, OutTypeOK
    <3>2. QED
      BY <1>2, <3>1
  <2>3. QED
    BY <1>1, <1>2, <1>4, <2>1, <2>2 DEF OutTypeOK, in
<1>6. LineOrder'
  <2>1. Above(frame', queue', direct) /\ Above(frame', ring', direct) /\ frame' <= pushed'
    BY <1>1, <1>2, NoneUnderWay
  <2>2. ASSUME NEW i \in 1 .. Len(longer)
        PROVE  longer[i][1] <= pushed /\ Above(longer[i][1], queue, direct) /\ Above(longer[i][1], ring, direct)
    <3>1. (longer[i] = line[i] /\ i \in 1 .. Len(line)) \/ longer[i][1] = frame
      BY <1>4
    <3>2. QED
      BY <1>1, <3>1 DEF LineOrder
  <2>3. QED
    BY <1>1, <1>2, <2>1, <2>2 DEF LineOrder
<1>7. LineThread'
  BY <1>2 DEF LineThread
<1>10. Len(longer) \in Nat /\ Len(line) <= Len(longer)
  BY <1>3, <1>4
<1>8. Cardinality(Cut') <= errors'
  <2>1. Cut' \subseteq Cut \cup {frame}
    BY <1>1, <1>2, <1>4, <1>10, CutsOfLonger
  <2>2. QED
    BY <1>1, <1>2, <2>1, FewerCuts DEF WholeFramesInOrder, LineSteps
<1>9. QED
  BY <1>2, <1>4, <1>5, <1>6, <1>7, <1>8, WholeIs DEF LineInv

(* The steps that only move the thread, or concern what comes in.          *)
LEMMA OtherSteps ==
  ASSUME LineInv,
         \/ LineOpens \/ OpenFails \/ Reopens \/ LineStops \/ Read
         \/ Init_vdp_uart \/ stop_serial_task \/ Joined \/ Arrives \/ Damaged
         \/ UNCHANGED lineVars
  PROVE  LineInv'
<1>1. OutTypeOK /\ LineThread /\ LineSteps
  BY LineStepsHold DEF LineInv, WholeFramesInOrder
<1>2. UNCHANGED <<queue, ring, frame, done, line, pushed, direct>>
  BY DEF LineOpens, OpenFails, Reopens, LineStops, Read, Init_vdp_uart, stop_serial_task,
         Joined, Arrives, Damaged, lineVars, out
<1>3. errors' = errors \/ (errors + damage < LineMishaps /\ errors' = errors + 1)
  BY DEF LineOpens, OpenFails, Reopens, LineStops, Read, Init_vdp_uart, stop_serial_task,
         Joined, Arrives, Damaged, lineVars, DeviceError
<1>4. /\ at' \in {"open", "pop", "read", "write", "sleep", "stopped"}
      /\ {running', joining', initialised'} \subseteq BOOLEAN
  BY <1>1 DEF LineOpens, OpenFails, Reopens, LineStops, Read, Init_vdp_uart, stop_serial_task,
         Joined, Arrives, Damaged, lineVars, thread, in, Goes, OutTypeOK
<1>5. /\ arrived' = arrived \/ (pushed + arrived < MaxFrames /\ arrived' = arrived + 1)
      /\ damage' = damage \/ (errors + damage < LineMishaps /\ damage' = damage + 1)
  BY DEF LineOpens, OpenFails, Reopens, LineStops, Read, Init_vdp_uart, stop_serial_task,
         Joined, Arrives, Damaged, lineVars, in
<1>6. arrived' \in 0 .. MaxFrames /\ damage' \in 0 .. LineMishaps /\ errors' \in 0 .. LineMishaps
  <2>1. /\ MaxFrames \in Nat /\ LineMishaps \in Nat
        /\ {pushed, arrived} \subseteq 0 .. MaxFrames /\ {errors, damage} \subseteq 0 .. LineMishaps
    BY <1>1, LineConstants DEF OutTypeOK, LineTypes
  <2>2. QED
    BY <1>3, <1>5, <2>1
<1>7. OutTypeOK'
  BY <1>1, <1>2, <1>4, <1>6 DEF OutTypeOK
<1>8. /\ at' = "pop" => at = "pop" \/ frame = 0
      /\ at' = "write" => at = "write" \/ frame # 0
      /\ at' \in {"open", "sleep"} => at \in {"open", "sleep"}
  BY <1>1 DEF LineOpens, OpenFails, Reopens, LineStops, Read, Init_vdp_uart, stop_serial_task,
         Joined, Arrives, Damaged, lineVars, thread, Goes, LineThread
<1>9. LineThread'
  BY <1>1, <1>2, <1>8 DEF LineThread
<1>10. QED
  BY <1>2, <1>3, <1>7, <1>9, LineAlone

(* What the serial line promises of the frames it carries to the           *)
(* controller, for queues, rings and frames of any size: the controller    *)
(* reads each frame without another's bytes in it, those that went through *)
(* the queue in the order they were sent, those that went past it also,    *)
(* each byte once, and whole but for one at most for every error of the    *)
(* device (uart.c, vdp_uart.c).                                            *)
THEOREM FramesStayWhole == LineSpec => []WholeFramesInOrder
<1>1. LineInit => LineInv
  <2>1. SUFFICES ASSUME LineInit PROVE LineInv
    OBVIOUS
  <2>2. /\ queue = <<>> /\ ring = <<>> /\ line = <<>> /\ frame = 0 /\ done = 0 /\ pushed = 0 /\ direct = {}
        /\ arrived = 0 /\ errors = 0 /\ damage = 0
        /\ at = "open" /\ running = TRUE /\ joining = FALSE /\ initialised = FALSE
    BY <2>1 DEF LineInit
  <2>3. Len(queue) = 0 /\ Len(ring) = 0 /\ Len(line) = 0 /\ DOMAIN line = {}
    BY <2>2
  <2>4. OutTypeOK
    <3>1. {QueueSize, RingSize, MaxFrames, LineMishaps, Pieces} \subseteq Nat
      BY LineConstants DEF LineTypes
    <3>2. \A n \in Nat : 0 \in 0 .. n /\ 0 <= n
      OBVIOUS
    <3>3. \A Some : <<>> \in Seq(Some)
      OBVIOUS
    <3>4. QED
      BY <2>2, <2>3, <3>1, <3>2, <3>3 DEF OutTypeOK
  <2>5. Cut = {}
    BY <2>3 DEF Cut
  <2>6. Cardinality(Cut) <= errors
    BY <2>2, <2>5, FS_EmptySet
  <2>7. WholeFramesInOrder
    BY <2>2, <2>3, <2>4, <2>6 DEF WholeFramesInOrder
  <2>8. LineOrder
    BY <2>2, <2>3 DEF LineOrder, Ascending, Above, UpTo
  <2>9. LineThread
    BY <2>2 DEF LineThread
  <2>10. QED
    BY <2>7, <2>8, <2>9 DEF LineInv
<1>2. LineInv /\ [LineNext]_lineVars => LineInv'
  BY SendStep, SendOnceStep, QueueStep, PopStep, WriteStep, FailsStep, OtherSteps DEF LineNext, ThreadStep
<1>3. LineInv => WholeFramesInOrder
  BY DEF LineInv
<1>4. QED
  BY <1>1, <1>2, <1>3, PTL DEF LineSpec
=============================================================================
