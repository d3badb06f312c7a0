------------------------------- MODULE Gateway -------------------------------
(***************************************************************************)
(* Two gateways at work: the unit behind the serial line of one gives      *)
(* commands, and the gateways carry them out together.                     *)
(*                                                                         *)
(* A command turns the talk, the display or the camera of the gateway on   *)
(* or off.  A DATA_ command is also relayed, over both UDP ports, to the   *)
(* other gateway, which passes it to its own unit and does its half of it: *)
(* its camera for a display, its display for a camera.  No relayed packet  *)
(* is acknowledged and nobody drops the second copy; a port keeps its      *)
(* order, the two ports have no order between them.                        *)
(*                                                                         *)
(* A service is a thread that is started at once and opens its device in   *)
(* its own time (START), then runs (RUN) or gives up.  It is only started  *)
(* from IDLE and only stopped from RUN.                                    *)
(***************************************************************************)
EXTENDS Naturals, Sequences

CONSTANTS Commands,     \* the commands the unit gives
          Strays,       \* the commands some other device sends the gateway There
          MaxCommands,  \* bound on how many the unit gives
          MaxMishaps,   \* bound on packets lost, devices that fail, strays sent
          QMax          \* orders the camera's controller holds

ASSUME BoundsAssumption == {MaxCommands, MaxMishaps} \subseteq Nat /\ QMax \in Nat \ {0}

Here  == 1            \* the gateway whose unit commands, and the other one
There == 2
Gateways == {Here, There}
Ports    == {1, 2}    \* 25000 and 25001
Services == {"capture", "playback", "display", "camera"}

VARIABLES
  net,      \* [Ports -> the packets on their way There, <<number, command>>]
  service,  \* [Gateways -> [Services -> state]]
  bound,    \* [Gateways -> the services whose socket is left bound]
  orders,   \* [Gateways -> Q_VideoCaptureController]
  issued,   \* the number of commands given
  mishaps,
  lost,     \* ghost: <<port, number>> of the packets lost
  want,     \* ghost: [Gateways -> [Services -> the last command for it, what it says]]
  refused,  \* ghost: [Gateways -> the services whose last request came to nothing,
            \*         and "order" if the camera's was not even queued]
  heard,    \* ghost: the commands the unit There has been passed
  late      \* ghost: those passed only after a later one

halves == <<service, bound, orders, refused>>
vars == <<net, issued, mishaps, lost, want, heard, late, halves>>
-----------------------------------------------------------------------------
(* What a command is made of: whether it is relayed and over how many      *)
(* ports, what the gateway of the unit does, what the other one does.      *)
TalkOn  == {<<"capture", "on">>, <<"playback", "on">>}
TalkOff == {<<"capture", "off">>, <<"playback", "off">>}
C(to)   == {<<"display", to>>}
S(to)   == {<<"camera", to>>}

DataSingle == [DATA_SINGLE |-> {}]

UartAudio == [AUDIO_RUN       |-> TalkOn,  DATA_AUDIO_RUN  |-> TalkOn,
              AUDIO_STOP      |-> TalkOff, DATA_AUDIO_STOP |-> TalkOff]
UartVideo == [VIDEO_REC_RUN   |-> C("on"),  DATA_VIDEO_REC_RUN  |-> C("on"),
              VIDEO_REC_STOP  |-> C("off"), DATA_VIDEO_REC_STOP |-> C("off"),
              VIDEO_TRA_RUN   |-> S("on"),  DATA_VIDEO_TRA_RUN  |-> S("on"),
              VIDEO_TRA_STOP  |-> S("off"), DATA_VIDEO_TRA_STOP |-> S("off")]
UartBoth ==
  [ARUN_VREC_RUN |-> TalkOn \cup C("on"),   DATA_ARUN_VREC_RUN |-> TalkOn \cup C("on"),
   ASTP_VREC_STP |-> TalkOff \cup C("off"), DATA_ASTP_VREC_STP |-> TalkOff \cup C("off"),
   ARUN_VTRA_RUN |-> TalkOn \cup S("on"),   DATA_ARUN_VTRA_RUN |-> TalkOn \cup S("on"),
   ASTP_VTRA_STP |-> TalkOff \cup S("off"), DATA_ASTP_VTRA_STP |-> TalkOff \cup S("off")]
UartMixed == [DATA_ASTP_VTRA_RUN |-> TalkOff \cup S("on"),
              DATA_ASTP_VALL_STP |-> TalkOff \cup C("off") \cup S("off")]

UdpAudio == UartAudio

(* Seeded fault: the other gateway does the same, not the other half.      *)
UdpVideoSame == UartVideo

UdpVideo == [VIDEO_REC_RUN   |-> S("on"),  DATA_VIDEO_REC_RUN  |-> S("on"),
             VIDEO_REC_STOP  |-> S("off"), DATA_VIDEO_REC_STOP |-> S("off"),
             VIDEO_TRA_RUN   |-> C("off"), DATA_VIDEO_TRA_RUN  |-> C("on"),
             VIDEO_TRA_STOP  |-> C("off"), DATA_VIDEO_TRA_STOP |-> C("off")]
UdpBoth ==
  [ARUN_VREC_RUN |-> TalkOn \cup S("on"),   DATA_ARUN_VREC_RUN |-> TalkOn \cup S("on"),
   ASTP_VREC_STP |-> TalkOff \cup S("off"), DATA_ASTP_VREC_STP |-> TalkOff \cup S("off"),
   ARUN_VTRA_RUN |-> TalkOn \cup C("on"),   DATA_ARUN_VTRA_RUN |-> TalkOn \cup C("on"),
   ASTP_VTRA_STP |-> TalkOff \cup C("off"), DATA_ASTP_VTRA_STP |-> TalkOff \cup C("off")]
UdpMixed == [DATA_ASTP_VTRA_RUN |-> TalkOff \cup C("on"),
             DATA_ASTP_VALL_STP |-> TalkOff \cup C("off") \cup S("off")]

AllCommands == UNION {DOMAIN part : part \in {DataSingle, UartAudio, UartVideo, UartBoth, UartMixed}}

uart_message_process ==
  [cmd \in AllCommands |-> CASE cmd \in DOMAIN DataSingle -> DataSingle[cmd]
                             [] cmd \in DOMAIN UartAudio  -> UartAudio[cmd]
                             [] cmd \in DOMAIN UartVideo  -> UartVideo[cmd]
                             [] cmd \in DOMAIN UartBoth   -> UartBoth[cmd]
                             [] cmd \in DOMAIN UartMixed  -> UartMixed[cmd]]
udp_message_process ==
  [cmd \in AllCommands |-> CASE cmd \in DOMAIN DataSingle -> DataSingle[cmd]
                             [] cmd \in DOMAIN UdpAudio   -> UdpAudio[cmd]
                             [] cmd \in DOMAIN UdpVideo   -> UdpVideo[cmd]
                             [] cmd \in DOMAIN UdpBoth    -> UdpBoth[cmd]
                             [] cmd \in DOMAIN UdpMixed   -> UdpMixed[cmd]]

ASSUME CommandsAssumption == Commands \cup Strays \subseteq AllCommands

RelayedTwice ==
  {"DATA_AUDIO_RUN", "DATA_AUDIO_STOP", "DATA_VIDEO_REC_RUN", "DATA_VIDEO_REC_STOP",
   "DATA_VIDEO_TRA_RUN", "DATA_VIDEO_TRA_STOP", "DATA_ARUN_VREC_RUN",
   "DATA_ASTP_VREC_STP", "DATA_ARUN_VTRA_RUN", "DATA_ASTP_VTRA_STP",
   "DATA_ASTP_VTRA_RUN", "DATA_ASTP_VALL_STP"}

(* Seeded fault: the commands that concern the talk alone have a port of   *)
(* their own.                                                              *)
RelayByKind(cmd) == IF cmd \notin RelayedTwice \cup {"DATA_SINGLE"} THEN {}
                    ELSE IF cmd \in DOMAIN UartAudio THEN {2} ELSE {1}

(* The ports a command is relayed over.                                    *)
Relay(cmd) == CASE cmd \in RelayedTwice -> Ports
                [] cmd = "DATA_SINGLE"  -> {1}
                [] OTHER                -> {}
-----------------------------------------------------------------------------
TypeOK ==
  /\ \A p \in Ports : net[p] \in Seq((0 .. MaxCommands) \X AllCommands)
  /\ service \in [Gateways -> [Services -> {"IDLE", "START", "RUN"}]]
  /\ bound \in [Gateways -> SUBSET {"playback", "display"}]
  /\ \A g \in Gateways : orders[g] \in Seq({"on", "off"}) /\ Len(orders[g]) <= QMax
  /\ \A g \in Gateways : \A s \in bound[g] : service[g][s] = "IDLE"
  /\ issued \in 0 .. MaxCommands /\ mishaps \in 0 .. MaxMishaps
  /\ lost \subseteq Ports \X (0 .. MaxCommands)
  /\ want \in [Gateways -> [Services -> (0 .. issued) \X {"on", "off", "any"}]]
  /\ refused \in [Gateways -> SUBSET (Services \cup {"order"})]
  /\ late \subseteq heard /\ heard \subseteq 1 .. issued

Init ==
  /\ net = [p \in Ports |-> <<>>]
  /\ service = [g \in Gateways |-> [s \in Services |-> "IDLE"]]
  /\ bound = [g \in Gateways |-> {}] /\ orders = [g \in Gateways |-> <<>>]
  /\ issued = 0 /\ mishaps = 0 /\ lost = {} /\ heard = {} /\ late = {}
  /\ want = [g \in Gateways |-> [s \in Services |-> <<0, "off">>]]
  /\ refused = [g \in Gateways |-> {}]
-----------------------------------------------------------------------------
(* The services.  A stop waits for the thread and closes its socket; what  *)
(* it asks for in START is not done, nor a start whose port is taken.      *)

Starts(g, s) == IF s \in bound[g] THEN "IDLE" ELSE "START"
Stops(g, s)  == IF service[g][s] = "RUN" THEN "IDLE" ELSE service[g][s]
Turned(g, s, to) ==
  CASE to = "on"  /\ service[g][s] = "IDLE" -> Starts(g, s)
    [] to = "off"                           -> Stops(g, s)
    [] OTHER                                -> service[g][s]

(* What the ghost calls done.                                              *)
Obeyed(to, state) == (to = "off") = (state = "IDLE")

(* Talk and display are turned by the survey task itself, the camera by    *)
(* its controller, which is given an order if there is room for one.       *)
Immediate == Services \ {"camera"}

API_ToMulticast(g, to) ==
  IF Len(orders[g]) < QMax THEN [orders EXCEPT ![g] = Append(@, to)] ELSE orders

Perform(g, requests) ==
  LET asked(s) == \E to \in {"on", "off"} : <<s, to>> \in requests
      to(s)    == CHOOSE t \in {"on", "off"} : <<s, t>> \in requests
      room     == Len(orders[g]) < QMax
      after    == [s \in Services |-> IF s \in Immediate /\ asked(s)
                                      THEN Turned(g, s, to(s)) ELSE service[g][s]]
      failed   == {s \in Immediate : asked(s) /\ ~Obeyed(to(s), after[s])}
      kept(s)  == IF s = "order" THEN ~asked("camera") ELSE s = "camera" \/ ~asked(s)
  IN  /\ service' = [service EXCEPT ![g] = after]
      /\ orders' = IF asked("camera") THEN API_ToMulticast(g, to("camera")) ELSE orders
      /\ refused' = [refused EXCEPT ![g] = {s \in @ : kept(s)} \cup failed
                       \cup IF asked("camera") /\ ~room THEN {"order"} ELSE {}]
      /\ UNCHANGED bound

VideoCaptureController(g) ==
  /\ orders[g] # <<>>
  /\ orders' = [orders EXCEPT ![g] = Tail(@)]
  /\ LET state == Turned(g, "camera", Head(orders[g])) IN
       /\ service' = [service EXCEPT ![g]["camera"] = state]
       /\ refused' = [refused EXCEPT ![g] = IF Obeyed(Head(orders[g]), state)
                        THEN @ \ {"camera"} ELSE @ \cup {"camera"}]
  /\ UNCHANGED <<net, issued, mishaps, lost, want, heard, late, bound>>

DeviceOpens(g, s) ==
  /\ service[g][s] = "START"
  /\ service' = [service EXCEPT ![g][s] = "RUN"]
  /\ UNCHANGED <<net, issued, mishaps, lost, want, heard, late, bound, orders, refused>>

(* The thread gives up.  A receiving service has bound its socket before,  *)
(* and nobody closes it.                                                   *)
DeviceFails(g, s) ==
  /\ service[g][s] = "START" /\ mishaps < MaxMishaps
  /\ mishaps' = mishaps + 1
  /\ service' = [service EXCEPT ![g][s] = "IDLE"]
  /\ bound' = [bound EXCEPT ![g] = @ \cup ({s} \cap {"playback", "display"})]
  /\ refused' = [refused EXCEPT ![g] = @ \cup {s}]
  /\ UNCHANGED <<net, issued, lost, want, heard, late, orders>>
-----------------------------------------------------------------------------
(* The unit Here gives a command.  What it wants of the gateway There is   *)
(* the other half of what it wants Here: the ghost knows nothing of what   *)
(* the handler There does.                                                 *)
OtherHalf(requests) ==
  {<<CASE r[1] = "display" -> "camera" [] r[1] = "camera" -> "display" [] OTHER -> r[1], r[2]>> :
     r \in requests}

Wanted(n, requests, w) ==
  [s \in Services |-> CASE <<s, "on">> \in requests  -> <<n, "on">>
                       [] <<s, "off">> \in requests -> <<n, "off">>
                       [] OTHER                     -> w[s]]

UartMessage(cmd) ==
  /\ issued < MaxCommands
  /\ issued' = issued + 1
  /\ net' = [p \in Ports |-> IF p \in Relay(cmd) THEN Append(net[p], <<issued', cmd>>) ELSE net[p]]
  /\ Perform(Here, uart_message_process[cmd])
  /\ want' = [want EXCEPT
       ![Here]  = Wanted(issued', uart_message_process[cmd], @),
       ![There] = IF Relay(cmd) = {} THEN @ ELSE Wanted(issued', OtherHalf(uart_message_process[cmd]), @)]
  /\ UNCHANGED <<mishaps, lost, heard, late>>

(* A packet comes in There: its unit is passed a DATA_ command, then the   *)
(* services are seen to.  The survey queue between the receiving threads   *)
(* and the task keeps the order of arrival, and is left out.               *)
UdpMessage(p) ==
  /\ net[p] # <<>>
  /\ net' = [net EXCEPT ![p] = Tail(@)]
  /\ LET n == Head(net[p])[1]  cmd == Head(net[p])[2]  requests == udp_message_process[cmd] IN
       /\ Perform(There, requests)
       /\ IF n = 0
          THEN /\ want' = [want EXCEPT ![There] = [s \in Services |->
                            IF \E to \in {"on", "off"} : <<s, to>> \in requests
                            THEN <<0, "any">> ELSE @[s]]]
               /\ UNCHANGED <<heard, late>>
          ELSE /\ heard' = heard \cup {n}
               /\ late' = IF cmd \in RelayedTwice /\ n \notin heard /\ \E later \in heard : later > n
                          THEN late \cup {n} ELSE late
               /\ UNCHANGED want
  /\ UNCHANGED <<issued, mishaps, lost>>

(* The network, or the survey task's full queue, loses a packet.           *)
Lose(p) ==
  /\ net[p] # <<>> /\ mishaps < MaxMishaps
  /\ mishaps' = mishaps + 1
  /\ net' = [net EXCEPT ![p] = Tail(@)]
  /\ lost' = lost \cup {<<p, Head(net[p])[1]>>}
  /\ UNCHANGED <<issued, want, heard, late, halves>>

(* Another device of the network speaks to the gateway There.              *)
Stray(cmd) ==
  /\ mishaps < MaxMishaps
  /\ mishaps' = mishaps + 1
  /\ net' = [net EXCEPT ![1] = Append(@, <<0, cmd>>)]
  /\ UNCHANGED <<issued, lost, want, heard, late, halves>>
-----------------------------------------------------------------------------
Deliver == \E p \in Ports : UdpMessage(p)
Opens(g, s) == DeviceOpens(g, s) \/ DeviceFails(g, s)

Next == \/ \E cmd \in Commands : UartMessage(cmd)
        \/ Deliver
        \/ \E p \in Ports : Lose(p)
        \/ \E cmd \in Strays : Stray(cmd)
        \/ \E g \in Gateways : VideoCaptureController(g) \/ \E s \in Services : Opens(g, s)

Fairness == /\ WF_vars(Deliver)
            /\ WF_vars(\E g \in Gateways : VideoCaptureController(g) \/ \E s \in Services : Opens(g, s))

Spec == Init /\ [][Next]_vars /\ Fairness
-----------------------------------------------------------------------------
Settled == /\ \A p \in Ports : net[p] = <<>>
           /\ \A g \in Gateways : orders[g] = <<>> /\ \A s \in Services : service[g][s] # "START"

(* When all has come in and every thread has opened or given up, a service *)
(* is what the last command for it says, on both sides: the display Here   *)
(* with the camera There, and so on.  Whatever was lost before, and though *)
(* every command is carried out twice.  It takes that no copy of this last *)
(* command was lost (a single old copy that comes after it would undo it), *)
(* that no other device has spoken since, and that the last request did    *)
(* not come to nothing.                                                    *)
ServicesAgree ==
  Settled => \A g \in Gateways, s \in Services :
    LET n == want[g][s][1]  to == want[g][s][2] IN
    \/ to = "any" \/ (g = There /\ \E p \in Ports : <<p, n>> \in lost)
    \/ s \in refused[g] \/ (s = "camera" /\ "order" \in refused[g])
    \/ Obeyed(to, service[g][s])

(* The unit There first hears of the commands relayed over both ports in   *)
(* the order they were given, unless a copy was lost.                      *)
HeardInOrder == TypeOK /\ \A n \in late : \E p \in Ports : <<p, n>> \in lost

(* A command the source calls a start turns no service There off.          *)
Starting == {cmd \in AllCommands : \A r \in uart_message_process[cmd] : r[2] = "on"}
StartsOnly ==
  [][\A p \in Ports : net[p] # <<>> /\ Head(net[p])[2] \in Starting /\ net'[p] = Tail(net[p])
       => \A s \in Immediate : service[There][s] = "RUN" => service'[There][s] = "RUN"]_vars
=============================================================================
