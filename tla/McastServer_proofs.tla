------------------------- MODULE McastServer_proofs -------------------------
(***************************************************************************)
(* Proofs about McastServer, for any clients, cameras, periods and sizes.  *)
(*                                                                         *)
(* IInv is the inductive invariant.  NoDuplicateSubscriber is inductive by *)
(* itself once the list is typed; ClosesOnlyWhenEmpty is not an invariant  *)
(* but follows from EmptyWhenClosing, which in turn needs the lock: a      *)
(* client is only added when mon sleeps, so that a list mon found empty    *)
(* stays empty up to the close notice; and proc cannot add while it closes.*)
(***************************************************************************)
EXTENDS McastServer, SequenceTheorems, TLAPS

Subscriptions == [cmd : {"SUBSCRIBE_REQ"}, ip : Clients, dev : Devs, time : Periods]
Procs         == [at : ProcPoints \ {"wait"}, msg : Requests] \cup {Waiting}

Subscribing == {"apply", "on", "answer", "join", "joined", "register"}
Closing     == {"leave", "left", "notify"}

(* Between apply and register proc works for a SUBSCRIBE_REQ.              *)
ProcInOrder == proc \in Procs /\ (proc.at \in Subscribing => proc.msg \in Subscriptions)

(* mon cancels and removes an entry that is there: nobody shortens the     *)
(* list while mon has the lock.                                            *)
MonInOrder == /\ mon.at \in MonPoints /\ mon.i \in Nat \ {0}
              /\ mon.at \in {"cancel", "remove"} => mon.i \in 1 .. Len(userlist)

ListInOrder == userlist \in Seq(Entries) /\ Len(userlist) <= MaxSubs

(* Each thread waits for the one command it has queued.                    *)
Owed == (IF proc.at \in {"joined", "left"} THEN 1 ELSE 0)
          + (IF mon.at = "left" THEN 1 ELSE 0)
QueueInOrder == captureQ \in Seq({"START", "STOP"}) /\ Len(captureQ) <= Owed

EmptyWhenClosing == proc.at \in Closing \/ mon.at \in Closing => userlist = <<>>

PlainTypes == /\ inbox \in Seq(Requests)
              /\ cancelDue \in [Clients -> 0 .. Copies]
              /\ cs \in {"VIDEO_CS_IDLE", "VIDEO_CS_SERVER"}
              /\ source \in Devs \cup {NoDev}
              /\ notice \in {"none", "ON", "OFF"}
              /\ capture \in {"IDLE", "START", "RUN"}

IInv == /\ PlainTypes /\ ProcInOrder /\ MonInOrder /\ ListInOrder
        /\ QueueInOrder /\ NoDuplicateSubscriber /\ EmptyWhenClosing
-----------------------------------------------------------------------------
LEMMA TypesFromIInv == IInv => TypeOK
<1> SUFFICES ASSUME IInv PROVE TypeOK
  OBVIOUS
<1>1. Len(captureQ) \in Nat /\ Owed \in 0 .. 2
  BY DEF IInv, QueueInOrder, Owed
<1>2. Len(captureQ) <= 2
  BY <1>1 DEF IInv, QueueInOrder
<1>3. QED
  BY <1>2 DEF IInv, TypeOK, PlainTypes, ProcInOrder, Procs, MonInOrder, ListInOrder,
              QueueInOrder

(* A SUBSCRIBE_REQ is the only request with a camera and a period.         *)
LEMMA Subscription ==
  ASSUME NEW m \in Requests, m.cmd = "SUBSCRIBE_REQ"
  PROVE  m \in Subscriptions
  BY DEF Requests, Subscriptions

(* Where a step of proc leads, and that it keeps the message.              *)
LEMMA ProcMoves ==
  ASSUME proc \in Procs, proc.at # "wait", NEW to \in ProcPoints, ProcGoes(to)
  PROVE  /\ proc' \in Procs /\ proc'.at = to
         /\ to # "wait" => proc'.msg = proc.msg
<1>1. CASE to = "wait"
  BY <1>1 DEF ProcGoes, Procs, Waiting
<1>2. CASE to # "wait"
  <2>1. proc \in [at : ProcPoints \ {"wait"}, msg : Requests]
    BY DEF Procs, Waiting
  <2>2. proc' = [proc EXCEPT !.at = to]
    BY <1>2 DEF ProcGoes
  <2>3. QED
    BY <1>2, <2>1, <2>2 DEF Procs
<1>3. QED
  BY <1>1, <1>2

(* What is left after a removal.                                           *)
LEMMA Removed ==
  ASSUME ListInOrder, NoDuplicateSubscriber, NEW k \in 1 .. Len(userlist),
         userlist' = SwapRemove(k)
  PROVE  ListInOrder' /\ NoDuplicateSubscriber'
<1> DEFINE n == Len(userlist)
           from(j) == IF j = k THEN n ELSE j
<1>1. n \in Nat \ {0} /\ DOMAIN userlist = 1 .. n /\ \A j \in 1 .. n : userlist[j] \in Entries
  BY DEF ListInOrder
<1>2. userlist' = [j \in 1 .. n - 1 |-> userlist[from(j)]]
  BY DEF SwapRemove
<1>3. \A j \in 1 .. n - 1 : from(j) \in 1 .. n
  BY <1>1
<1>4. userlist' \in Seq(Entries) /\ Len(userlist') = n - 1 /\ DOMAIN userlist' = 1 .. n - 1
  <2>1. n - 1 \in Nat
    BY <1>1
  <2>2. \A j \in 1 .. n - 1 : userlist[from(j)] \in Entries
    BY <1>1, <1>3
  <2> HIDE DEF n, from
  <2>3. userlist' \in [1 .. n - 1 -> Entries]
    BY <1>2, <2>2
  <2>4. QED
    BY <2>1, <2>3, SeqDef, LenProperties
<1>5. NoDuplicateSubscriber'
  <2> SUFFICES ASSUME NEW i \in 1 .. n - 1, NEW j \in 1 .. n - 1,
                      userlist'[i].ip = userlist'[j].ip
               PROVE  i = j
    BY <1>4 DEF NoDuplicateSubscriber
  <2>1. userlist[from(i)].ip = userlist[from(j)].ip
    BY <1>2
  <2>2. from(i) = from(j)
    BY <1>1, <1>3, <2>1 DEF NoDuplicateSubscriber
  <2>3. QED
    BY <1>1, <2>2
<1>6. QED
  BY <1>1, <1>4, <1>5, MaxSubsAssumption DEF ListInOrder
-----------------------------------------------------------------------------
LEMMA InitIInv == Init => IInv
<1> SUFFICES ASSUME Init PROVE IInv
  OBVIOUS
<1>1. PlainTypes
  BY CopiesAssumption DEF Init, PlainTypes
<1>2. ProcInOrder /\ EmptyWhenClosing
  BY DEF Init, ProcInOrder, Procs, Waiting, Subscribing, Closing, EmptyWhenClosing
<1>3. MonInOrder
  BY DEF Init, MonInOrder, MonPoints
<1>4. ListInOrder
  BY MaxSubsAssumption DEF Init, ListInOrder
<1>5. QueueInOrder
  BY DEF Init, QueueInOrder, Owed, Waiting
<1>6. NoDuplicateSubscriber
  BY DEF Init, NoDuplicateSubscriber
<1>7. QED
  BY <1>1, <1>2, <1>3, <1>4, <1>5, <1>6 DEF IInv
-----------------------------------------------------------------------------
(* The environment and the capture tasks.                                  *)
LEMMA EnvironmentStep ==
  ASSUME IInv,
         \/ \E m \in Requests : Request(m)
         \/ \E c \in Clients : CancelRsp(c)
         \/ CaptureStep
  PROVE  IInv'
<1> USE DEF IInv
<1>1. ASSUME NEW m \in Requests, Request(m)
      PROVE  IInv'
  <2>1. PlainTypes'
    BY <1>1 DEF PlainTypes, Request, Receive, video
  <2>2. QED
    BY <1>1, <2>1
    DEF Request, threads, ProcInOrder, MonInOrder, ListInOrder, QueueInOrder, Owed,
        NoDuplicateSubscriber, EmptyWhenClosing
<1>2. ASSUME NEW c \in Clients, CancelRsp(c)
      PROVE  IInv'
  <2>1. [cmd |-> "CANCEL_RSP", ip |-> c] \in Requests
    BY DEF Requests
  <2>2. cancelDue[c] - 1 \in 0 .. Copies
    BY <1>2, CopiesAssumption DEF CancelRsp, PlainTypes
  <2>3. PlainTypes'
    BY <1>2, <2>1, <2>2 DEF PlainTypes, CancelRsp, Receive, video
  <2>4. QED
    BY <1>2, <2>3
    DEF CancelRsp, threads, ProcInOrder, MonInOrder, ListInOrder, QueueInOrder, Owed,
        NoDuplicateSubscriber, EmptyWhenClosing
<1>3. ASSUME VideoCaptureController
      PROVE  IInv'
  <2>1. PlainTypes'
    BY <1>3 DEF PlainTypes, VideoCaptureController, EnableCapture, DisableCapture, video
  <2>2. QueueInOrder'
    <3>1. captureQ \in Seq({"START", "STOP"}) /\ captureQ # <<>> /\ captureQ' = Tail(captureQ)
      BY <1>3 DEF VideoCaptureController, QueueInOrder
    <3>2. captureQ' \in Seq({"START", "STOP"}) /\ Len(captureQ') = Len(captureQ) - 1
      BY <3>1
    <3>3. Owed' = Owed /\ Owed \in Nat /\ Len(captureQ) \in Nat /\ Len(captureQ) <= Owed
      BY <1>3, <3>1 DEF VideoCaptureController, threads, Owed, QueueInOrder
    <3>4. QED
      BY <3>2, <3>3 DEF QueueInOrder
  <2>3. QED
    BY <1>3, <2>1, <2>2
    DEF VideoCaptureController, threads, ProcInOrder, MonInOrder, ListInOrder,
        NoDuplicateSubscriber, EmptyWhenClosing
<1>4. ASSUME EncoderOpens
      PROVE  IInv'
  BY <1>4
  DEF EncoderOpens, threads, video, PlainTypes, ProcInOrder, MonInOrder, ListInOrder,
      QueueInOrder, Owed, NoDuplicateSubscriber, EmptyWhenClosing
<1>5. QED
  BY <1>1, <1>2, <1>3, <1>4 DEF CaptureStep
-----------------------------------------------------------------------------
(* Closing the service, for either thread.                                 *)
LEMMA Disabling ==
  ASSUME IInv, NEW at, NEW to, DisableMulticast(at, to)
  PROVE  /\ cs' \in {"VIDEO_CS_IDLE", "VIDEO_CS_SERVER"} /\ source' = source
         /\ notice' \in {"none", "ON", "OFF"} /\ capture' = capture
         /\ at \in Closing
         /\ \/ at = "leave" /\ to = "left" /\ captureQ' = Append(captureQ, "STOP")
            \/ at = "left" /\ to = "notify" /\ captureQ = <<>> /\ captureQ' = <<>>
            \/ at = "notify" /\ to = "done" /\ captureQ' = captureQ
  BY DEF IInv, PlainTypes, DisableMulticast, ToMulticast, Settled, video, Closing

(* Thread proc.                                                            *)
LEMMA ProcKeepsIInv == IInv /\ ProcStep => IInv'
<1> SUFFICES ASSUME IInv, ProcStep PROVE IInv'
  OBVIOUS
<1> USE DEF IInv
<1>q. captureQ \in Seq({"START", "STOP"}) /\ Len(captureQ) \in Nat
  BY DEF QueueInOrder
<1>m. \A to \in ProcPoints : proc.at # "wait" /\ ProcGoes(to) =>
        /\ proc' \in Procs /\ proc'.at = to
        /\ to # "wait" => proc'.msg = proc.msg
  BY ProcMoves DEF ProcInOrder
<1>p. proc.at \in ProcPoints /\ Subscribing \subseteq ProcPoints /\ Closing \subseteq ProcPoints
  BY DEF ProcInOrder, Procs, ProcPoints, Waiting, Subscribing, Closing
<1>1. CASE Take
  <2>1. Head(inbox) \in Requests /\ Tail(inbox) \in Seq(Requests)
    BY <1>1 DEF Take, PlainTypes
  <2>2. PlainTypes'
    BY <1>1, <2>1 DEF Take, PlainTypes, video
  <2>3. ProcInOrder' /\ proc'.at \in {"apply", "unregister"}
    <3>1. proc' = [at |-> FirstPoint(Head(inbox).cmd), msg |-> Head(inbox)]
      BY <1>1 DEF Take
    <3>2. FirstPoint(Head(inbox).cmd) \in {"apply", "unregister"}
          /\ (FirstPoint(Head(inbox).cmd) = "apply" => Head(inbox) \in Subscriptions)
      BY <2>1, Subscription DEF FirstPoint
    <3>3. QED
      BY <2>1, <3>1, <3>2 DEF ProcInOrder, Procs, ProcPoints, Subscribing
  <2>4. QueueInOrder'
    BY <1>1, <2>3, <1>q DEF Take, QueueInOrder, Owed
  <2>5. EmptyWhenClosing'
    BY <1>1, <2>3 DEF Take, EmptyWhenClosing, Closing
  <2>6. QED
    BY <1>1, <2>2, <2>3, <2>4, <2>5
    DEF Take, MonInOrder, ListInOrder, NoDuplicateSubscriber
<1>2. CASE StartApply
  <2>1. proc.at = "apply" /\ proc.msg \in Subscriptions
    BY <1>2 DEF StartApply, ProcInOrder, Subscribing
  <2>2. /\ ProcGoes("on") \/ ProcGoes("answer") \/ ProcGoes("wait")
        /\ UNCHANGED <<inbox, cancelDue, mon, userlist, notice, captureQ, capture>>
    BY <1>2 DEF StartApply
  <2>3. ProcInOrder' /\ proc'.at \in {"on", "answer", "wait"}
    BY <2>1, <2>2, <1>m DEF ProcInOrder, ProcPoints, Subscribing
  <2>4. PlainTypes'
    BY <1>2, <2>1 DEF StartApply, PlainTypes, Subscriptions
  <2>5. QED
    BY <2>1, <2>2, <2>3, <2>4, <1>q
    DEF MonInOrder, ListInOrder, NoDuplicateSubscriber, QueueInOrder, Owed,
        EmptyWhenClosing, Closing
<1>3. CASE NotifyOn \/ \E acked \in BOOLEAN : SubscribeRsp(acked)
  <2>1. proc.at \in {"on", "answer"}
    BY <1>3 DEF NotifyOn, SubscribeRsp
  <2>2. /\ ProcGoes("answer") \/ ProcGoes("join") \/ ProcGoes("wait")
        /\ UNCHANGED <<inbox, cancelDue, mon, userlist, cs, source, captureQ, capture>>
    BY <1>3 DEF NotifyOn, SubscribeRsp, video
  <2>3. ProcInOrder' /\ proc'.at \in {"answer", "join", "wait"}
    BY <2>1, <2>2, <1>m DEF ProcInOrder, ProcPoints, Subscribing
  <2>4. PlainTypes'
    BY <1>3 DEF NotifyOn, SubscribeRsp, video, PlainTypes
  <2>5. QED
    BY <2>1, <2>2, <2>3, <2>4, <1>q
    DEF MonInOrder, ListInOrder, NoDuplicateSubscriber, QueueInOrder, Owed,
        EmptyWhenClosing, Closing
<1>4. CASE EnableMulticast
  <2>1. /\ proc.at = "join" /\ ProcGoes("joined") /\ captureQ' = Append(captureQ, "START")
        /\ UNCHANGED <<inbox, cancelDue, mon, userlist, video, capture>>
    BY <1>4 DEF EnableMulticast, ToMulticast
  <2>2. ProcInOrder' /\ proc'.at = "joined"
    BY <2>1, <1>m DEF ProcInOrder, ProcPoints, Subscribing
  <2>3. QueueInOrder'
    BY <2>1, <2>2, <1>q DEF QueueInOrder, Owed
  <2>4. QED
    BY <2>1, <2>2, <2>3
    DEF PlainTypes, video, MonInOrder, ListInOrder, NoDuplicateSubscriber,
        EmptyWhenClosing, Closing
<1>5. CASE MulticastEnabled
  <2>1. /\ proc.at = "joined" /\ ProcGoes("register") /\ captureQ = <<>>
        /\ UNCHANGED <<inbox, cancelDue, mon, userlist, video, captureQ, capture>>
    BY <1>5 DEF MulticastEnabled, Settled
  <2>2. ProcInOrder' /\ proc'.at = "register"
    BY <2>1, <1>m DEF ProcInOrder, ProcPoints, Subscribing
  <2>3. QueueInOrder'
    BY <2>1, <2>2 DEF QueueInOrder, Owed
  <2>4. QED
    BY <2>1, <2>2, <2>3
    DEF PlainTypes, video, MonInOrder, ListInOrder, NoDuplicateSubscriber,
        EmptyWhenClosing, Closing
<1>6. CASE activate_subscriber_list
  <2> DEFINE entry == [ip |-> proc.msg.ip, dev |-> proc.msg.dev,
                       period |-> proc.msg.time, timer |-> 0]
  <2>1. /\ proc.at = "register" /\ ProcGoes("wait") /\ mon.at = "sleep"
        /\ UNCHANGED <<inbox, cancelDue, mon, video, captureQ, capture>>
    BY <1>6 DEF activate_subscriber_list, LockFree
  <2>2. proc.msg \in Subscriptions
    BY <2>1 DEF ProcInOrder, Subscribing
  <2>3. entry \in Entries /\ entry.ip = proc.msg.ip
    BY <2>2, PeriodsAssumption DEF Subscriptions, Entries
  <2>4. \/ userlist' = userlist
        \/ userlist' = Append(userlist, entry) /\ Len(userlist) < MaxSubs
             /\ ~Listed(entry.ip)
    <3>1. Len(userlist) \in Nat
      BY DEF ListInOrder
    <3>2. QED
      BY <1>6, <2>3, <3>1, MaxSubsAssumption DEF activate_subscriber_list
  <2> HIDE DEF entry
  <2>5. ListInOrder' /\ NoDuplicateSubscriber'
    <3>1. CASE userlist' = userlist
      BY <3>1 DEF ListInOrder, NoDuplicateSubscriber
    <3>2. CASE userlist' = Append(userlist, entry) /\ Len(userlist) < MaxSubs
                 /\ ~Listed(entry.ip)
      BY <2>3, <3>2, MaxSubsAssumption DEF ListInOrder, NoDuplicateSubscriber, Listed
    <3>3. QED
      BY <2>4, <3>1, <3>2
  <2>6. ProcInOrder' /\ proc'.at = "wait"
    BY <2>1, <1>m DEF ProcInOrder, ProcPoints, Subscribing
  <2>7. QED
    BY <2>1, <2>5, <2>6, <1>q
    DEF PlainTypes, video, MonInOrder, QueueInOrder, Owed, EmptyWhenClosing, Closing
<1>7. CASE deactivate_subscriber_list
  <2>1. /\ proc.at = "unregister" /\ ProcGoes("count") /\ mon.at = "sleep"
        /\ UNCHANGED <<inbox, cancelDue, mon, video, captureQ, capture>>
    BY <1>7 DEF deactivate_subscriber_list, LockFree
  <2>2. ListInOrder' /\ NoDuplicateSubscriber'
    <3>1. CASE Listed(proc.msg.ip)
      <4>1. IndexOf(proc.msg.ip) \in 1 .. Len(userlist)
        BY <3>1 DEF Listed, IndexOf, ListInOrder
      <4>2. userlist' = SwapRemove(IndexOf(proc.msg.ip))
        BY <1>7, <3>1 DEF deactivate_subscriber_list
      <4>3. QED
        BY <4>1, <4>2, Removed
    <3>2. CASE ~Listed(proc.msg.ip)
      BY <1>7, <3>2 DEF deactivate_subscriber_list, ListInOrder, NoDuplicateSubscriber
    <3>3. QED
      BY <3>1, <3>2
  <2>3. ProcInOrder' /\ proc'.at = "count"
    BY <2>1, <1>m DEF ProcInOrder, ProcPoints, Subscribing
  <2>4. QED
    BY <2>1, <2>2, <2>3, <1>q
    DEF PlainTypes, video, MonInOrder, QueueInOrder, Owed, EmptyWhenClosing, Closing
<1>8. CASE get_total_subscriber_list
  <2>1. /\ proc.at = "count" /\ UNCHANGED <<inbox, cancelDue, mon, userlist, video, captureQ, capture>>
        /\ \/ ProcGoes("wait")
           \/ ProcGoes("leave") /\ userlist = <<>>
    BY <1>8 DEF get_total_subscriber_list
  <2>2. ProcInOrder' /\ (proc'.at = "leave" => userlist = <<>>)
        /\ proc'.at \in {"wait", "leave"}
    BY <2>1, <1>m DEF ProcInOrder, ProcPoints, Subscribing
  <2>3. QED
    BY <2>1, <2>2, <1>q
    DEF PlainTypes, video, MonInOrder, ListInOrder, NoDuplicateSubscriber, QueueInOrder,
        Owed, EmptyWhenClosing, Closing
<1>9. CASE ProcDisables
  <2>1. PICK to \in {"left", "notify", "done"} :
          /\ DisableMulticast(proc.at, to)
          /\ ProcGoes(IF to = "done" THEN "wait" ELSE to)
          /\ UNCHANGED <<inbox, cancelDue, mon, userlist>>
    BY <1>9 DEF ProcDisables
  <2>2. /\ proc.at \in Closing /\ userlist = <<>>
        /\ \/ proc.at = "leave" /\ to = "left" /\ captureQ' = Append(captureQ, "STOP")
           \/ proc.at = "left" /\ to = "notify" /\ captureQ = <<>> /\ captureQ' = <<>>
           \/ proc.at = "notify" /\ to = "done" /\ captureQ' = captureQ
    BY <2>1, Disabling DEF EmptyWhenClosing
  <2>3. ProcInOrder' /\ proc'.at = IF to = "done" THEN "wait" ELSE to
    BY <2>1, <2>2, <1>m DEF ProcInOrder, ProcPoints, Subscribing, Closing
  <2>4. PlainTypes'
    BY <2>1, Disabling DEF PlainTypes
  <2>5. QueueInOrder'
    BY <2>1, <2>2, <2>3, <1>q DEF QueueInOrder, Owed
  <2>6. QED
    BY <2>1, <2>2, <2>3, <2>4, <2>5
    DEF MonInOrder, ListInOrder, NoDuplicateSubscriber, EmptyWhenClosing
<1>10. QED
  BY <1>1, <1>2, <1>3, <1>4, <1>5, <1>6, <1>7, <1>8, <1>9 DEF ProcStep
-----------------------------------------------------------------------------
(* Thread mon.                                                             *)
LEMMA MonKeepsIInv == IInv /\ MonStep => IInv'
<1> SUFFICES ASSUME IInv, MonStep PROVE IInv'
  OBVIOUS
<1> USE DEF IInv
<1>q. captureQ \in Seq({"START", "STOP"}) /\ Len(captureQ) \in Nat
  BY DEF QueueInOrder
<1>i. mon.i \in Nat \ {0} /\ mon.i + 1 \in Nat \ {0} /\ Len(userlist) \in Nat
  BY DEF MonInOrder, ListInOrder
<1>1. CASE MonWakes
  BY <1>1, <1>q
  DEF MonWakes, MonGoes, PlainTypes, video, ProcInOrder, MonInOrder, MonPoints, ListInOrder,
      NoDuplicateSubscriber, QueueInOrder, Owed, EmptyWhenClosing, Closing
<1>2. CASE MonSleeps
  BY <1>2, <1>q
  DEF MonSleeps, MonGoes, PlainTypes, video, ProcInOrder, MonInOrder, MonPoints, ListInOrder,
      NoDuplicateSubscriber, QueueInOrder, Owed, EmptyWhenClosing, Closing
<1>3. CASE Age
  <2>1. /\ mon.at = "age" /\ mon.i \in 1 .. Len(userlist)
        /\ UNCHANGED <<inbox, cancelDue, proc, video, captureQ, capture>>
    BY <1>3, <1>i DEF Age
  <2>2. PICK timer \in Nat : userlist' = [userlist EXCEPT ![mon.i].timer = timer]
    <3>a. userlist[mon.i] \in Entries
      BY <2>1 DEF ListInOrder
    <3>1. userlist[mon.i].timer \in Nat
      BY <3>a DEF Entries
    <3>2. 0 \in Nat /\ userlist[mon.i].timer + 1 \in Nat
      BY <3>1
    <3>3. \/ userlist' = [userlist EXCEPT ![mon.i].timer = 0]
          \/ userlist' = [userlist EXCEPT ![mon.i].timer = userlist[mon.i].timer + 1]
      BY <1>3 DEF Age
    <3>4. QED
      BY <3>2, <3>3
  <2>3. /\ userlist' \in Seq(Entries) /\ Len(userlist') = Len(userlist)
        /\ \A k \in 1 .. Len(userlist) : userlist'[k].ip = userlist[k].ip
    <3>a. userlist[mon.i] \in Entries
      BY <2>1 DEF ListInOrder
    <3>1. [userlist[mon.i] EXCEPT !.timer = timer] \in Entries
          /\ [userlist[mon.i] EXCEPT !.timer = timer].ip = userlist[mon.i].ip
      BY <3>a DEF Entries
    <3>2. userlist' = [userlist EXCEPT ![mon.i] = [userlist[mon.i] EXCEPT !.timer = timer]]
      BY <2>2
    <3>3. QED
      BY <2>1, <3>1, <3>2, ExceptSeq DEF ListInOrder
  <2>4. ListInOrder' /\ NoDuplicateSubscriber'
    BY <2>3 DEF ListInOrder, NoDuplicateSubscriber
  <2>5. \/ mon' = [at |-> "cancel", i |-> mon.i]
        \/ mon' = [at |-> "age", i |-> mon.i + 1]
    BY <1>3 DEF Age, MonGoes
  <2>6. MonInOrder'
    BY <2>1, <2>3, <2>5, <1>i DEF MonInOrder, MonPoints
  <2>7. EmptyWhenClosing'
    BY <2>1, <2>5 DEF EmptyWhenClosing, Closing
  <2>8. QED
    BY <2>1, <2>4, <2>5, <2>6, <2>7, <1>q
    DEF PlainTypes, video, ProcInOrder, QueueInOrder, Owed
<1>4. CASE Cancel
  <2>1. userlist[mon.i] \in Entries
    BY <1>4 DEF Cancel, MonInOrder, ListInOrder
  <2>2. cancelDue' \in [Clients -> 0 .. Copies]
    BY <1>4, <2>1, CopiesAssumption DEF Cancel, PlainTypes, Entries
  <2>3. mon' = [at |-> "remove", i |-> mon.i] /\ mon.at = "cancel"
    BY <1>4 DEF Cancel, MonGoes
  <2>4. UNCHANGED <<inbox, proc, userlist, cs, source, notice, captureQ, capture>>
    BY <1>4 DEF Cancel, video
  <2>5. QED
    BY <2>2, <2>3, <2>4, <1>q
    DEF PlainTypes, ProcInOrder, MonInOrder, MonPoints, ListInOrder, NoDuplicateSubscriber,
        QueueInOrder, Owed, EmptyWhenClosing, Closing
<1>5. CASE Remove
  <2>1. /\ mon.at = "remove" /\ mon.i \in 1 .. Len(userlist)
        /\ userlist' = SwapRemove(mon.i)
        /\ UNCHANGED <<inbox, cancelDue, proc, cs, source, notice, captureQ, capture>>
    BY <1>5 DEF Remove, MonInOrder, video
  <2>2. ListInOrder' /\ NoDuplicateSubscriber'
    BY <2>1, Removed
  <2>3. \/ userlist' = <<>> /\ mon' = [at |-> "leave", i |-> mon.i]
        \/ mon' = [at |-> "age", i |-> mon.i + 1]
    BY <1>5 DEF Remove, MonGoes
  <2>4. MonInOrder'
    BY <2>3, <1>i DEF MonInOrder, MonPoints
  <2>5. EmptyWhenClosing'
    <3>1. proc.at \notin Closing
      BY <2>1, <1>i DEF EmptyWhenClosing
    <3>2. QED
      BY <2>1, <2>3, <3>1 DEF EmptyWhenClosing, Closing
  <2>6. QED
    BY <2>1, <2>2, <2>3, <2>4, <2>5, <1>q DEF PlainTypes, ProcInOrder, QueueInOrder, Owed
<1>6. CASE MonDisables
  <2>1. PICK to \in {"left", "notify", "done"} :
          /\ DisableMulticast(mon.at, to)
          /\ mon' = IF to = "done" THEN [at |-> "age", i |-> mon.i + 1]
                    ELSE [at |-> to, i |-> mon.i]
          /\ UNCHANGED <<inbox, cancelDue, proc, userlist>>
    BY <1>6 DEF MonDisables, MonGoes
  <2>2. /\ userlist = <<>>
        /\ \/ mon.at = "leave" /\ to = "left" /\ captureQ' = Append(captureQ, "STOP")
           \/ mon.at = "left" /\ to = "notify" /\ captureQ = <<>> /\ captureQ' = <<>>
           \/ mon.at = "notify" /\ to = "done" /\ captureQ' = captureQ
    BY <2>1, Disabling DEF EmptyWhenClosing
  <2>3. PlainTypes'
    BY <2>1, Disabling DEF PlainTypes
  <2>4. QueueInOrder'
    BY <2>1, <2>2, <1>q DEF QueueInOrder, Owed
  <2>5. MonInOrder'
    BY <2>1, <1>i DEF MonInOrder, MonPoints
  <2>6. QED
    BY <2>1, <2>2, <2>3, <2>4, <2>5
    DEF ProcInOrder, ListInOrder, NoDuplicateSubscriber, EmptyWhenClosing
<1>7. QED
  BY <1>1, <1>2, <1>3, <1>4, <1>5, <1>6 DEF MonStep
-----------------------------------------------------------------------------
LEMMA Invariance == Spec => []IInv
<1>1. IInv /\ [Next]_vars => IInv'
  <2> SUFFICES ASSUME IInv, [Next]_vars PROVE IInv'
    OBVIOUS
  <2>1. CASE Next
    BY <2>1, EnvironmentStep, ProcKeepsIInv, MonKeepsIInv DEF Next
  <2>2. CASE UNCHANGED vars
    BY <2>2
    DEF vars, video, threads, IInv, PlainTypes, ProcInOrder, MonInOrder, ListInOrder,
        QueueInOrder, Owed, NoDuplicateSubscriber, EmptyWhenClosing
  <2>3. QED
    BY <2>1, <2>2
<1>2. QED
  BY InitIInv, <1>1, PTL DEF Spec

(* Every variable stays within its type, the subscriber list within its    *)
(* array, and no more commands wait for the capture controller than there  *)
(* are threads that queue them.                                            *)
THEOREM TypeCorrect == Spec => []TypeOK
  BY TypesFromIInv, Invariance, PTL

(* No client is ever listed twice, for any number of clients and places.   *)
THEOREM NoClientTwice == Spec => []NoDuplicateSubscriber
<1>1. IInv => NoDuplicateSubscriber
  BY DEF IInv
<1>2. QED
  BY <1>1, Invariance, PTL

(* Neither thread closes the service while somebody is subscribed.         *)
THEOREM NeverClosedOnAClient == Spec => ClosesOnlyWhenEmpty
<1> DEFINE A == cs = "VIDEO_CS_SERVER" /\ cs' = "VIDEO_CS_IDLE" => userlist = <<>>
<1>1. IInv /\ [Next]_vars => [A]_vars
  <2> SUFFICES ASSUME IInv, Next, cs # cs' PROVE A
    BY DEF vars
  <2>1. CASE ProcDisables
    BY <2>1, Disabling DEF ProcDisables, IInv, EmptyWhenClosing
  <2>2. CASE MonDisables
    BY <2>2, Disabling DEF MonDisables, IInv, EmptyWhenClosing
  <2>3. CASE StartApply
    BY <2>3 DEF StartApply
  <2>4. QED
    BY <2>1, <2>2, <2>3
    DEF Next, ProcStep, MonStep, CaptureStep, Request, CancelRsp, VideoCaptureController,
        EncoderOpens, Take, NotifyOn, SubscribeRsp, EnableMulticast, MulticastEnabled,
        activate_subscriber_list, deactivate_subscriber_list, get_total_subscriber_list,
        MonWakes, MonSleeps, Age, Cancel, Remove, video
<1>2. QED
  BY <1>1, Invariance, PTL DEF Spec, ClosesOnlyWhenEmpty
=============================================================================
