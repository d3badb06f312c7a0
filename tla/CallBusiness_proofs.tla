------------------------- MODULE CallBusiness_proofs -------------------------
(***************************************************************************)
(* What a party of a call keeps whatever the room of its queue and however *)
(* long its day: the types of its state, that a call that is over holds    *)
(* nothing, and that no call is left without something that ends it.       *)
(*                                                                         *)
(* The three are inductive together: a step of the task is known by the    *)
(* message it takes, which the types say is one of nine, and what ends a   *)
(* call is looked for in the queue, which every step extends or shortens.  *)
(***************************************************************************)
EXTENDS CallBusiness, TLAPS

Messages == Orders \cup Ticks

Inv == TypeOK /\ ReleasedWhenOver /\ NoneWithoutTimer
-----------------------------------------------------------------------------
(* A message put at the end leaves those before it where they are.         *)
LEMMA PushKeeps ==
  ASSUME NEW q \in Seq(Messages), NEW m \in Messages
  PROVE  /\ Append(q, m) \in Seq(Messages) /\ Len(Append(q, m)) = Len(q) + 1
         /\ q \o <<m>> \in Seq(Messages) /\ Len(q \o <<m>>) = Len(q) + 1
         /\ Contains(Append(q, m), m)
         /\ \A e \in Messages : Contains(q, e) => Contains(Append(q, m), e)
         /\ \A e \in Messages : Contains(q, e) => Contains(q \o <<m>>, e)
  BY DEF Contains

(* A message that is not the first is there when the first is taken.       *)
LEMMA TailKeeps ==
  ASSUME NEW q \in Seq(Messages), q # <<>>
  PROVE  /\ Head(q) \in Messages
         /\ Tail(q) \in Seq(Messages) /\ Len(Tail(q)) = Len(q) - 1
         /\ \A e \in Messages : Contains(q, e) /\ Head(q) # e => Contains(Tail(q), e)
<1>1. Head(q) = q[1] /\ Len(q) \in Nat \ {0}
  OBVIOUS
<1>2. ASSUME NEW e \in Messages, Contains(q, e), Head(q) # e
      PROVE  Contains(Tail(q), e)
  <2>1. PICK i \in 1 .. Len(q) : q[i] = e
    BY <1>2 DEF Contains
  <2>2. i - 1 \in 1 .. Len(Tail(q)) /\ Tail(q)[i - 1] = e
    BY <1>1, <1>2, <2>1
  <2> QED
    BY <2>2 DEF Contains
<1> QED
  BY <1>1, <1>2

(* Every rule of the call server gives one order.                          *)
LEMMA OneOrder ==
  ASSUME role \in {"caller", "called"}, NEW r \in Rules[role]
  PROVE  /\ \E o \in Orders : r.order = <<o>>
         /\ r.next \in IF role = "caller" THEN {"idle", "call", "bye"}
                                          ELSE {"idle", "ring", "talk", "bye"}
  BY DEF Rules, Rule, Orders

(* What the call server answers goes to the end of the queue, if it fits.  *)
LEMMA ServerAnswers ==
  ASSUME TypeOK, NEW event, API_CallServer_Common(event)
  PROVE  /\ queue' \in Seq(Messages) /\ Len(queue') <= QMax
         /\ server' \in IF role = "caller" THEN {"idle", "call", "bye"}
                                           ELSE {"idle", "ring", "talk", "bye"}
         /\ Contains(queue, "TIMEOVER") => Contains(queue', "TIMEOVER")
<1> DEFINE rules == {r \in Rules[role] : r.event = event /\ server \in r.from}
<1>1. CASE UNCHANGED <<server, queue>>
  BY <1>1 DEF TypeOK, Messages
<1>2. CASE \E r \in rules : /\ server' = r.next
                            /\ queue' = IF Len(queue) < QMax THEN queue \o r.order ELSE queue
  <2>1. PICK r \in Rules[role] :
          /\ server' = r.next
          /\ queue' = IF Len(queue) < QMax THEN queue \o r.order ELSE queue
    BY <1>2
  <2>2. PICK o \in Orders : r.order = <<o>>
    BY OneOrder DEF TypeOK
  <2>3. queue \in Seq(Messages) /\ Len(queue) \in Nat /\ o \in Messages /\ "TIMEOVER" \in Messages
    BY DEF TypeOK, Messages, Ticks
  <2>4. CASE Len(queue) < QMax
    <3>1. queue' = queue \o <<o>>
      BY <2>1, <2>2, <2>4
    <3>2. Len(queue') <= QMax
      BY <2>3, <2>4, <3>1, PushKeeps, BoundsAssumption
    <3>3. queue' \in Seq(Messages)
      BY <2>3, <3>1, PushKeeps
    <3>4. Contains(queue, "TIMEOVER") => Contains(queue', "TIMEOVER")
      BY <2>3, <3>1, PushKeeps
    <3> QED
      BY <2>1, <3>2, <3>3, <3>4, OneOrder DEF TypeOK
  <2>5. CASE ~ (Len(queue) < QMax)
    BY <2>1, <2>3, <2>5, OneOrder DEF TypeOK
  <2> QED
    BY <2>4, <2>5
<1> QED
  BY <1>1, <1>2 DEF API_CallServer_Common
-----------------------------------------------------------------------------
THEOREM InvInit == Init => Inv
<1> SUFFICES ASSUME Init PROVE Inv
  OBVIOUS
<1>1. queue = <<>> /\ queue \in Seq(Orders \cup Ticks) /\ Len(queue) <= QMax
  BY BoundsAssumption DEF Init, Rest
<1>2. Switches
  BY DEF Init, Rest, Switches
<1>3. TypeOK
  BY <1>1, <1>2, BoundsAssumption DEF Init, Rest, TypeOK, Busy
<1> QED
  BY <1>3 DEF Init, Rest, Inv, ReleasedWhenOver, NoneWithoutTimer

(* The message a step of the task takes, and the queue it leaves.          *)
LEMMA Taken ==
  ASSUME Inv, vtk_TaskProcessEvent
  PROVE  /\ Head(queue) \in Messages
         /\ queue' \in Seq(Messages) /\ Len(queue') <= QMax
         /\ Contains(queue, "TIMEOVER") /\ Head(queue) # "TIMEOVER"
              => Contains(queue', "TIMEOVER")
  BY TailKeeps, BoundsAssumption DEF Inv, TypeOK, vtk_TaskProcessEvent, Messages, Ticks

(* What a message comes to: a call goes on, hangs up, is over, or stays    *)
(* what it is - never so when the message says that its time is over.      *)
GoesOn  == \/ role = "caller" /\ Caller_To_Invite
           \/ Caller_To_Ringing \/ Caller_To_Ack \/ BeCalled_To_Ringing \/ BeCalled_To_Ack
HangsUp == Caller_To_Bye \/ BeCalled_To_Bye
IsOver  == Rests \/ GivesUp
Stays   == Asks \/ Ignores \/ CancelWaiting

LEMMA Outcomes ==
  ASSUME Inv, vtk_TaskProcessEvent
  PROVE  \/ GoesOn \/ HangsUp \/ IsOver
         \/ Stays /\ (state # "WAITING" => Head(queue) # "TIMEOVER")
<1>1. Head(queue) \in Messages
  BY Taken
<1>2. CASE role = "caller"
  BY <1>1, <1>2 DEF Inv, TypeOK, Messages, Orders, Ticks, Busy, GoesOn, HangsUp, IsOver, Stays,
     vtk_TaskProcessEvent, vtk_TaskProcessEvent_Caller, Caller_Waiting_Process,
     Caller_Invite_Process, Caller_Ringing_Process, Caller_Ack_Process, Caller_Bye_Process,
     Caller_To_Waiting, Caller_To_Timeout, Caller_To_Error, Caller_To_ForceClose,
     Callback_Caller_ToTimeout, Callback_Caller_ToError, Callback_Caller_ToForceClose
<1>3. CASE role = "called"
  BY <1>1, <1>3 DEF Inv, TypeOK, Messages, Orders, Ticks, Busy, GoesOn, HangsUp, IsOver, Stays,
     vtk_TaskProcessEvent, vtk_TaskProcessEvent_BeCalled, BeCalled_Waiting_Process,
     BeCalled_Ringing_Process, BeCalled_Ack_Process, BeCalled_Bye_Process,
     BeCalled_To_Waiting, BeCalled_To_Timeout, BeCalled_To_Error, BeCalled_To_ForceClose,
     Callback_BeCalled_ToTimeout, Callback_BeCalled_ToForceClose
<1> QED
  BY <1>2, <1>3 DEF Inv, TypeOK

(* A message is dealt with.                                                *)
LEMMA ProcessKeeps ==
  ASSUME Inv, vtk_TaskProcessEvent
  PROVE  Inv'
<1>1. /\ at = "idle" /\ UNCHANGED <<role, tick, world>>
      /\ queue' \in Seq(Messages) /\ Len(queue') <= QMax
      /\ Contains(queue, "TIMEOVER") /\ Head(queue) # "TIMEOVER"
           => Contains(queue', "TIMEOVER")
  BY Taken DEF vtk_TaskProcessEvent
<1> USE <1>1 DEF Inv, TypeOK, Messages, Busy, world
<1>2. CASE GoesOn
  <2> USE <1>2 DEF GoesOn, Enter, Caller_To_Invite, Callback_Caller_ToInvite,
        Caller_To_Ringing, Callback_Caller_ToRinging, Caller_To_Ack, Callback_Caller_ToAck,
        BeCalled_To_Ringing, Callback_BeCalled_ToRinging, BeCalled_To_Ack,
        Callback_BeCalled_ToAck
  <2>1. Switches'
    BY DEF Switches
  <2>2. TypeOK' /\ state' \in {"INVITE", "RINGING", "ACK"} /\ timer'
    BY <2>1
  <2> QED
    BY <2>2 DEF ReleasedWhenOver, NoneWithoutTimer
<1>3. CASE HangsUp
  <2> USE <1>3 DEF HangsUp, Enter, Caller_To_Bye, Callback_Caller_ToBye,
        BeCalled_To_Bye, Callback_BeCalled_ToBye
  <2>1. Switches'
    BY DEF Switches
  <2>2. TypeOK' /\ timer' /\ ~ talk' /\ link' = "Idle"
    BY <2>1
  <2> QED
    BY <2>2 DEF ReleasedWhenOver, NoneWithoutTimer
<1>4. CASE IsOver
  <2> USE <1>4 DEF IsOver, Rests, GivesUp, Leave, Quit
  <2>1. Switches'
    BY DEF Switches
  <2>2. TypeOK' /\ state' = "WAITING" /\ ~ talk' /\ link' = "Idle"
    BY <2>1
  <2> QED
    BY <2>2 DEF ReleasedWhenOver, NoneWithoutTimer
<1>5. CASE Stays /\ (state # "WAITING" => Head(queue) # "TIMEOVER")
  <2> USE <1>5 DEF Stays, Asks, Ignores, CancelWaiting, Quit, party
  <2>1. Switches'
    BY DEF Switches
  <2>2. TypeOK' /\ UNCHANGED party
    BY <2>1
  <2> QED
    BY <2>2 DEF ReleasedWhenOver, NoneWithoutTimer
<1> QED
  BY <1>2, <1>3, <1>4, <1>5, Outcomes

(* What the task blocked on is over.                                       *)
LEMMA BlockedKeeps ==
  ASSUME Inv,
         \/ InviteFails \/ LinkAnswered \/ Send_UnlinkCmd
         \/ Invited \/ LinkStands \/ LinkBroken \/ LinkUnknown
  PROVE  Inv'
<1> USE DEF Inv, TypeOK, Messages, party, world, ReleasedWhenOver, NoneWithoutTimer
<1>1. CASE InviteFails
  <2>1. /\ queue' \in Seq(Messages) /\ Len(queue') <= QMax
        /\ server' \in IF role = "caller" THEN {"idle", "call", "bye"}
                                          ELSE {"idle", "ring", "talk", "bye"}
        /\ Contains(queue, "TIMEOVER") => Contains(queue', "TIMEOVER")
    BY <1>1, ServerAnswers DEF InviteFails
  <2>2. Switches'
    BY <1>1 DEF InviteFails, Switches
  <2> QED
    BY <1>1, <2>1, <2>2 DEF InviteFails
<1>2. CASE LinkAnswered \/ Send_UnlinkCmd
  <2>1. Switches'
    BY <1>2 DEF LinkAnswered, Send_UnlinkCmd, Switches
  <2> QED
    BY <1>2, <2>1 DEF LinkAnswered, Send_UnlinkCmd
<1>3. CASE Invited
  <2>1. Switches'
    BY <1>3 DEF Invited, Switches
  <2> QED
    BY <1>3, <2>1 DEF Invited, Busy
<1>4. CASE LinkStands \/ LinkBroken \/ LinkUnknown
  <2>1. Switches'
    BY <1>4 DEF LinkStands, LinkBroken, LinkUnknown, CheckEnds, Leave, Switches
  <2> QED
    BY <1>4, <2>1 DEF LinkStands, LinkBroken, LinkUnknown, CheckEnds, Leave, Quit
<1> QED
  BY <1>1, <1>2, <1>3, <1>4

(* The timer thread.                                                       *)
LEMMA TickKeeps ==
  ASSUME Inv, TickStep
  PROVE  Inv'
<1> USE DEF Inv, TypeOK, Messages, world, ReleasedWhenOver, NoneWithoutTimer
<1>1. CASE Timer_Callback
  <2>1. Older \in 0 .. 2 /\ Says \subseteq Ticks \cup {"none"}
    BY DEF Older, Says, Busy, Ticks
  <2>2. PICK m \in Says :
          /\ queue' = IF m # "none" /\ Len(queue) < QMax THEN Append(queue, m) ELSE queue
          /\ tick' = IF m = "TIMEOVER" /\ m # "none" /\ Len(queue) < QMax
                     THEN "stop" ELSE "retrigger"
    BY <1>1 DEF Timer_Callback
  <2>3. Switches'
    BY <1>1 DEF Timer_Callback, Switches
  <2>4. CASE m # "none" /\ Len(queue) < QMax
    <3>1. m \in Messages /\ queue' = Append(queue, m)
      BY <2>1, <2>2, <2>4
    <3>2. queue' \in Seq(Messages) /\ Len(queue') <= QMax /\ Contains(queue', m)
      <4>1. queue \in Seq(Messages) /\ Len(queue) \in Nat
        OBVIOUS
      <4>2. /\ queue' \in Seq(Messages) /\ Len(queue') = Len(queue) + 1
            /\ Contains(queue', m)
        BY <3>1, <4>1, PushKeeps DEF Messages
      <4> QED
        BY <2>4, <4>1, <4>2, BoundsAssumption
    <3>3. TypeOK' /\ ReleasedWhenOver'
      BY <1>1, <2>1, <2>2, <2>3, <3>2 DEF Timer_Callback
    <3>4. tick' = "retrigger" \/ Contains(queue', "TIMEOVER")
      BY <2>2, <3>2
    <3> QED
      BY <3>3, <3>4
  <2>5. CASE ~ (m # "none" /\ Len(queue) < QMax)
    BY <1>1, <2>1, <2>2, <2>3, <2>5 DEF Timer_Callback
  <2> QED
    BY <2>4, <2>5
<1>2. CASE CallbackStops \/ CallbackRetriggers
  <2>1. Switches'
    BY <1>2 DEF CallbackStops, CallbackRetriggers, CallbackEnds, Switches
  <2>2. TypeOK' /\ ReleasedWhenOver'
    BY <1>2, <2>1 DEF CallbackStops, CallbackRetriggers, CallbackEnds
  <2>3. NoneWithoutTimer'
    <3>1. CASE CallbackStops
      BY <3>1, Zenon DEF CallbackStops, CallbackEnds
    <3>2. CASE CallbackRetriggers
      BY <3>2, Zenon DEF CallbackRetriggers, CallbackEnds
    <3> QED
      BY <1>2, <3>1, <3>2
  <2> QED
    BY <2>2, <2>3
<1> QED
  BY <1>1, <1>2 DEF TickStep

(* What people and other gateways do.                                      *)
LEMMA WorldKeeps ==
  ASSUME Inv, \/ Dialled \/ Answered \/ Ended \/ Users \/ Released
              \/ PartnerTurns \/ Restart
  PROVE  Inv'
<1> USE DEF Inv, TypeOK, Messages, party, world, ReleasedWhenOver, NoneWithoutTimer
<1>1. CASE Dialled \/ Answered \/ Ended \/ Users \/ Released
  <2>1. Happens /\ \E event : API_CallServer_Common(event)
    BY <1>1 DEF Dialled, Answered, Ended, Users, Released, API_VtkUnicastCmd_Analyzer
  <2>2. /\ queue' \in Seq(Messages) /\ Len(queue') <= QMax
        /\ server' \in IF role = "caller" THEN {"idle", "call", "bye"}
                                          ELSE {"idle", "ring", "talk", "bye"}
        /\ Contains(queue, "TIMEOVER") => Contains(queue', "TIMEOVER")
    BY <2>1, ServerAnswers
  <2>3. Switches' /\ happened' \in 0 .. MaxEvents
    BY <2>1, BoundsAssumption DEF Happens, Switches
  <2> QED
    BY <2>1, <2>2, <2>3 DEF Happens
<1>2. CASE PartnerTurns
  <2>1. Switches'
    BY <1>2 DEF PartnerTurns, Switches
  <2> QED
    BY <1>2, <2>1 DEF PartnerTurns
<1>3. CASE Restart
  <2>1. Switches'
    BY <1>3 DEF Restart, Switches
  <2>2. queue' \in Seq(Messages) /\ Len(queue') <= QMax
    BY <1>3, BoundsAssumption DEF Restart
  <2> QED
    BY <1>3, <2>1, <2>2 DEF Restart
<1> QED
  BY <1>1, <1>2, <1>3

THEOREM InvInductive == Spec => []Inv
<1>1. Inv /\ UNCHANGED vars => Inv'
  BY DEF vars, party, world, Inv, TypeOK, Switches, ReleasedWhenOver, NoneWithoutTimer
<1>2. Inv /\ [Next]_vars => Inv'
  BY <1>1, ProcessKeeps, BlockedKeeps, TickKeeps, WorldKeeps DEF Next, TaskStep
<1> QED
  BY InvInit, <1>2, PTL DEF Spec

(* Every variable of the call keeps to its type (task_IpCaller.h,          *)
(* task_IpBeCalled.h), and no message is put in a full queue.              *)
THEOREM CallTypeCorrect == Spec => []TypeOK
  BY InvInductive, PTL DEF Inv

(* A party that waits or has hung up has its microphone off and its line   *)
(* shown as free, whatever the order its messages came in.                 *)
THEOREM ReleasedOnceOver == Spec => []ReleasedWhenOver
  BY InvInductive, PTL DEF Inv

(* A call always has something that ends it, though the timer thread and   *)
(* the task restart and stop one timer without a lock.                     *)
THEOREM AlwaysTimed == Spec => []NoneWithoutTimer
  BY InvInductive, PTL DEF Inv
=============================================================================
