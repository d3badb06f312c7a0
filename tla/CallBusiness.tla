---------------------------- MODULE CallBusiness ----------------------------
(***************************************************************************)
(* One party of a call between two gateways: task_IpCaller or              *)
(* task_IpBeCalled, the unicast command analyzer that hears the partner,   *)
(* the call link other gateways ask about, and the call's timer.           *)
(*                                                                         *)
(* The task takes messages from its queue one at a time.  They come from   *)
(* two sides: from the call server (a controller behind the serial line,   *)
(* told of every event, that decides) and from the timer thread, which     *)
(* reads the task's state, pushes a message and stops or restarts the      *)
(* timer, all without a lock.  The task blocks while it asks the partner   *)
(* for its call link, has it released, or dials; a state notice is taken   *)
(* to be out as soon as it is sent.                                        *)
(*                                                                         *)
(* The partner is the one gateway this one calls or is called by, so the   *)
(* addresses the code compares always agree.  It shows a call or none, and *)
(* its commands come at any time, those it sends in a call also late.      *)
(***************************************************************************)
EXTENDS Naturals, Sequences, SequencesExt

CONSTANTS QMax,     \* messages the task's queue holds
          MaxEvents \* bound on what people and other gateways do

ASSUME BoundsAssumption == QMax \in Nat \ {0} /\ MaxEvents \in Nat

VARIABLES
  role,       \* which of the two tasks: never changes
  state,      \* Caller_Run.state, BeCalled_Run.state
  timer, age, \* timer_caller: running; Caller_Run.timer: 0 to 3 s, more, the limit
  failed,     \* checklink_error
  link,       \* IP_Call_Link_Run.Status
  analyze,    \* VtkUnicastCmdAnalyze_Run.state says caller (called party)
  talk,       \* API_talk_on_by_unicast, API_talk_off
  stray,      \* ghost: a timer started since the push was stopped
  queue, at,  \* the task's messages, and what it blocks on
  tick,       \* the timer thread: between its push and what follows it
  server,     \* the call server: what it takes this party to do
  partner,    \* the partner shows a call
  happened    \* events from outside

party == <<state, timer, age, failed, link, analyze, talk, stray>>
world == <<partner, happened>>
vars  == <<role, party, queue, at, tick, server, world>>

Busy   == {"INVITE", "RINGING", "ACK", "BYE"}
Orders == {"INVITE", "RINGING", "ACK", "BYE", "CANCEL", "ERROR", "FORCECLOSE"}
Ticks  == {"TIMEOVER", "CHECKLINK"}

Switches == /\ timer \in BOOLEAN /\ analyze \in BOOLEAN /\ talk \in BOOLEAN
            /\ stray \in BOOLEAN /\ partner \in BOOLEAN

TypeOK ==
  /\ role \in {"caller", "called"}
  /\ state \in Busy \cup {"WAITING"} /\ (role = "called" => state # "INVITE")
  /\ Switches
  /\ age \in 0 .. 2 /\ failed \in 0 .. 1
  /\ link \in {"Idle", "AsCallServer"}
  /\ queue \in Seq(Orders \cup Ticks) /\ Len(queue) <= QMax
  /\ at \in {"idle", "check", "link", "unlink", "dial"}
  /\ at \in {"link", "unlink", "dial"} => role = "caller" /\ state = "INVITE"
  /\ tick \in {"idle", "stop", "retrigger"}
  /\ server \in IF role = "caller" THEN {"idle", "call", "bye"}
                                   ELSE {"idle", "ring", "talk", "bye"}
  /\ happened \in 0 .. MaxEvents

Rest == /\ state = "WAITING" /\ timer = FALSE /\ age = 0 /\ failed = 0
        /\ link = "Idle" /\ analyze = FALSE /\ talk = FALSE /\ stray = FALSE
        /\ queue = <<>> /\ at = "idle" /\ tick = "idle" /\ server = "idle"

Init == role \in {"caller", "called"} /\ Rest /\ partner = FALSE /\ happened = 0
-----------------------------------------------------------------------------
(* The call server: what it makes of an event, and the order it sends.     *)
Rule(event, from, next, order) ==
  [event |-> event, from |-> from, next |-> next, order |-> order]

Rules ==
  [caller |->
     {Rule("Dial",        {"idle"},        "call", <<"INVITE">>),
      Rule("Cancel",      {"call"},        "bye",  <<"CANCEL">>),
      Rule("InviteOk",    {"call"},        "call", <<"RINGING">>),
      Rule("InviteFail",  {"call", "bye"}, "idle", <<"ERROR">>),
      Rule("Offhook",     {"call"},        "call", <<"ACK">>),
      Rule("PartnerBye",  {"call", "bye"}, "idle", <<"BYE">>),
      Rule("NoticeAckOk", {"bye"},         "idle", <<"ACK">>),
      Rule("Unlink",      {"call", "bye"}, "idle", <<"FORCECLOSE">>)},
   called |->
     {Rule("StartCall",   {"idle", "ring"},        "ring", <<"INVITE">>),
      Rule("StartCall",   {"idle"},                "idle", <<"ERROR">>),
      Rule("PickUp",      {"ring"},                "talk", <<"ACK">>),
      Rule("HangUp",      {"ring", "talk"},        "bye",  <<"BYE">>),
      Rule("PartnerBye",  {"ring", "talk", "bye"}, "idle", <<"CANCEL">>),
      Rule("NoticeAckOk", {"bye"},                 "idle", <<"ACK">>),
      Rule("Unlink",      {"ring", "talk", "bye"}, "idle", <<"FORCECLOSE">>)}]

(* API_CallServer_Common.  The server is told of an event at once, and its *)
(* order is in the task's queue at once, or lost if there is no room: the  *)
(* serial line and the survey task between them are left out.  An event    *)
(* the server has no rule for is ignored.                                  *)
API_CallServer_Common(event) ==
  LET rules == {r \in Rules[role] : r.event = event /\ server \in r.from} IN
  \/ \E r \in rules : /\ server' = r.next
                      /\ queue' = IF Len(queue) < QMax THEN queue \o r.order ELSE queue
  \/ rules = {} /\ UNCHANGED <<server, queue>>

(* The task has ended the call by itself: the server gives no order then.  *)
Quit == server' = "idle"
-----------------------------------------------------------------------------
(* The transitions of the task.  Enter starts the timer of the state it    *)
(* goes to; Leave releases whatever the call held.                         *)
Enter(s) == state' = s /\ timer' = TRUE /\ age' = 0 /\ stray' = FALSE

(* Seeded fault: the call ends, its link stays.                            *)
LeaveLinked == /\ state' = "WAITING" /\ timer' = FALSE /\ age' = 0 /\ talk' = FALSE
               /\ UNCHANGED <<failed, link, analyze, stray>>

Leave == /\ state' = "WAITING" /\ timer' = FALSE /\ age' = 0
         /\ link' = "Idle" /\ talk' = FALSE
         /\ UNCHANGED <<failed, analyze, stray>>

Rests    == Leave /\ UNCHANGED <<at, server>>
GivesUp  == Leave /\ Quit /\ UNCHANGED at
Asks     == /\ at' = IF state \in {"RINGING", "ACK"} /\ age > 0 THEN "check" ELSE at
            /\ UNCHANGED <<party, server>>
Ignores  == UNCHANGED <<party, at, server>>

(* The callbacks of a unicast call: what a transition does besides the     *)
(* state and the timer, or all it does.                                    *)
Callback_Caller_ToInvite  == at' = "link" /\ UNCHANGED <<failed, link, analyze, talk, server>>
Callback_Caller_ToRinging == UNCHANGED <<failed, link, analyze, talk, at, server>>
Callback_Caller_ToAck     == talk' = TRUE /\ UNCHANGED <<failed, link, analyze, at, server>>
Callback_Caller_ToBye     == /\ talk' = FALSE /\ link' = "Idle"
                             /\ UNCHANGED <<failed, analyze, at, server>>
Callback_Caller_ToTimeout(m) == IF m = "TIMEOVER" THEN GivesUp ELSE Asks
Callback_Caller_ToError      == IF state = "WAITING" THEN Ignores ELSE Rests
Callback_Caller_ToForceClose == Rests

Callback_BeCalled_ToRinging == /\ analyze' = TRUE /\ link' = "AsCallServer" /\ failed' = 0
                               /\ UNCHANGED <<talk, at, server>>
Callback_BeCalled_ToAck == talk' = TRUE /\ UNCHANGED <<failed, link, analyze, at, server>>
Callback_BeCalled_ToBye == /\ talk' = FALSE /\ link' = "Idle"
                           /\ UNCHANGED <<failed, analyze, at, server>>
Callback_BeCalled_ToTimeout(m) == IF m = "TIMEOVER" THEN GivesUp ELSE Asks
Callback_BeCalled_ToForceClose == Rests

(* The transitions.  The errors of a caller, and a forced end, find        *)
(* nothing to do when it waits; its timer may still run.                   *)
Caller_To_Invite  == Enter("INVITE") /\ Callback_Caller_ToInvite
Caller_To_Ringing == Enter("RINGING") /\ Callback_Caller_ToRinging
Caller_To_Ack     == Enter("ACK") /\ Callback_Caller_ToAck
Caller_To_Bye     == Enter("BYE") /\ Callback_Caller_ToBye
Caller_To_Waiting == Rests
Caller_To_Timeout(m) == Callback_Caller_ToTimeout(m)
Caller_To_Error      == Callback_Caller_ToError
Caller_To_ForceClose == IF state = "WAITING" THEN Ignores ELSE Callback_Caller_ToForceClose

(* A cancel that finds the caller waiting is confirmed to the server; the  *)
(* order that follows finds it waiting too.                                *)
CancelWaiting == Quit /\ UNCHANGED <<party, at>>

BeCalled_To_Ringing == Enter("RINGING") /\ Callback_BeCalled_ToRinging
BeCalled_To_Ack     == Enter("ACK") /\ Callback_BeCalled_ToAck
BeCalled_To_Bye     == Enter("BYE") /\ Callback_BeCalled_ToBye
BeCalled_To_Waiting == Rests
BeCalled_To_Timeout(m) == Callback_BeCalled_ToTimeout(m)
(* The error is an invitation to be refused, whatever the state.           *)
BeCalled_To_Error      == Rests
BeCalled_To_ForceClose == IF state = "WAITING" THEN Ignores ELSE Callback_BeCalled_ToForceClose

(* Which message does what in which state.                                 *)
Caller_Waiting_Process(m) ==
  CASE m = "INVITE" -> Caller_To_Invite
    [] m = "CANCEL" -> CancelWaiting
    [] OTHER        -> Ignores

Caller_Invite_Process(m) ==
  CASE m = "RINGING" -> Caller_To_Ringing
    [] m = "ACK"     -> Caller_To_Ack
    [] m = "BYE"     -> Caller_To_Waiting
    [] m = "CANCEL"  -> Caller_To_Bye
    [] m \in Ticks   -> Caller_To_Timeout(m)
    [] OTHER         -> Ignores

Caller_Ringing_Process(m) ==
  CASE m = "ACK"     -> Caller_To_Ack
    [] m = "BYE"     -> Caller_To_Waiting
    [] m = "CANCEL"  -> Caller_To_Bye
    [] m \in Ticks   -> Caller_To_Timeout(m)
    [] OTHER         -> Ignores

Caller_Ack_Process(m) ==
  CASE m = "RINGING" -> Caller_To_Ringing
    [] m = "BYE"     -> Caller_To_Waiting
    [] m = "CANCEL"  -> Caller_To_Bye
    [] m \in Ticks   -> Caller_To_Timeout(m)
    [] OTHER         -> Ignores

Caller_Bye_Process(m) ==
  CASE m \in {"ACK", "BYE"} -> Caller_To_Waiting
    [] m \in Ticks          -> Caller_To_Timeout(m)
    [] OTHER                -> Ignores

vtk_TaskProcessEvent_Caller(m) ==
  CASE m = "ERROR"         -> Caller_To_Error
    [] m = "FORCECLOSE"    -> Caller_To_ForceClose
    [] state = "WAITING"   -> Caller_Waiting_Process(m)
    [] state = "INVITE"    -> Caller_Invite_Process(m)
    [] state = "RINGING"   -> Caller_Ringing_Process(m)
    [] state = "ACK"       -> Caller_Ack_Process(m)
    [] state = "BYE"       -> Caller_Bye_Process(m)

BeCalled_Waiting_Process(m) == IF m = "INVITE" THEN BeCalled_To_Ringing ELSE Ignores

BeCalled_Ringing_Process(m) ==
  CASE m = "INVITE" -> BeCalled_To_Ringing
    [] m = "ACK"    -> BeCalled_To_Ack
    [] m = "BYE"    -> BeCalled_To_Bye
    [] m = "CANCEL" -> BeCalled_To_Waiting
    [] m \in Ticks  -> BeCalled_To_Timeout(m)
    [] OTHER        -> Ignores

BeCalled_Ack_Process(m) ==
  CASE m = "ACK"    -> BeCalled_To_Ack
    [] m = "BYE"    -> BeCalled_To_Bye
    [] m = "CANCEL" -> BeCalled_To_Waiting
    [] m \in Ticks  -> BeCalled_To_Timeout(m)
    [] OTHER        -> Ignores

BeCalled_Bye_Process(m) ==
  CASE m \in {"ACK", "CANCEL"} -> BeCalled_To_Waiting
    [] m \in Ticks             -> BeCalled_To_Timeout(m)
    [] OTHER                   -> Ignores

vtk_TaskProcessEvent_BeCalled(m) ==
  CASE m = "ERROR"       -> BeCalled_To_Error
    [] m = "FORCECLOSE"  -> BeCalled_To_ForceClose
    [] state = "WAITING" -> BeCalled_Waiting_Process(m)
    [] state = "RINGING" -> BeCalled_Ringing_Process(m)
    [] state = "ACK"     -> BeCalled_Ack_Process(m)
    [] state = "BYE"     -> BeCalled_Bye_Process(m)

vtk_TaskProcessEvent ==
  /\ at = "idle" /\ queue # <<>>
  /\ queue' = Tail(queue)
  /\ IF role = "caller" THEN vtk_TaskProcessEvent_Caller(Head(queue))
                        ELSE vtk_TaskProcessEvent_BeCalled(Head(queue))
  /\ UNCHANGED <<role, tick, world>>
-----------------------------------------------------------------------------
(* What the task does when what it blocked on is over.  An invitation that *)
(* fails is given up, and the state stays INVITE.                          *)
InviteFails == /\ at \in {"link", "unlink", "dial"} /\ at' = "idle"
               /\ API_CallServer_Common("InviteFail")
               /\ UNCHANGED <<role, party, tick, world>>

LinkAnswered == /\ at = "link" /\ at' = IF partner THEN "unlink" ELSE "dial"
                /\ UNCHANGED <<role, party, queue, tick, server, world>>

(* The partner has its call ended, whoever it is with.                     *)
Send_UnlinkCmd == /\ at = "unlink" /\ at' = "dial"
                  /\ partner' = FALSE
                  /\ UNCHANGED <<role, party, queue, tick, server, happened>>

(* Answers of the partner are only listened to from here on.               *)
Invited == /\ at = "dial" /\ at' = "idle"
           /\ analyze' = TRUE /\ link' = "AsCallServer" /\ failed' = 0
           /\ UNCHANGED <<role, state, timer, age, talk, stray, queue, tick, server, world>>

CheckEnds == at = "check" /\ at' = "idle" /\ UNCHANGED <<role, queue, tick, world>>

LinkStands == /\ CheckEnds /\ partner
              /\ failed' = 0
              /\ UNCHANGED <<state, timer, age, link, analyze, talk, stray, server>>

(* Seeded fault: a partner that has no call is taken for one that has.     *)
LinkBrokenIgnored == CheckEnds /\ ~ partner /\ UNCHANGED <<party, server>>

LinkBroken == CheckEnds /\ ~ partner /\ Leave /\ Quit

(* No answer: the second time in a row ends the call.                      *)
LinkUnknown == /\ CheckEnds
               /\ IF failed = 1
                  THEN Leave /\ Quit
                  ELSE /\ failed' = 1
                       /\ UNCHANGED <<state, timer, age, link, analyze, talk, stray, server>>

TaskStep == vtk_TaskProcessEvent \/ InviteFails \/ LinkAnswered \/ Send_UnlinkCmd
              \/ Invited \/ LinkStands \/ LinkBroken \/ LinkUnknown
-----------------------------------------------------------------------------
(* The timer thread.  The timer has stopped itself when it calls back.     *)
(* Three calls stand for the seconds of a state: an invitation and a       *)
(* hang-up reach their limit with the second; ringing and talking check    *)
(* the link each time, and may reach theirs (1000 s) from the third on.  A *)
(* timer that runs on while its task waits is over at once.                *)
Older == IF age = 2 THEN 2 ELSE age + 1

(* Seeded fault: a hang-up has no limit.                                   *)
SaysNothingInBye ==
  CASE state = "WAITING"             -> {"TIMEOVER"}
    [] state = "BYE"                 -> {"none"}
    [] state = "INVITE"              -> {IF Older = 2 THEN "TIMEOVER" ELSE "none"}
    [] state \in {"RINGING", "ACK"}  -> {"CHECKLINK", "TIMEOVER"}

Says == CASE state = "WAITING"                        -> {"TIMEOVER"}
          [] state \in {"INVITE", "BYE"}              -> {IF Older = 2 THEN "TIMEOVER" ELSE "none"}
          [] state \in {"RINGING", "ACK"} /\ age < 2  -> {"CHECKLINK"}
          [] state \in {"RINGING", "ACK"} /\ age = 2  -> {"CHECKLINK", "TIMEOVER"}

(* Seeded fault: no second attempt when the queue was full.                *)
Timer_CallbackOnce ==
  /\ tick = "idle" /\ timer
  /\ timer' = FALSE /\ age' = Older
  /\ \E m \in Says :
       LET fits == m # "none" /\ Len(queue) < QMax IN
       /\ queue' = IF fits THEN Append(queue, m) ELSE queue
       /\ tick' = IF m = "TIMEOVER" THEN "stop" ELSE "retrigger"
  /\ UNCHANGED <<role, state, failed, link, analyze, talk, stray, at, server, world>>

Timer_Callback ==
  /\ tick = "idle" /\ timer
  /\ timer' = FALSE /\ age' = Older
  /\ \E m \in Says :
       LET fits == m # "none" /\ Len(queue) < QMax IN
       /\ queue' = IF fits THEN Append(queue, m) ELSE queue
       /\ tick' = IF m = "TIMEOVER" /\ fits THEN "stop" ELSE "retrigger"
  /\ UNCHANGED <<role, state, failed, link, analyze, talk, stray, at, server, world>>

CallbackEnds(running) ==
  /\ tick' = "idle" /\ timer' = running
  /\ UNCHANGED <<role, state, age, failed, link, analyze, talk, queue, at, server, world>>

CallbackStops == tick = "stop" /\ CallbackEnds(FALSE) /\ stray' = (stray \/ timer)
CallbackRetriggers == tick = "retrigger" /\ CallbackEnds(TRUE) /\ UNCHANGED stray

TickStep == Timer_Callback \/ CallbackStops \/ CallbackRetriggers
-----------------------------------------------------------------------------
(* The event the analyzer makes of a command: of a party it does not take  *)
(* its gateway for, it hears nothing but DIAL.                             *)
API_VtkUnicastCmd_Analyzer(event) ==
  /\ event = "StartCall" \/ analyze
  /\ API_CallServer_Common(event)

Happens == /\ happened < MaxEvents /\ happened' = happened + 1
           /\ UNCHANGED <<role, party, at, tick, partner>>

(* Commands of the partner, which may come late or twice.                  *)
Dialled  == Happens /\ role = "called" /\ API_VtkUnicastCmd_Analyzer("StartCall")
Answered == Happens /\ role = "caller" /\ \E event \in {"InviteOk", "Offhook"} :
                                            API_VtkUnicastCmd_Analyzer(event)
Ended    == Happens /\ \E event \in {"PartnerBye", "NoticeAckOk"} :
                         API_VtkUnicastCmd_Analyzer(event)

(* What people do, and gateways that want this one's line.                 *)
Users    == Happens /\ \E event \in {"Dial", "Cancel", "PickUp", "HangUp"} :
                         API_CallServer_Common(event)
Released == Happens /\ API_CallServer_Common("Unlink")

(* The partner takes up a call, or has none any more.                      *)
PartnerTurns == /\ partner' = ~ partner
                /\ UNCHANGED <<role, party, queue, at, tick, server, happened>>

Restart == /\ state # "WAITING"
           /\ state' = "WAITING" /\ timer' = FALSE /\ age' = 0 /\ failed' = 0
           /\ link' = "Idle" /\ analyze' = FALSE /\ talk' = FALSE /\ stray' = FALSE
           /\ queue' = <<>> /\ at' = "idle" /\ tick' = "idle" /\ server' = "idle"
           /\ UNCHANGED <<role, world>>

Next == \/ TaskStep \/ TickStep
        \/ Dialled \/ Answered \/ Ended \/ Users \/ Released
        \/ PartnerTurns \/ Restart

(* The gateway's threads run; nobody else need do anything.                *)
Fairness == WF_vars(TaskStep) /\ WF_vars(TickStep)

Spec == Init /\ [][Next]_vars /\ Fairness
-----------------------------------------------------------------------------
(* A party that waits, or has hung up, holds nothing of its call: its      *)
(* microphone is off, and its line is not shown to be in use, so that      *)
(* nobody has it released and nobody takes it for the partner of a call    *)
(* that goes on.                                                           *)
ReleasedWhenOver == state \in {"WAITING", "BYE"} => ~ talk /\ link = "Idle"

(* No call is left without something that ends it: its timer runs, or the  *)
(* timer thread is about to start it, or its end is in the queue - unless  *)
(* the thread, late, stopped a timer that had been started again since.    *)
NoneWithoutTimer ==
  state # "WAITING" => timer \/ stray \/ tick = "retrigger" \/ Contains(queue, "TIMEOVER")

(* An invitation nobody answers, and a hang-up nobody confirms, end.       *)
Unanswered   == state \in {"INVITE", "BYE"} /\ ~ stray
CallsTimeOut == Unanswered ~> ~ Unanswered

(* A party does not ring or talk for ever when its partner has no call any *)
(* more, whatever was lost between them: the link check finds out.         *)
NobodyTalksAlone ==
  <>[](~ partner /\ ~ stray) => []<>(state \notin {"RINGING", "ACK"})
=============================================================================
