---------------------------- MODULE McastServer ----------------------------
(***************************************************************************)
(* The camera side of the multicast video service of one gateway:          *)
(* video_multicast_server.c, subscriber_list.c, the calls it makes into    *)
(* ip_camera_control.c and ip_video_cs_control.c, and the capture          *)
(* controller (video_capture_controller.c, capture_procsee.c) it drives.   *)
(*                                                                         *)
(* Two threads of the service share the subscriber list.                   *)
(*   proc  server_recv_busines_anaylasis: takes one request at a time from *)
(*         the receive queue and blocks while its answer is acknowledged.  *)
(*   mon   server_userlist_monitor_process: every 100 ms it takes the list *)
(*         lock, ages every entry, and cancels the expired ones, keeping   *)
(*         the lock while it waits for the client (up to 7 s).             *)
(* A program counter says where each one is; a step runs up to the next    *)
(* blocking call or to the next access to state the other thread writes.   *)
(* The clients and the UDP stack are the environment: it queues requests,  *)
(* and it decides whether an answer is acknowledged in time.               *)
(***************************************************************************)
EXTENDS Integers, Sequences

CONSTANTS Clients,      \* IP addresses that may subscribe
          Devs,         \* camera ids a client may ask for
          Periods,      \* requested service times, in passes of the monitor
          MaxSubs,      \* MAX_SUBUSCRIBER_LIST_COUNT
          InboxMax,     \* requests the receive queue holds
          Copies,       \* times a client may get and answer one CANCEL_REQ
          NoDev         \* video_source_id before any request

ASSUME MaxSubsAssumption  == MaxSubs \in Nat \ {0}
ASSUME InboxMaxAssumption == InboxMax \in Nat \ {0}
ASSUME CopiesAssumption   == Copies \in Nat \ {0}
ASSUME PeriodsAssumption  == Periods \subseteq Nat
ASSUME NoDevAssumption    == NoDev \notin Devs

VARIABLES
  inbox,        \* rmsg_buf: requests acknowledged by the UDP stack
  cancelDue,    \* copies of CANCEL_RSP a client may still send
  proc,         \* thread proc: [at, msg]
  mon,          \* thread mon: [at, i], i the index its loop has reached
  userlist,     \* server_userlist.dat[0 .. counter-1]
  cs,           \* global_cs_state
  source,       \* video_source_id
  notice,       \* last VIDEO_SEVICE_NOTIFY_REMOTE_* sent to survey
  captureQ,     \* Q_VideoCaptureController
  capture       \* CaputureState

threads == <<proc, mon>>
video   == <<cs, source, notice>>
vars    == <<inbox, cancelDue, proc, mon, userlist, cs, source, notice,
             captureQ, capture>>

Requests == [cmd : {"SUBSCRIBE_REQ"}, ip : Clients, dev : Devs, time : Periods]
              \cup [cmd : {"DESUBSCRIBE_REQ", "CANCEL_RSP"}, ip : Clients]

(* dev is not a field of the code's list: it records what the client was   *)
(* promised.                                                               *)
Entries == [ip : Clients, dev : Devs, period : Periods, timer : Nat]

ProcPoints == {"wait", "apply", "on", "answer", "join", "joined", "register",
               "unregister", "count", "leave", "left", "notify"}
MonPoints  == {"sleep", "age", "cancel", "remove", "leave", "left", "notify"}

(* Between two requests proc has no message: it waits for the queue.       *)
Waiting == [at |-> "wait", msg |-> <<>>]

TypeOK == /\ inbox \in Seq(Requests)
          /\ cancelDue \in [Clients -> 0 .. Copies]
          /\ proc \in [at : ProcPoints \ {"wait"}, msg : Requests] \cup {Waiting}
          /\ mon.at \in MonPoints /\ mon.i \in Nat
          /\ userlist \in Seq(Entries) /\ Len(userlist) <= MaxSubs
          /\ cs \in {"VIDEO_CS_IDLE", "VIDEO_CS_SERVER"}
          /\ source \in Devs \cup {NoDev}
          /\ notice \in {"none", "ON", "OFF"}
          /\ captureQ \in Seq({"START", "STOP"}) /\ Len(captureQ) <= 2
          /\ capture \in {"IDLE", "START", "RUN"}

Init == /\ inbox = <<>>
        /\ cancelDue = [c \in Clients |-> 0]
        /\ proc = Waiting
        /\ mon = [at |-> "sleep", i |-> 1]
        /\ userlist = <<>>
        /\ cs = "VIDEO_CS_IDLE"
        /\ source = NoDev
        /\ notice = "none"
        /\ captureQ = <<>>
        /\ capture = "IDLE"

(* mon has server_userlist.lock through all of a pass; proc only inside a  *)
(* list function, never across two steps.                                  *)
LockFree == mon.at = "sleep"

Listed(ip)   == \E k \in DOMAIN userlist : userlist[k].ip = ip
IndexOf(ip)  == CHOOSE k \in DOMAIN userlist : userlist[k].ip = ip
SwapRemove(k) == [j \in 1 .. Len(userlist) - 1 |->
                    userlist[IF j = k THEN Len(userlist) ELSE j]]
-----------------------------------------------------------------------------
(* The environment: a request reaches the receive queue.                   *)
Receive(m) == /\ Len(inbox) < InboxMax
              /\ inbox' = Append(inbox, m)

Request(m) == /\ m.cmd # "CANCEL_RSP"
              /\ Receive(m)
              /\ UNCHANGED <<cancelDue, threads, userlist, video, captureQ, capture>>

(* The UDP stack may send the CANCEL_REQ again, and a client answers every *)
(* copy it gets, some of them late.                                        *)
CancelRsp(c) == /\ cancelDue[c] > 0
                /\ cancelDue' = [cancelDue EXCEPT ![c] = @ - 1]
                /\ Receive([cmd |-> "CANCEL_RSP", ip |-> c])
                /\ UNCHANGED <<threads, userlist, video, captureQ, capture>>
-----------------------------------------------------------------------------
(* The capture controller task and the encoder thread it creates.  An      *)
(* encoder that fails to open the device goes back to idle.                *)
EnableCapture == /\ Head(captureQ) = "START"
                 /\ capture' = IF capture = "IDLE" THEN "START" ELSE capture

DisableCapture == /\ Head(captureQ) = "STOP"
                  /\ capture' = IF capture = "RUN" THEN "IDLE" ELSE capture

VideoCaptureController == /\ captureQ # <<>>
                          /\ captureQ' = Tail(captureQ)
                          /\ EnableCapture \/ DisableCapture
                          /\ UNCHANGED <<inbox, cancelDue, threads, userlist, video>>

EncoderOpens == /\ capture = "START"
                /\ capture' \in {"RUN", "IDLE"}
                /\ UNCHANGED <<inbox, cancelDue, threads, userlist, video, captureQ>>

(* API_ToMulticastJoin and API_ToMulticastLeave queue a command; the one   *)
(* second the caller then sleeps is taken to be enough for the controller  *)
(* and the encoder to have dealt with it.                                  *)
ToMulticast(cmd) == captureQ' = Append(captureQ, cmd) /\ UNCHANGED capture
Settled          == captureQ = <<>> /\ capture # "START"
-----------------------------------------------------------------------------
(* Thread proc.                                                            *)
ProcGoes(to) == proc' = IF to = "wait" THEN Waiting ELSE [proc EXCEPT !.at = to]

(* A DESUBSCRIBE_REQ is answered first, and the result ignored: all that   *)
(* can be seen of the answer is the time it takes.                         *)
FirstPoint(cmd) == IF cmd = "SUBSCRIBE_REQ" THEN "apply" ELSE "unregister"

Take == /\ proc.at = "wait" /\ inbox # <<>>
        /\ proc' = [at |-> FirstPoint(Head(inbox).cmd), msg |-> Head(inbox)]
        /\ inbox' = Tail(inbox)
        /\ UNCHANGED <<cancelDue, mon, userlist, video, captureQ, capture>>

(* api_video_s_service_start_apply, on a gateway that only serves: the     *)
(* first client turns the service on, others must ask for its camera.  The *)
(* result of a DISABLE answer is ignored: back to the queue.               *)
StartApply ==
    /\ proc.at = "apply"
    /\ \/ /\ cs = "VIDEO_CS_IDLE"
          /\ cs' = "VIDEO_CS_SERVER"
          /\ source' = proc.msg.dev
          /\ ProcGoes("on")
       \/ /\ cs = "VIDEO_CS_SERVER"
          /\ ProcGoes(IF source = proc.msg.dev THEN "answer" ELSE "wait")
          /\ UNCHANGED <<cs, source>>
    /\ UNCHANGED <<inbox, cancelDue, mon, userlist, notice, captureQ, capture>>

NotifyOn == /\ proc.at = "on"
            /\ notice' = "ON"
            /\ ProcGoes("answer")
            /\ UNCHANGED <<inbox, cancelDue, mon, userlist, cs, source, captureQ, capture>>

(* The ENABLE answer: acknowledged within 5 s, or not.                     *)
SubscribeRsp(acked) ==
    /\ proc.at = "answer"
    /\ ProcGoes(IF acked THEN "join" ELSE "wait")
    /\ UNCHANGED <<inbox, cancelDue, mon, userlist, video, captureQ, capture>>

(* api_enable_video_server_multicast.                                      *)
EnableMulticast == /\ proc.at = "join"
                   /\ ToMulticast("START")
                   /\ ProcGoes("joined")
                   /\ UNCHANGED <<inbox, cancelDue, mon, userlist, video>>

MulticastEnabled == /\ proc.at = "joined" /\ Settled
                    /\ ProcGoes("register")
                    /\ UNCHANGED <<inbox, cancelDue, mon, userlist, video, captureQ, capture>>

(* Seeded fault: does not look for the client in the list.                 *)
activate_unchecked ==
    /\ proc.at = "register" /\ LockFree
    /\ userlist' = IF Len(userlist) >= MaxSubs THEN userlist
                   ELSE Append(userlist, [ip |-> proc.msg.ip, dev |-> proc.msg.dev,
                                          period |-> proc.msg.time, timer |-> 0])
    /\ ProcGoes("wait")
    /\ UNCHANGED <<inbox, cancelDue, mon, video, captureQ, capture>>

(* Seeded fault: does not take the list lock.                              *)
activate_unlocked ==
    /\ proc.at = "register"
    /\ userlist' = IF Len(userlist) >= MaxSubs \/ Listed(proc.msg.ip) THEN userlist
                   ELSE Append(userlist, [ip |-> proc.msg.ip, dev |-> proc.msg.dev,
                                          period |-> proc.msg.time, timer |-> 0])
    /\ ProcGoes("wait")
    /\ UNCHANGED <<inbox, cancelDue, mon, video, captureQ, capture>>

(* A full list or a client already in it is not an error to the caller,    *)
(* and a repeated subscription does not renew the entry.                   *)
activate_subscriber_list ==
    /\ proc.at = "register" /\ LockFree
    /\ userlist' = IF Len(userlist) >= MaxSubs \/ Listed(proc.msg.ip) THEN userlist
                   ELSE Append(userlist, [ip |-> proc.msg.ip, dev |-> proc.msg.dev,
                                          period |-> proc.msg.time, timer |-> 0])
    /\ ProcGoes("wait")
    /\ UNCHANGED <<inbox, cancelDue, mon, video, captureQ, capture>>

deactivate_subscriber_list ==
    /\ proc.at = "unregister" /\ LockFree
    /\ userlist' = IF Listed(proc.msg.ip) THEN SwapRemove(IndexOf(proc.msg.ip))
                   ELSE userlist
    /\ ProcGoes("count")
    /\ UNCHANGED <<inbox, cancelDue, mon, video, captureQ, capture>>

get_total_subscriber_list ==
    /\ proc.at = "count" /\ LockFree
    /\ ProcGoes(IF userlist = <<>> THEN "leave" ELSE "wait")
    /\ UNCHANGED <<inbox, cancelDue, mon, userlist, video, captureQ, capture>>

(* api_disable_video_server_multicast as either thread runs it, from its   *)
(* point `at` to its point `to`.                                           *)
DisableMulticast(at, to) ==
    \/ /\ at = "leave" /\ to = "left"
       /\ ToMulticast("STOP")
       /\ UNCHANGED video
    \/ /\ at = "left" /\ to = "notify"
       /\ Settled
       /\ cs' = "VIDEO_CS_IDLE"
       /\ UNCHANGED <<source, notice, captureQ, capture>>
    \/ /\ at = "notify" /\ to = "done"
       /\ notice' = "OFF"
       /\ UNCHANGED <<cs, source, captureQ, capture>>

ProcDisables == \E to \in {"left", "notify", "done"} :
                  /\ DisableMulticast(proc.at, to)
                  /\ ProcGoes(IF to = "done" THEN "wait" ELSE to)
                  /\ UNCHANGED <<inbox, cancelDue, mon, userlist>>

ProcStep == \/ Take \/ StartApply \/ NotifyOn
            \/ \E acked \in BOOLEAN : SubscribeRsp(acked)
            \/ EnableMulticast \/ MulticastEnabled \/ activate_subscriber_list
            \/ deactivate_subscriber_list \/ get_total_subscriber_list
            \/ ProcDisables
-----------------------------------------------------------------------------
(* Thread mon.  The index i counts from 1.                                 *)
MonGoes(at, i) == mon' = [at |-> at, i |-> i]

MonWakes == /\ mon.at = "sleep"
            /\ MonGoes("age", 1)
            /\ UNCHANGED <<inbox, cancelDue, proc, userlist, video, captureQ, capture>>

(* The end of the for loop releases the lock.                              *)
MonSleeps == /\ mon.at = "age" /\ mon.i > Len(userlist)
             /\ MonGoes("sleep", 1)
             /\ UNCHANGED <<inbox, cancelDue, proc, userlist, video, captureQ, capture>>

(* Seeded fault: an entry that expires is only reset.                      *)
AgeResets ==
    /\ mon.at = "age" /\ mon.i <= Len(userlist)
    /\ LET e == userlist[mon.i] IN
         userlist' = [userlist EXCEPT ![mon.i].timer =
                        IF e.timer + 1 >= e.period THEN 0 ELSE e.timer + 1]
    /\ MonGoes("age", mon.i + 1)
    /\ UNCHANGED <<inbox, cancelDue, proc, video, captureQ, capture>>

Age == /\ mon.at = "age" /\ mon.i <= Len(userlist)
       /\ LET e == userlist[mon.i] IN
            IF e.timer + 1 >= e.period
            THEN /\ userlist' = [userlist EXCEPT ![mon.i].timer = 0]
                 /\ MonGoes("cancel", mon.i)
            ELSE /\ userlist' = [userlist EXCEPT ![mon.i].timer = e.timer + 1]
                 /\ MonGoes("age", mon.i + 1)
       /\ UNCHANGED <<inbox, cancelDue, proc, video, captureQ, capture>>

(* api_one_video_server_cancel_req: sent, then acknowledged and answered,  *)
(* or not; whatever it returns is ignored.                                 *)
Cancel == /\ mon.at = "cancel"
          /\ cancelDue' = [cancelDue EXCEPT ![userlist[mon.i].ip] = Copies]
          /\ MonGoes("remove", mon.i)
          /\ UNCHANGED <<inbox, proc, userlist, video, captureQ, capture>>

(* Seeded fault: does not close the service when the list has emptied.     *)
RemoveQuiet ==
    /\ mon.at = "remove"
    /\ userlist' = SwapRemove(mon.i)
    /\ MonGoes("age", mon.i + 1)
    /\ UNCHANGED <<inbox, cancelDue, proc, video, captureQ, capture>>

(* The last entry moves to index i, and the loop goes on behind it.        *)
Remove == /\ mon.at = "remove"
          /\ userlist' = SwapRemove(mon.i)
          /\ IF userlist' = <<>> THEN MonGoes("leave", mon.i)
             ELSE MonGoes("age", mon.i + 1)
          /\ UNCHANGED <<inbox, cancelDue, proc, video, captureQ, capture>>

MonDisables == \E to \in {"left", "notify", "done"} :
                 /\ DisableMulticast(mon.at, to)
                 /\ IF to = "done" THEN MonGoes("age", mon.i + 1) ELSE MonGoes(to, mon.i)
                 /\ UNCHANGED <<inbox, cancelDue, proc, userlist>>

MonStep == MonWakes \/ MonSleeps \/ Age \/ Cancel \/ Remove \/ MonDisables
-----------------------------------------------------------------------------
CaptureStep == VideoCaptureController \/ EncoderOpens

Next == \/ \E m \in Requests : Request(m)
        \/ \E c \in Clients : CancelRsp(c)
        \/ ProcStep \/ MonStep \/ CaptureStep

(* The threads and the capture tasks never stop; clients may.  proc may    *)
(* find the lock taken, but mon releases it for 100 ms in every pass.      *)
Spec == /\ Init /\ [][Next]_vars
        /\ SF_vars(ProcStep) /\ WF_vars(MonStep) /\ WF_vars(CaptureStep)
-----------------------------------------------------------------------------
(* No client is listed twice: the check and the append run under one lock. *)
NoDuplicateSubscriber ==
    \A j, k \in DOMAIN userlist : userlist[j].ip = userlist[k].ip => j = k

(* Either thread may close the service, and only with nobody left in the   *)
(* list (ip_camera_control.c:149): the list cannot fill between the check  *)
(* and the close notice, because mon keeps the lock and only proc adds.    *)
ClosesOnlyWhenEmpty ==
    [][cs = "VIDEO_CS_SERVER" /\ cs' = "VIDEO_CS_IDLE" => userlist = <<>>]_vars

(* Nobody stays for ever: every entry leaves the list, although the entry  *)
(* that takes an expired one's place misses that pass of the monitor.      *)
EverySubscriptionEnds ==
    \A c \in Clients : Listed(c) ~> ~Listed(c)

(* When clients stop subscribing the camera stops streaming, however the   *)
(* two threads' joins and leaves were queued.                              *)
StreamStops ==
    <>[][\A m \in Requests : m.cmd = "SUBSCRIBE_REQ" => ~Request(m)]_vars
      => <>[](capture = "IDLE")
=============================================================================
