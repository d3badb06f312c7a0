----------------------------- MODULE VideoClient -----------------------------
(***************************************************************************)
(* The watching side of the multicast video service of one gateway:        *)
(* video_multicast_client.c, the calls of ip_video_control.c and           *)
(* ip_video_cs_control.c above it, and the monitor (task_monitor.c) that   *)
(* makes them.                                                             *)
(*                                                                         *)
(* Two threads share the state of the client without any lock.             *)
(*   user  opens and closes the monitor: it asks a server for its video,   *)
(*         and waits for the ACK and for the answer of each request.       *)
(*   recv  client_recv_busines_anaylasis: takes one message of a server at *)
(*         a time, and blocks while it closes the display or waits for the *)
(*         ACK of its own answer.                                          *)
(* A step runs up to the next access to state that the other thread        *)
(* writes, or to the next blocking call.                                   *)
(* The display is open, closed or being closed (VideoDisplay has its       *)
(* threads); closing one that is not open does nothing, nor does opening   *)
(* one that is not closed.  A display is taken to run as soon as it is     *)
(* opened.                                                                 *)
(* Servers, and the network to and from them, are the environment.         *)
(***************************************************************************)
EXTENDS Integers

CONSTANTS Servers,      \* gateways with a camera; also stand for their groups
          Nobody,       \* no server, no group
          MaxSn,        \* bound on send_cmd_sn
          MaxMishaps    \* bound: messages lost, repeated or not acknowledged

ASSUME ServersAssumption == Nobody \notin Servers
ASSUME BoundsAssumption  == MaxSn \in Nat /\ MaxMishaps \in Nat

VARIABLES
  state, msg, sn,       \* one_multicast_client
  group, proxy,         \* its vd_multicast_ip and vd_proxy_server_ip
  type, server,         \* one_ip_video_client
  cs, monitor,          \* global_cs_state, one_monitor.state
  display,              \* [group, closing]
  user, recv,           \* the threads
  toServer, toClient,   \* messages on their way
  subs,                 \* servers that have this client in their list
  overtaken,            \* ghost: what the user gave up went on ("now", "before")
  mishaps

client  == <<state, msg, sn, group, proxy>>
control == <<type, server, cs, monitor, overtaken>>
network == <<toServer, toClient, subs, mishaps>>
vars    == <<client, control, display, user, recv, network>>

Requests == [cmd : {"SUBSCRIBE_REQ", "DESUBSCRIBE_REQ"}, to : Servers, id : 1 .. MaxSn]
Answers  == [cmd : {"SUBSCRIBE_RSP"}, from : Servers, id : 1 .. MaxSn,
             result : {"ENABLE", "TO_PROXY", "DISABLE"}, proxy : Servers \cup {Nobody}]
              \cup [cmd : {"DESUBSCRIBE_RSP"}, from : Servers, id : 1 .. MaxSn]
              \cup [cmd : {"CANCEL_REQ"}, from : Servers]

Msgs == {"none", "REQ_OK", "REQ_TO_PROXY", "REQ_UNALLOW", "REQ_BUSY", "REQ_TIMEOUT",
         "REQ_NO_RSP", "CLOSE_OK", "CLOSE_TIMEOUT", "CLOSE_NO_RSP"}

UserPoints == {"idle", "subscribe", "request", "ack", "rsp", "failed", "return",
               "result", "opened", "desubscribe", "leave", "left", "goodbye", "next", "closed"}
RecvPoints == {"idle", "cancelled", "accept", "join", "joined", "refuse", "ended",
               "leave", "left", "notify", "close", "trig"}

(* What the user thread is doing: opening or closing; the server it talks  *)
(* to and the one the caller wants; the request it waits for, whether an   *)
(* answer still finds its slot, and whether it has been posted.            *)
NoCall == [at |-> "idle", op |-> "none", to |-> Nobody, want |-> Nobody, cmd |-> "none",
           id |-> 0, slot |-> "free", second |-> FALSE, got |-> "none"]

Calls == [at : UserPoints, op : {"none", "open", "close"},
          to : Servers \cup {Nobody}, want : Servers \cup {Nobody},
          cmd : {"none", "SUBSCRIBE_REQ", "DESUBSCRIBE_REQ"}, id : 0 .. MaxSn,
          slot : {"free", "armed", "posted"}, second : BOOLEAN, got : Msgs]

(* One thread at a time closes the display.                                *)
ClosedByOne == /\ display.closing = (user.at = "left" \/ recv.at = "left")
               /\ user.at = "left" => recv.at # "left"

TypeOK ==
  /\ state \in {"IDLE", "SUBSCRIBE", "ACTIVE"}
  /\ msg \in Msgs /\ sn \in 0 .. MaxSn
  /\ group \in Servers \cup {Nobody} /\ proxy \in Servers \cup {Nobody}
  /\ server \in Servers \cup {Nobody}
  /\ type \in {"none", "multicast"}
  /\ cs \in {"IDLE", "CLIENT"} /\ monitor \in {"IDLE", "REMOTE"}
  /\ display \in [group : Servers \cup {Nobody}, closing : BOOLEAN]
  /\ user \in Calls
  /\ recv.at \in RecvPoints
  /\ recv.at # "idle" => recv.m \in Answers
  /\ toServer \subseteq Requests /\ toClient \subseteq Answers
  /\ subs \subseteq Servers /\ overtaken \in {"never", "now", "before"}
  /\ mishaps \in 0 .. MaxMishaps
  /\ ClosedByOne

NoMsg == [at |-> "idle"]

Init ==
  /\ state = "IDLE" /\ msg = "none" /\ sn = 0 /\ group = Nobody /\ proxy = Nobody
  /\ type = "none" /\ server = Nobody /\ cs = "IDLE" /\ monitor = "IDLE" /\ overtaken = "never"
  /\ display = [group |-> Nobody, closing |-> FALSE]
  /\ user = NoCall /\ recv = NoMsg
  /\ toServer = {} /\ toClient = {} /\ subs = {} /\ mishaps = 0
-----------------------------------------------------------------------------
(* The display, as either thread opens and closes it.                      *)
Shown == display.group # Nobody

EnableVideoDisplay(g) ==
  display' = IF Shown THEN display ELSE [group |-> g, closing |-> FALSE]

DisableStarts == display' = [display EXCEPT !.closing = TRUE]
DisableEnds   == display' = [group |-> Nobody, closing |-> FALSE]

Running == Shown /\ ~display.closing
-----------------------------------------------------------------------------
(* Thread user.                                                            *)
UserGoes(at) == user' = [user EXCEPT !.at = at]

(* Down to the request: same server, nothing to ask; another server, that  *)
(* subscription is ended first.                                            *)
api_video_client_turn_on(s) ==
  /\ user' = [NoCall EXCEPT !.op = "open", !.want = s,
                !.to = IF type = "multicast" THEN server ELSE s,
                !.at = IF type # "multicast" THEN "subscribe"
                       ELSE IF server = s THEN "opened" ELSE "desubscribe"]
  /\ type' = IF type = "multicast" /\ server # s THEN "none" ELSE type

open_monitor_remote(s) ==
  /\ user.at = "idle" /\ monitor = "IDLE" /\ sn < MaxSn
  /\ api_video_client_turn_on(s)
  /\ UNCHANGED <<client, server, cs, monitor, overtaken, display, recv, network>>

(* Nothing is done about the client when the common state says IDLE.       *)
api_video_c_service_turn_off ==
  user' = [NoCall EXCEPT !.op = "close", !.to = server,
             !.at = IF cs = "IDLE" THEN "closed"
                    ELSE IF type = "multicast" THEN "desubscribe" ELSE "next"]

close_monitor ==
  /\ user.at = "idle" /\ monitor = "REMOTE"
  /\ api_video_c_service_turn_off
  /\ UNCHANGED <<client, control, display, recv, network>>

(* recv is carrying out an answer it has taken for the user's.             *)
Carrying == recv.at \in {"accept", "join", "joined", "refuse"}

(* The user does not wait for what it has given up.  It is overtaken now   *)
(* when the answer that recv is carrying out is to a subscription that was *)
(* given up, and was before when this is over, or a server has taken a     *)
(* desubscription only after a later request was made.                     *)
Before == IF overtaken = "never" THEN "before" ELSE overtaken

(* api_one_video_client_subscribe_req.                                     *)
SubscribeStarts ==
  /\ user.at = "subscribe"
  /\ IF state = "IDLE"
     THEN /\ state' = "SUBSCRIBE"
          /\ overtaken' = IF Carrying THEN "now"
                          ELSE IF overtaken = "never" THEN "never" ELSE "before"
          /\ user' = [user EXCEPT !.at = "request", !.cmd = "SUBSCRIBE_REQ"]
     ELSE /\ user' = [user EXCEPT !.at = "result", !.got = "REQ_BUSY"]
          /\ UNCHANGED <<state, overtaken>>
  /\ UNCHANGED <<msg, sn, group, proxy, type, server, cs, monitor, display, recv, network>>

(* Seeded fault: the number is stored when the request is already out.     *)
RequestNumbersLate ==
  /\ user.at = "request" /\ sn < MaxSn
  /\ user' = [user EXCEPT !.at = "ack", !.id = sn + 1, !.slot = "armed"]
  /\ toServer' = toServer \cup {[cmd |-> user.cmd, to |-> user.to, id |-> sn + 1]}
  /\ UNCHANGED <<state, msg, sn, group, proxy, control, display, recv, toClient,
                 subs, mishaps>>

(* ++send_cmd_sn, the slot for the answer, and the packet.                 *)
Request ==
  /\ user.at = "request" /\ sn < MaxSn
  /\ sn' = sn + 1
  /\ user' = [user EXCEPT !.at = "ack", !.id = sn + 1, !.slot = "armed"]
  /\ toServer' = toServer \cup {[cmd |-> user.cmd, to |-> user.to, id |-> sn + 1]}
  /\ UNCHANGED <<state, msg, group, proxy, control, display, recv, toClient, subs, mishaps>>

Subscribing == user.cmd = "SUBSCRIBE_REQ"

(* A call that gives up: only a subscription resets the state.             *)
GiveUp(subscribing, closing) ==
  /\ state' = IF Subscribing THEN "IDLE" ELSE state
  /\ user' = [user EXCEPT !.at = "failed", !.slot = "free",
                          !.got = IF Subscribing THEN subscribing ELSE closing]
  /\ overtaken' = IF Subscribing /\ Carrying THEN "now" ELSE overtaken
  /\ UNCHANGED <<msg, sn, group, proxy, type, server, cs, monitor, display, recv>>

Failed ==
  /\ user.at = "failed"
  /\ msg' = user.got
  /\ UserGoes("return")
  /\ UNCHANGED <<state, sn, group, proxy, control, display, recv, network>>

(* What a call returns is the message it finds in the client.              *)
Return ==
  /\ user.at = "return"
  /\ user' = [user EXCEPT !.at = IF Subscribing THEN "result" ELSE "next", !.got = msg]
  /\ UNCHANGED <<client, control, display, recv, network>>

Sent == [cmd |-> user.cmd, to |-> user.to, id |-> user.id]

(* The ACK comes when the server has the request.  Without one, either the *)
(* request was lost, or it is late, or the ACK was lost.                   *)
Acknowledged ==
  /\ user.at = "ack"
  /\ Sent \notin toServer
  /\ UserGoes("rsp")
  /\ UNCHANGED <<client, control, display, recv, network>>

AckTimeout ==
  /\ user.at = "ack" /\ mishaps < MaxMishaps
  /\ mishaps' = mishaps + 1
  /\ toServer' \in {toServer, toServer \ {Sent}}
  /\ GiveUp("REQ_TIMEOUT", "CLOSE_TIMEOUT")
  /\ UNCHANGED <<toClient, subs>>

AnswerTo(cmd) == IF cmd = "SUBSCRIBE_REQ" THEN "SUBSCRIBE_RSP" ELSE "DESUBSCRIBE_RSP"
IsAnswer(m) == m.cmd = AnswerTo(user.cmd) /\ m.id = user.id

(* The answer the user waits for is still to come.                         *)
Coming == user.slot = "armed" /\ \/ Sent \in toServer
                                 \/ \E m \in toClient : IsAnswer(m)
                                 \/ recv.at # "idle" /\ IsAnswer(recv.m)

(* The answer has been written to the client by recv.                      *)
Answered ==
  /\ user.at = "rsp" /\ user.slot = "posted"
  /\ msg' = IF Subscribing THEN msg ELSE "CLOSE_OK"
  /\ user' = [user EXCEPT !.at = "return", !.slot = "free"]
  /\ UNCHANGED <<state, sn, group, proxy, control, display, recv, network>>

(* The wait ends too early, which is a mishap, or there is nothing left    *)
(* that could end it.                                                      *)
RspTimeout ==
  /\ user.at = "rsp" /\ user.slot # "posted"
  /\ IF Coming THEN mishaps < MaxMishaps /\ mishaps' = mishaps + 1 ELSE UNCHANGED mishaps
  /\ GiveUp("REQ_NO_RSP", "CLOSE_NO_RSP")
  /\ UNCHANGED <<toServer, toClient, subs>>

(* client_inner_msg_process: the slot is freed before the wait is over.    *)
SlotExpires ==
  /\ user.at \in {"ack", "rsp"} /\ user.slot = "armed" /\ mishaps < MaxMishaps
  /\ mishaps' = mishaps + 1
  /\ user' = [user EXCEPT !.slot = "free"]
  /\ UNCHANGED <<client, control, display, recv, toServer, toClient, subs>>

(* api_video_client_turn_on goes on with what a subscription returned.  A  *)
(* second TO_PROXY, or any other result, is an error; a proxy without an   *)
(* address is not.                                                         *)
SubscribeResult ==
  /\ user.at = "result"
  /\ \/ /\ user.got = "REQ_OK"
        /\ type' = "multicast"
        /\ server' = IF user.second THEN server ELSE user.to
        /\ UserGoes("opened")
     \/ /\ user.got = "REQ_TO_PROXY" /\ ~user.second
        /\ server' = proxy
        /\ user' = IF proxy = Nobody THEN [user EXCEPT !.at = "opened"]
                   ELSE [user EXCEPT !.at = "subscribe", !.to = proxy, !.second = TRUE]
        /\ UNCHANGED type
     \/ /\ user.got # "REQ_OK" /\ (user.got # "REQ_TO_PROXY" \/ user.second)
        /\ user' = NoCall
        /\ UNCHANGED <<type, server>>
  /\ UNCHANGED <<client, cs, monitor, overtaken, display, recv, network>>

(* api_video_c_service_turn_on and open_monitor_remote come to their end.  *)
Opened ==
  /\ user.at = "opened"
  /\ cs' = "CLIENT" /\ monitor' = "REMOTE"
  /\ user' = NoCall
  /\ UNCHANGED <<client, type, server, overtaken, display, recv, network>>

(* api_one_video_client_desubscribe_req.                                   *)
DesubscribeStarts ==
  /\ user.at = "desubscribe"
  /\ UserGoes(CASE state = "IDLE" -> "next"
                [] state = "ACTIVE" -> "leave"
                [] OTHER -> "goodbye")
  /\ UNCHANGED <<client, control, display, recv, network>>

(* api_leave_video_multicast_group, by a thread at `at`.                   *)
Leave(at, to) ==
  \/ at = "leave" /\ Running /\ to = "left" /\ DisableStarts /\ UNCHANGED state
  \/ at = "leave" /\ ~Running /\ to = "gone" /\ state' = "IDLE" /\ UNCHANGED display
  \/ at = "left" /\ to = "gone" /\ DisableEnds /\ state' = "IDLE"

(* Seeded fault: the display is asked to close, and the user goes on.      *)
UserLeavesAtOnce ==
  /\ user.at = "leave"
  /\ IF Running THEN DisableStarts ELSE UNCHANGED display
  /\ UserGoes("goodbye")
  /\ UNCHANGED <<client, control, recv, network>>

UserLeaves ==
  \E to \in {"left", "gone"} :
    /\ Leave(user.at, to)
    /\ UserGoes(IF to = "gone" THEN "goodbye" ELSE to)
    /\ UNCHANGED <<msg, sn, group, proxy, control, recv, network>>

Goodbye ==
  /\ user.at = "goodbye"
  /\ state' = "IDLE"
  /\ user' = [user EXCEPT !.at = "request", !.cmd = "DESUBSCRIBE_REQ"]
  /\ UNCHANGED <<msg, sn, group, proxy, control, display, recv, network>>

(* What follows a desubscription: the other server's subscription, or the  *)
(* end of api_video_client_turn_off.                                       *)
AfterDesubscribe ==
  /\ user.at = "next"
  /\ IF user.op = "open"
     THEN /\ user' = [user EXCEPT !.at = "subscribe", !.to = user.want]
          /\ UNCHANGED type
     ELSE UserGoes("closed") /\ type' = "none"
  /\ UNCHANGED <<client, server, cs, monitor, overtaken, display, recv, network>>

Closed ==
  /\ user.at = "closed"
  /\ cs' = "IDLE" /\ monitor' = "IDLE"
  /\ user' = NoCall
  /\ UNCHANGED <<client, type, server, overtaken, display, recv, network>>

UserStep ==
  \/ SubscribeStarts \/ Request \/ Acknowledged \/ Answered
  \/ Failed \/ Return \/ SubscribeResult \/ Opened \/ DesubscribeStarts \/ UserLeaves \/ Goodbye
  \/ AfterDesubscribe \/ Closed

UserTimeout == AckTimeout \/ RspTimeout \/ SlotExpires
-----------------------------------------------------------------------------
(* Thread recv.                                                            *)
RecvGoes(at) == recv' = IF at = "idle" THEN NoMsg ELSE [recv EXCEPT !.at = at]

Accepts(m) == state = "SUBSCRIBE" /\ sn = m.id

FirstPoint(m) ==
  CASE m.cmd = "CANCEL_REQ"      -> "cancelled"
    [] m.cmd = "DESUBSCRIBE_RSP" -> "ended"
    [] OTHER -> IF ~Accepts(m) THEN "trig"
                ELSE IF m.result = "ENABLE" THEN "accept" ELSE "refuse"

(* One message is taken; the network may have a second copy of it.         *)
Receive(m, again) ==
  /\ recv.at = "idle" /\ m \in toClient
  /\ recv' = [at |-> FirstPoint(m), m |-> m]
  /\ toClient' = IF again THEN toClient ELSE toClient \ {m}
  /\ again => mishaps < MaxMishaps
  /\ mishaps' = IF again THEN mishaps + 1 ELSE mishaps
  /\ UNCHANGED <<client, control, display, user, toServer, subs>>

(* api_one_video_client_cancel_rsp: the server takes the client off its    *)
(* list when the answer comes, if it has not done so already.              *)
CancelRsp ==
  /\ recv.at = "cancelled"
  /\ state' = "IDLE"
  /\ RecvGoes("leave")
  /\ msg' \in {"CLOSE_OK", "CLOSE_TIMEOUT"}
  /\ UNCHANGED <<sn, group, proxy, control, display, user, network>>

Accept ==
  /\ recv.at = "accept"
  /\ state' = "ACTIVE" /\ msg' = "REQ_OK"
  /\ group' = recv.m.from /\ proxy' = Nobody
  /\ RecvGoes("join")
  /\ UNCHANGED <<sn, control, display, user, network>>

(* api_join_video_multicast_group.                                         *)
Join ==
  /\ recv.at = "join"
  /\ EnableVideoDisplay(recv.m.from)
  /\ RecvGoes("joined")
  /\ UNCHANGED <<client, control, user, network>>

Joined ==
  /\ recv.at = "joined"
  /\ state' = "ACTIVE"
  /\ RecvGoes("trig")
  /\ UNCHANGED <<msg, sn, group, proxy, control, display, user, network>>

Refuse ==
  /\ recv.at = "refuse"
  /\ state' = "IDLE"
  /\ IF recv.m.result = "TO_PROXY"
     THEN msg' = "REQ_TO_PROXY" /\ proxy' = recv.m.proxy /\ group' = Nobody
     ELSE msg' = "REQ_UNALLOW" /\ UNCHANGED <<proxy, group>>
  /\ RecvGoes("trig")
  /\ UNCHANGED <<sn, control, display, user, network>>

(* A DESUBSCRIBE_RSP is taken whatever its number.                         *)
Ended ==
  /\ recv.at = "ended"
  /\ state' = "IDLE" /\ msg' = "REQ_OK"
  /\ RecvGoes("leave")
  /\ UNCHANGED <<sn, group, proxy, control, display, user, network>>

(* Seeded fault: only an active client leaves the group.                   *)
RecvLeavesActive ==
  \E to \in {"left", "gone"} :
    /\ IF recv.at = "leave" /\ state # "ACTIVE"
       THEN to = "gone" /\ UNCHANGED <<state, display>>
       ELSE Leave(recv.at, to)
    /\ RecvGoes(IF to # "gone" THEN to
                ELSE IF recv.m.cmd = "CANCEL_REQ" THEN "notify" ELSE "trig")
    /\ UNCHANGED <<msg, sn, group, proxy, control, user, network>>

RecvLeaves ==
  \E to \in {"left", "gone"} :
    /\ Leave(recv.at, to)
    /\ RecvGoes(IF to # "gone" THEN to
                ELSE IF recv.m.cmd = "CANCEL_REQ" THEN "notify" ELSE "trig")
    /\ UNCHANGED <<msg, sn, group, proxy, control, user, network>>

(* api_video_client_multicast_notify_off, then api_video_c_service_close_notify. *)
NotifyOff ==
  /\ recv.at = "notify"
  /\ type' = "none"
  /\ RecvGoes("close")
  /\ UNCHANGED <<client, server, cs, monitor, overtaken, display, user, network>>

CloseNotify ==
  /\ recv.at = "close"
  /\ cs' = "IDLE"
  /\ RecvGoes("idle")
  /\ UNCHANGED <<client, type, server, monitor, overtaken, display, user, network>>

trig_one_send_array ==
  /\ recv.at = "trig"
  /\ user' = IF /\ user.at \in {"ack", "rsp"} /\ user.slot = "armed"
                /\ IsAnswer(recv.m)
             THEN [user EXCEPT !.slot = "posted"] ELSE user
  /\ RecvGoes("idle")
  /\ UNCHANGED <<client, control, display, network>>

RecvStep == CancelRsp \/ Accept \/ Join \/ Joined \/ Refuse \/ Ended \/ RecvLeaves
              \/ NotifyOff \/ CloseNotify \/ trig_one_send_array
-----------------------------------------------------------------------------
(* The servers.  One that answers ENABLE has the client in its list, until *)
(* the client leaves or its time is over; then the server cancels it.      *)
ServerAnswers(q) ==
  /\ q \in toServer
  /\ toServer' = toServer \ {q}
  /\ \/ /\ q.cmd = "SUBSCRIBE_REQ"
        /\ \E r \in {"ENABLE", "TO_PROXY", "DISABLE"}, p \in (Servers \cup {Nobody}) \ {q.to} :
             /\ r # "TO_PROXY" => p = Nobody
             /\ toClient' = toClient \cup {[cmd |-> "SUBSCRIBE_RSP", from |-> q.to,
                                            id |-> q.id, result |-> r, proxy |-> p]}
             /\ subs' = IF r = "ENABLE" THEN subs \cup {q.to} ELSE subs
     \/ /\ q.cmd = "DESUBSCRIBE_REQ"
        /\ toClient' = toClient \cup {[cmd |-> "DESUBSCRIBE_RSP", from |-> q.to, id |-> q.id]}
        /\ subs' = subs \ {q.to}
  /\ overtaken' = IF q.cmd = "DESUBSCRIBE_REQ" /\ q.id # user.id THEN Before ELSE overtaken
  /\ UNCHANGED <<client, type, server, cs, monitor, display, user, recv, mishaps>>

(* It lists the client when the ENABLE was acknowledged, and so cancels it *)
(* after that.                                                             *)
ServerCancels(s) ==
  /\ s \in subs
  /\ ~ \E m \in toClient : m.cmd = "SUBSCRIBE_RSP" /\ m.from = s /\ m.result = "ENABLE"
  /\ subs' = subs \ {s}
  /\ toClient' = toClient \cup {[cmd |-> "CANCEL_REQ", from |-> s]}
  /\ UNCHANGED <<client, control, display, user, recv, toServer, mishaps>>

(* An answer that is lost with all its repetitions.  A server does get    *)
(* its CANCEL_REQ through, and its ENABLE: else it does not list the client. *)
Lose(m) ==
  /\ mishaps < MaxMishaps
  /\ m.cmd = "DESUBSCRIBE_RSP" \/ (m.cmd = "SUBSCRIBE_RSP" /\ m.result # "ENABLE")
  /\ mishaps' = mishaps + 1
  /\ toClient' = toClient \ {m}
  /\ UNCHANGED <<client, control, display, user, recv, toServer, subs>>

Environment ==
  \/ \E q \in toServer : ServerAnswers(q)
  \/ \E s \in subs : ServerCancels(s)
  \/ \E m \in toClient : Lose(m)
-----------------------------------------------------------------------------
Next ==
  \/ \E s \in Servers : open_monitor_remote(s)
  \/ close_monitor
  \/ UserStep \/ UserTimeout
  \/ \E m \in toClient, again \in BOOLEAN : Receive(m, again)
  \/ RecvStep
  \/ Environment

(* Both threads run; servers expire their clients; messages that are not   *)
(* lost are taken one after the other.  Nobody has to open or to close the *)
(* monitor, and no server has to answer.                                   *)
Fairness ==
  /\ WF_vars(UserStep) /\ WF_vars(RecvStep)
  /\ WF_vars(\E s \in subs : ServerCancels(s))
  /\ WF_vars(\E m \in toClient : Receive(m, FALSE))

Spec == Init /\ [][Next]_vars /\ Fairness
-----------------------------------------------------------------------------
(* A client is in SUBSCRIBE only while the request that put it there is    *)
(* being made: every answer, and every way of giving up, takes it out, in  *)
(* whatever order the two threads get there.  A client left in SUBSCRIBE   *)
(* would be busy for ever (video_multicast_client.c:204).                  *)
NeverStuckSubscribing ==
  state = "SUBSCRIBE" => user.at \in {"request", "ack", "rsp"} /\ Subscribing

BetweenCalls == user.at = "idle" /\ recv.at = "idle"

(* Between calls, a client that says it is active has its display open,    *)
(* although closing takes both threads time, and opening a display that is *)
(* still closing does nothing.  And when the user has been told that the   *)
(* monitor is open, and the display is, the client is active: only then    *)
(* can api_video_client_turn_off leave (video_multicast_client.c:270).     *)
(* Unless the user has given up the last subscription in the very moment   *)
(* recv was carrying out an answer: then recv may make the client active   *)
(* when the user has long closed it.                                       *)
ActiveMeansReceiving ==
  BetweenCalls /\ overtaken # "now" =>
    /\ state = "ACTIVE" => Running
    /\ type = "multicast" /\ Running => state = "ACTIVE"

(* The display never stays open for ever, also when the threads disagreed  *)
(* about the subscription: the server's CANCEL_REQ closes it in any state. *)
(* Unless the user was ever overtaken: by recv, which may then open the    *)
(* display when the user has closed it, or by an old DESUBSCRIBE_REQ, after *)
(* which no server has a client whose display is open to cancel.           *)
JoinedEnds == Shown ~> ~Shown \/ overtaken # "never"
=============================================================================
