------------------------- MODULE VideoClient_proofs --------------------------
(***************************************************************************)
(* Proofs about the ways a gateway gets a picture: VideoClient, Linphonec  *)
(* and LinphoneLink.                                                       *)
(*                                                                         *)
(* VideoClient, for any servers, any number of requests and of mishaps: no *)
(* client is stuck in SUBSCRIBE, and an active client and an open display  *)
(* go together.                                                            *)
(*                                                                         *)
(* The two threads share the state without a lock; what keeps them apart   *)
(* is the number of the request.  Numbered says that no message carries a  *)
(* number that was not given out; so a message recv still works on cannot  *)
(* be the answer to a request the user has since begun, and Settled, that  *)
(* the user's answer is only posted when the state has left SUBSCRIBE, is  *)
(* kept by both.                                                           *)
(*                                                                         *)
(* Together says where the threads are when the client is active, or its   *)
(* display open.  It needs the ghost overtaken: a user that gives up while *)
(* recv carries its answer out leaves recv on its own, and only a new      *)
(* subscription brings the two together again.                             *)
(*                                                                         *)
(* Linphonec, for any queue, any number of processes and calls: as long as *)
(* no process ends by itself, a command only reaches the process it was    *)
(* meant for, and no send ends the program.                                *)
(* That no process ended by itself is part of the state (crashed), so the  *)
(* invariant says all it says for the time before: one process runs at     *)
(* most, and it is fd; the queue holds commands for fd only, and is empty  *)
(* once fd has quit, since quit is the last command anyone pushes; and the *)
(* connection is fd's, or the queue is empty, because onoff_ returns only  *)
(* after the receiving thread has noticed that the last one was closed.    *)
(*                                                                         *)
(* LinphoneLink, for any uses and losses: at a gateway whose two threads   *)
(* have not overlapped one of them acts at most, and for each place it can *)
(* be at Gate says what runs and what is registered.  Nothing has to be    *)
(* known of the messages under way or of the other gateway: whatever role  *)
(* a request names and whatever the answer says, a process starts before   *)
(* the state names it, and one that stopped is forgotten before the thread *)
(* asks or answers anything.                                               *)
(***************************************************************************)
EXTENDS VideoClient, Linphone, SequenceTheorems, TLAPS

(* What the user thread is doing, and to whom.                             *)
Calling == /\ type = "multicast" \/ user.second = TRUE => server \in Servers
           /\ user.at \notin {"idle", "opened", "next", "closed"} => user.to \in Servers
           /\ user.op = "open" => user.want \in Servers
           /\ user.op = "open" /\ user.at # "opened" => type = "none"
           /\ user.at \in {"request", "ack", "rsp", "failed", "return"}
                => user.cmd \in {"SUBSCRIBE_REQ", "DESUBSCRIBE_REQ"}
           /\ user.at \in {"subscribe", "result"} \/ Subscribing => user.op = "open"

Typed == /\ TypeOK
         /\ recv \in [at : RecvPoints \ {"idle"}, m : Answers] \cup {NoMsg}
         /\ recv.at \in {"accept", "join", "joined", "refuse"}
              => recv.m.cmd = "SUBSCRIBE_RSP"
         /\ display.closing => Shown
         /\ Calling

(* No message has a number of the future.                                  *)
Numbered == /\ \A q \in toServer : q.id <= sn
            /\ \A m \in toClient : m.cmd # "CANCEL_REQ" => m.id <= sn
            /\ recv.at # "idle" /\ recv.m.cmd # "CANCEL_REQ" => recv.m.id <= sn
            /\ user.at \in {"ack", "rsp"} => user.id = sn

Waiting == user.at \in {"ack", "rsp"} /\ Subscribing

(* The answer is posted, or about to be, only after it ended SUBSCRIBE.    *)
Settled == /\ Waiting /\ user.slot = "posted" => state # "SUBSCRIBE"
           /\ /\ Waiting /\ recv.at \in {"join", "joined", "trig"}
              /\ recv.m.cmd = "SUBSCRIBE_RSP" /\ recv.m.id = user.id
              => state # "SUBSCRIBE"

Inv == Typed /\ Numbered /\ Settled /\ NeverStuckSubscribing
-----------------------------------------------------------------------------
LEMMA InvInit == Init => Inv
<1> SUFFICES ASSUME Init PROVE Inv
  OBVIOUS
<1> USE DEF Init
<1>1. Typed
  <2>1. user \in Calls /\ user.at = "idle"
    BY BoundsAssumption DEF Calls, NoCall, Msgs, UserPoints
  <2>2. recv = NoMsg /\ recv.at = "idle" /\ recv.at \in RecvPoints
    BY DEF NoMsg, RecvPoints
  <2>3. ClosedByOne /\ (display.closing => Shown)
    BY <2>1, <2>2 DEF ClosedByOne, Shown
  <2> QED
    BY <2>1, <2>2, <2>3, BoundsAssumption DEF Typed, TypeOK, Msgs, Calling, Subscribing, NoCall
<1>2. Numbered /\ Settled /\ NeverStuckSubscribing
  BY DEF Numbered, Settled, NeverStuckSubscribing, Waiting, NoCall, NoMsg
<1> QED
  BY <1>1, <1>2 DEF Inv

UserMoves == \/ \E s \in Servers : open_monitor_remote(s)
         \/ close_monitor \/ UserStep \/ UserTimeout

(* A step of the user thread leaves its call a call.                       *)
LEMMA CallTyped ==
  ASSUME Typed, UserMoves
  PROVE  user' \in Calls
<1> USE DEF Typed, TypeOK
<1> DEFINE Opening(to, at, want) ==
             [NoCall EXCEPT !.op = "open", !.want = want, !.to = to, !.at = at]
<1>1. ASSUME NEW s \in Servers, open_monitor_remote(s)
      PROVE  user' \in Calls
  <2>1. ASSUME NEW to \in Servers \cup {Nobody},
               NEW at \in {"subscribe", "opened", "desubscribe"}
        PROVE  Opening(to, at, s) \in Calls
    <3>1. NoCall \in Calls
      BY BoundsAssumption DEF Calls, NoCall, Msgs, UserPoints
    <3>2. ASSUME NEW c \in Calls PROVE
            [c EXCEPT !.op = "open", !.want = s, !.to = to, !.at = at] \in Calls
      BY DEF Calls, UserPoints
    <3> QED
      BY <3>1, <3>2
  <2>2. PICK to \in Servers \cup {Nobody}, at \in {"subscribe", "opened", "desubscribe"} :
          user' = Opening(to, at, s)
    <3>1. \/ user' = Opening(s, "subscribe", s)
          \/ user' = Opening(server, "opened", s)
          \/ user' = Opening(server, "desubscribe", s)
      BY <1>1 DEF open_monitor_remote, api_video_client_turn_on
    <3> HIDE DEF Opening
    <3> QED
      BY <3>1
  <2> HIDE DEF Opening
  <2> QED
    BY <2>1, <2>2
<1>2. CASE close_monitor
  <2>1. ASSUME NEW at \in {"closed", "desubscribe", "next"}
        PROVE  [NoCall EXCEPT !.op = "close", !.to = server, !.at = at] \in Calls
    <3>1. NoCall \in Calls
      BY BoundsAssumption DEF Calls, NoCall, Msgs, UserPoints
    <3>2. ASSUME NEW c \in Calls PROVE
            [c EXCEPT !.op = "close", !.to = server, !.at = at] \in Calls
      BY ZenonT(40) DEF Calls, UserPoints
    <3> QED
      BY <3>1, <3>2
  <2> QED
    BY <1>2, <2>1 DEF close_monitor, api_video_c_service_turn_off
<1>3. CASE SubscribeResult
  <2>1. [user EXCEPT !.at = "opened"] \in Calls /\ NoCall \in Calls
    BY BoundsAssumption DEF Calls, NoCall, Msgs, UserPoints
  <2>2. [user EXCEPT !.at = "subscribe", !.to = proxy, !.second = TRUE] \in Calls
    BY DEF Calls, UserPoints
  <2> QED
    BY <1>3, <2>1, <2>2 DEF SubscribeResult, UserGoes
<1>4. CASE SubscribeStarts
  <2>1. /\ [user EXCEPT !.at = "request", !.cmd = "SUBSCRIBE_REQ"] \in Calls
        /\ [user EXCEPT !.at = "result", !.got = "REQ_BUSY"] \in Calls
    <3>1. [user EXCEPT !.at = "request", !.cmd = "SUBSCRIBE_REQ"] \in Calls
      BY DEF Calls, UserPoints
    <3>2. [user EXCEPT !.at = "result", !.got = "REQ_BUSY"] \in Calls
      <4>1. "result" \in UserPoints /\ "REQ_BUSY" \in Msgs
        BY DEF UserPoints, Msgs
      <4> QED
        BY <4>1 DEF Calls
    <3> QED
      BY <3>1, <3>2
  <2> QED
    BY <1>4, <2>1 DEF SubscribeStarts
<1>5. CASE Request
  <2>1. sn + 1 \in 0 .. MaxSn
    BY <1>5, BoundsAssumption DEF Request
  <2>2. [user EXCEPT !.at = "ack", !.id = sn + 1, !.slot = "armed"] \in Calls
    BY <2>1 DEF Calls, UserPoints
  <2> QED
    BY <1>5, <2>2 DEF Request
<1>6. CASE Acknowledged
  BY <1>6 DEF Acknowledged, UserGoes, Calls, UserPoints
<1>7. CASE Answered
  BY <1>7 DEF Answered, Calls, UserPoints
<1>8. CASE Failed
  BY <1>8 DEF Failed, UserGoes, Calls, UserPoints
<1>9. CASE Return
  <2>1. \A at \in {"result", "next"} : [user EXCEPT !.at = at, !.got = msg] \in Calls
    BY DEF Calls, UserPoints
  <2> QED
    BY <1>9, <2>1 DEF Return
<1>10. CASE Opened
  BY BoundsAssumption, <1>10 DEF Opened, NoCall, Calls, UserPoints, Msgs
<1>11. CASE DesubscribeStarts
  BY <1>11 DEF DesubscribeStarts, UserGoes, Calls, UserPoints
<1>12. CASE UserLeaves
  BY <1>12 DEF UserLeaves, UserGoes, Calls, UserPoints, Leave
<1>13. CASE Goodbye
  BY <1>13 DEF Goodbye, Calls, UserPoints
<1>14. CASE AfterDesubscribe
  <2>1. user.want \in Servers \cup {Nobody}
    BY DEF Calls
  <2>2. /\ [user EXCEPT !.at = "subscribe", !.to = user.want] \in Calls
        /\ [user EXCEPT !.at = "closed"] \in Calls
    BY <2>1 DEF Calls, UserPoints
  <2> QED
    BY <1>14, <2>2 DEF AfterDesubscribe, UserGoes
<1>15. CASE Closed
  BY BoundsAssumption, <1>15 DEF Closed, NoCall, Calls, UserPoints, Msgs
<1>16. CASE AckTimeout
  BY <1>16 DEF AckTimeout, GiveUp, Calls, UserPoints, Msgs
<1>17. CASE RspTimeout
  BY <1>17, ZenonT(40) DEF RspTimeout, GiveUp, Calls, UserPoints, Msgs
<1>18. CASE SlotExpires
  BY <1>18 DEF SlotExpires, Calls, UserPoints
<1> QED
  BY <1>1, <1>2, <1>3, <1>4, <1>5, <1>6, <1>7, <1>8, <1>9, <1>10, <1>11, <1>12, <1>13, <1>14, <1>15, <1>16, <1>17, <1>18
     DEF UserMoves, UserStep, UserTimeout

Plain == /\ state \in {"IDLE", "SUBSCRIBE", "ACTIVE"}
         /\ msg \in Msgs /\ sn \in 0 .. MaxSn
         /\ group \in Servers \cup {Nobody} /\ proxy \in Servers \cup {Nobody}
         /\ server \in Servers \cup {Nobody}
         /\ type \in {"none", "multicast"}
         /\ cs \in {"IDLE", "CLIENT"} /\ monitor \in {"IDLE", "REMOTE"}
         /\ toServer \subseteq Requests /\ toClient \subseteq Answers
         /\ subs \subseteq Servers /\ overtaken \in {"never", "now", "before"}
         /\ mishaps \in 0 .. MaxMishaps

(* And the plain variables what they are.                                  *)
LEMMA UserPlain ==
  ASSUME Typed, UserMoves
  PROVE  Plain'
<1> USE DEF Typed, TypeOK, Plain, client, control, network
<1>1. ASSUME NEW s \in Servers, open_monitor_remote(s)
      PROVE  Plain'
  BY <1>1 DEF open_monitor_remote, api_video_client_turn_on
<1>2. CASE close_monitor
  BY <1>2 DEF close_monitor
<1>3. CASE SubscribeResult
  BY <1>3 DEF SubscribeResult, Calls
<1>4. CASE SubscribeStarts
  BY <1>4 DEF SubscribeStarts
<1>5. CASE Request
  <2>1. sn' \in 0 .. MaxSn /\ sn + 1 \in 1 .. MaxSn
    BY <1>5, BoundsAssumption DEF Request
  <2>2. user.cmd \in {"SUBSCRIBE_REQ", "DESUBSCRIBE_REQ"} /\ user.to \in Servers
    BY <1>5 DEF Request, Calling
  <2>3. toServer' \subseteq Requests
    BY <1>5, <2>1, <2>2 DEF Request, Requests
  <2> QED
    BY <1>5, <2>1, <2>3 DEF Request
<1>6. CASE Acknowledged
  BY <1>6 DEF Acknowledged
<1>7. CASE Answered
  BY <1>7 DEF Answered, Msgs
<1>8. CASE Failed
  BY <1>8 DEF Failed, Calls
<1>9. CASE Return
  BY <1>9 DEF Return
<1>10. CASE Opened
  BY <1>10 DEF Opened
<1>11. CASE DesubscribeStarts
  BY <1>11 DEF DesubscribeStarts
<1>12. CASE UserLeaves
  BY <1>12 DEF UserLeaves, Leave
<1>13. CASE Goodbye
  BY <1>13 DEF Goodbye
<1>14. CASE AfterDesubscribe
  BY <1>14 DEF AfterDesubscribe
<1>15. CASE Closed
  BY <1>15 DEF Closed
<1>16. CASE AckTimeout
  BY BoundsAssumption, <1>16 DEF AckTimeout, GiveUp
<1>17. CASE RspTimeout
  BY BoundsAssumption, <1>17 DEF RspTimeout, GiveUp
<1>18. CASE SlotExpires
  BY BoundsAssumption, <1>18 DEF SlotExpires
<1> QED
  BY <1>1, <1>2, <1>3, <1>4, <1>5, <1>6, <1>7, <1>8, <1>9, <1>10, <1>11, <1>12, <1>13, <1>14, <1>15, <1>16, <1>17, <1>18
     DEF UserMoves, UserStep, UserTimeout

(* And what it is doing stays in order.                                    *)
(* Where a call that is none stands.                                       *)
LEMMA Idle == NoCall.at = "idle"
  BY DEF NoCall

LEMMA UserCalling ==
  ASSUME Typed, UserMoves
  PROVE  Calling'
<1> USE DEF Typed, TypeOK, Calling, Calls, Subscribing, control
<1>1. ASSUME NEW s \in Servers, open_monitor_remote(s)
      PROVE  Calling'
  BY <1>1 DEF open_monitor_remote, api_video_client_turn_on, NoCall
<1>2. CASE close_monitor
  BY <1>2 DEF close_monitor, api_video_c_service_turn_off, NoCall
<1>3. CASE SubscribeResult
  <2>1. user.op = "open" /\ user.to \in Servers /\ type = "none"
    BY <1>3 DEF SubscribeResult
  <2>2. CASE user.got = "REQ_OK"
    BY <1>3, <2>1, <2>2 DEF SubscribeResult, UserGoes
  <2>3. CASE user.got = "REQ_TO_PROXY" /\ ~ user.second
    <3>1. CASE proxy = Nobody
      BY <1>3, <2>1, <2>3, <3>1 DEF SubscribeResult
    <3>2. CASE proxy \in Servers
      BY <1>3, <2>1, <2>3, <3>2, ServersAssumption, ZenonT(40) DEF SubscribeResult
    <3> QED
      BY <3>1, <3>2
  <2>4. CASE user' = NoCall /\ UNCHANGED <<type, server>>
    BY <2>4 DEF NoCall
  <2> QED
    BY <1>3, <2>2, <2>3, <2>4 DEF SubscribeResult
<1>4. CASE SubscribeStarts
  BY <1>4, ZenonT(40) DEF SubscribeStarts
<1>5. CASE Request
  BY <1>5 DEF Request
<1>6. CASE Acknowledged
  BY <1>6 DEF Acknowledged, UserGoes
<1>7. CASE Answered
  BY <1>7 DEF Answered
<1>8. CASE Failed
  BY <1>8 DEF Failed, UserGoes
<1>9. CASE Return
  BY <1>9 DEF Return
<1>10. CASE Opened
  BY <1>10 DEF Opened, NoCall
<1>11. CASE DesubscribeStarts
  BY <1>11 DEF DesubscribeStarts, UserGoes
<1>12. CASE UserLeaves
  BY <1>12 DEF UserLeaves, UserGoes, Leave
<1>13. CASE Goodbye
  BY <1>13 DEF Goodbye
<1>14. CASE AfterDesubscribe
  <2>1. CASE user.op = "open"
    BY <1>14, <2>1 DEF AfterDesubscribe
  <2>2. CASE user.op # "open"
    BY <1>14, <2>2 DEF AfterDesubscribe, UserGoes
  <2> QED
    BY <2>1, <2>2
<1>15. CASE Closed
  BY <1>15 DEF Closed, NoCall
<1>16. CASE AckTimeout
  BY <1>16 DEF AckTimeout, GiveUp
<1>17. CASE RspTimeout
  BY <1>17 DEF RspTimeout, GiveUp
<1>18. CASE SlotExpires
  BY <1>18 DEF SlotExpires
<1> QED
  BY <1>1, <1>2, <1>3, <1>4, <1>5, <1>6, <1>7, <1>8, <1>9, <1>10, <1>11, <1>12, <1>13, <1>14, <1>15, <1>16, <1>17, <1>18
     DEF UserMoves, UserStep, UserTimeout

(* The display, which both threads close.                                  *)
LEMMA UserTyped ==
  ASSUME Typed, UserMoves
  PROVE  Typed'
<1>1. Plain' /\ user' \in Calls /\ Calling'
  BY CallTyped, UserPlain, UserCalling
<1>2. /\ UNCHANGED recv
      /\ display' \in [group : Servers \cup {Nobody}, closing : BOOLEAN]
      /\ ClosedByOne' /\ (display'.closing => Shown')
  <2> USE DEF Typed, TypeOK, ClosedByOne, Calls
  <2>1. CASE UserLeaves
    <3>1. CASE user.at = "leave" /\ Running /\ user' = [user EXCEPT !.at = "left"] /\ DisableStarts
      BY <2>1, <3>1 DEF UserLeaves, Running, DisableStarts, Shown
    <3>2. CASE user.at = "leave" /\ user' = [user EXCEPT !.at = "goodbye"] /\ UNCHANGED display
      BY <2>1, <3>2 DEF UserLeaves, Shown
    <3>3. CASE user.at = "left" /\ user' = [user EXCEPT !.at = "goodbye"] /\ DisableEnds
      BY <2>1, <3>3 DEF UserLeaves, DisableEnds, Shown
    <3> QED
      BY <2>1, <3>1, <3>2, <3>3 DEF UserLeaves, Leave, UserGoes
  <2>2. CASE ~ UserLeaves
    <3>1. UNCHANGED <<recv, display>> /\ user.at # "left"
      BY <2>2 DEF UserMoves, UserStep, UserTimeout, open_monitor_remote, close_monitor,
         SubscribeStarts, Request, Acknowledged, Answered, Failed, Return, SubscribeResult, Opened,
         DesubscribeStarts, Goodbye, AfterDesubscribe, Closed, AckTimeout, RspTimeout, GiveUp,
         SlotExpires
    <3>2. user'.at # "left"
      <4>1. CASE (\E s \in Servers : open_monitor_remote(s)) \/ close_monitor
        BY <4>1, ZenonT(40) DEF open_monitor_remote, close_monitor, NoCall, api_video_client_turn_on,
           api_video_c_service_turn_off
      <4>2. CASE SubscribeStarts \/ Request \/ Acknowledged \/ Answered \/ Failed \/ Return
        BY <4>2 DEF SubscribeStarts, Request, Acknowledged, Answered, Failed, Return, UserGoes
      <4>3. CASE Opened \/ Goodbye \/ Closed
        BY <4>3, Idle DEF Opened, Goodbye, Closed
      <4>4. CASE UserTimeout
        BY <4>4 DEF UserTimeout, AckTimeout, RspTimeout, GiveUp, SlotExpires
      <4>5. CASE SubscribeResult
        <5>1. \/ user' = [user EXCEPT !.at = "opened"]
              \/ user' = [user EXCEPT !.at = "subscribe", !.to = proxy, !.second = TRUE]
              \/ user' = NoCall
          BY <4>5 DEF SubscribeResult, UserGoes
        <5> QED
          BY <5>1, Idle
      <4>6. CASE DesubscribeStarts \/ AfterDesubscribe
        BY <4>6 DEF DesubscribeStarts, AfterDesubscribe, UserGoes
      <4> QED
        BY <2>2, <4>1, <4>2, <4>3, <4>4, <4>5, <4>6 DEF UserMoves, UserStep
    <3> QED
      BY <3>1, <3>2 DEF Shown
  <2> QED
    BY <2>1, <2>2
<1> QED
  BY <1>1, <1>2 DEF Typed, TypeOK, Plain
-----------------------------------------------------------------------------
Hears == \/ \E m \in toClient, twice \in BOOLEAN : Receive(m, twice)
         \/ RecvStep \/ Environment

RecvInOrder == /\ recv \in [at : RecvPoints \ {"idle"}, m : Answers] \cup {NoMsg}
               /\ recv.at \in {"accept", "join", "joined", "refuse"}
                    => recv.m.cmd = "SUBSCRIBE_RSP"

(* Where a step of recv leads, and that it keeps the message.              *)
LEMMA RecvMoves ==
  ASSUME RecvInOrder, recv.at # "idle", NEW to \in RecvPoints, RecvGoes(to)
  PROVE  /\ recv' \in [at : RecvPoints \ {"idle"}, m : Answers] \cup {NoMsg} /\ recv'.at = to
         /\ to # "idle" => recv'.m = recv.m
<1>1. recv \in [at : RecvPoints \ {"idle"}, m : Answers]
  BY DEF RecvInOrder, NoMsg
<1> QED
  BY <1>1 DEF RecvGoes, NoMsg

(* What happens to the message recv works on.                              *)
LEMMA RecvTyped ==
  ASSUME Typed, Hears
  PROVE  RecvInOrder'
<1>0. RecvInOrder
  BY DEF Typed, RecvInOrder
<1> USE <1>0
<1>1. ASSUME NEW m \in toClient, NEW twice \in BOOLEAN, Receive(m, twice)
      PROVE  RecvInOrder'
  <2>1. m \in Answers
    BY DEF Typed, TypeOK
  <2>2. /\ FirstPoint(m) \in RecvPoints \ {"idle"}
        /\ FirstPoint(m) \in {"accept", "refuse"} => m.cmd = "SUBSCRIBE_RSP"
        /\ FirstPoint(m) \notin {"join", "joined"}
    BY <2>1 DEF FirstPoint, Answers, RecvPoints
  <2> QED
    BY <1>1, <2>1, <2>2 DEF Receive, RecvInOrder
<1>2. ASSUME recv.at # "idle", NEW to \in RecvPoints, RecvGoes(to),
             to \in {"accept", "join", "joined", "refuse"}
               => recv.at \in {"accept", "join", "joined", "refuse"}
      PROVE  RecvInOrder'
  BY <1>2, RecvMoves DEF RecvInOrder
<1>3. CASE CancelRsp \/ Accept \/ Join \/ Joined \/ Refuse \/ Ended
  <2>1. /\ recv.at # "idle"
        /\ \/ RecvGoes("leave") \/ RecvGoes("trig")
           \/ RecvGoes("join") /\ recv.at = "accept"
           \/ RecvGoes("joined") /\ recv.at = "join"
    BY <1>3 DEF CancelRsp, Accept, Join, Joined, Refuse, Ended
  <2> QED
    BY <1>2, <2>1 DEF RecvPoints
<1>4. CASE RecvLeaves \/ NotifyOff \/ CloseNotify \/ trig_one_send_array
  <2>1. /\ recv.at # "idle"
        /\ RecvGoes("left") \/ RecvGoes("notify") \/ RecvGoes("trig") \/ RecvGoes("close")
             \/ RecvGoes("idle")
    BY <1>4 DEF RecvLeaves, Leave, NotifyOff, CloseNotify, trig_one_send_array
  <2> QED
    BY <1>2, <2>1 DEF RecvPoints
<1>5. CASE Environment
  BY <1>5 DEF Environment, ServerAnswers, ServerCancels, Lose, RecvInOrder
<1> QED
  BY <1>1, <1>3, <1>4, <1>5 DEF Hears, RecvStep

(* The plain variables, and the call, when recv or a server moves.         *)
LEMMA RecvPlain ==
  ASSUME Typed, Hears
  PROVE  Plain' /\ user' \in Calls /\ Calling'
<1> USE DEF Typed, TypeOK, Plain, client, control, network
<1>1. ASSUME NEW m \in toClient, NEW twice \in BOOLEAN, Receive(m, twice)
      PROVE  Plain' /\ user' \in Calls /\ Calling'
  BY <1>1, BoundsAssumption DEF Receive, Calling, Subscribing
<1>2. CASE CancelRsp \/ Join \/ Joined \/ Ended
  BY <1>2 DEF CancelRsp, Join, Joined, Ended, Msgs, Calling, Subscribing
<1>3. CASE Accept
  <2>1. recv.m.from \in Servers
    BY <1>3 DEF Accept, Answers
  <2> QED
    BY <1>3, <2>1 DEF Accept, Msgs, Calling, Subscribing
<1>4. CASE Refuse
  <2>1. recv.m.cmd = "SUBSCRIBE_RSP" /\ recv.m \in Answers
    BY <1>4 DEF Refuse
  <2>2. recv.m.proxy \in Servers \cup {Nobody}
    BY <2>1 DEF Answers
  <2> QED
    BY <1>4, <2>2 DEF Refuse, Msgs, Calling, Subscribing
<1>5. CASE RecvLeaves
  BY <1>5 DEF RecvLeaves, Leave, Calling, Subscribing
<1>6. CASE NotifyOff \/ CloseNotify
  BY <1>6 DEF NotifyOff, CloseNotify, Calling, Subscribing
<1>7. CASE trig_one_send_array
  <2>1. user' \in {user, [user EXCEPT !.slot = "posted"]} /\ UNCHANGED <<client, control, network>>
    BY <1>7 DEF trig_one_send_array
  <2>2. user' \in Calls
    BY <2>1 DEF Calls
  <2>3. /\ user'.at = user.at /\ user'.op = user.op /\ user'.to = user.to /\ user'.want = user.want
        /\ user'.cmd = user.cmd /\ user'.second = user.second
    BY <2>1 DEF Calls
  <2> QED
    BY <2>1, <2>2, <2>3 DEF Calling, Subscribing
<1>8. CASE Environment
  <2>1. UNCHANGED <<client, type, server, cs, monitor, user>>
    BY <1>8 DEF Environment, ServerAnswers, ServerCancels, Lose
  <2>2. overtaken' \in {"never", "now", "before"}
    BY <1>8 DEF Environment, ServerAnswers, ServerCancels, Lose, Before
  <2>3. toServer' \subseteq Requests /\ subs' \subseteq Servers /\ mishaps' \in 0 .. MaxMishaps
    BY <1>8, BoundsAssumption DEF Environment, ServerAnswers, ServerCancels, Lose, Requests
  <2>4. toClient' \subseteq Answers
    <3>1. ASSUME NEW q \in toServer, ServerAnswers(q)
          PROVE  toClient' \subseteq Answers
      <4>1. q.to \in Servers /\ q.id \in 1 .. MaxSn
        BY DEF Requests
      <4>2. \/ \E r \in {"ENABLE", "TO_PROXY", "DISABLE"}, p \in Servers \cup {Nobody} :
                 toClient' = toClient \cup {[cmd |-> "SUBSCRIBE_RSP", from |-> q.to,
                                             id |-> q.id, result |-> r, proxy |-> p]}
            \/ toClient' = toClient \cup {[cmd |-> "DESUBSCRIBE_RSP", from |-> q.to, id |-> q.id]}
        BY <3>1 DEF ServerAnswers
      <4> QED
        BY <4>1, <4>2 DEF Answers
    <3>2. ASSUME NEW s \in subs, ServerCancels(s)
          PROVE  toClient' \subseteq Answers
      BY <3>2 DEF ServerCancels, Answers
    <3>3. ASSUME NEW m \in toClient, Lose(m)
          PROVE  toClient' \subseteq Answers
      BY <3>3 DEF Lose
    <3> QED
      BY <1>8, <3>1, <3>2, <3>3 DEF Environment
  <2> QED
    BY <2>1, <2>2, <2>3, <2>4 DEF Calling, Subscribing
<1> QED
  BY <1>1, <1>2, <1>3, <1>4, <1>5, <1>6, <1>7, <1>8 DEF Hears, RecvStep

LEMMA HearsTyped ==
  ASSUME Typed, Hears
  PROVE  Typed'
<1>1. Plain' /\ user' \in Calls /\ Calling' /\ RecvInOrder'
  BY RecvPlain, RecvTyped
<1>2. user'.at = user.at
  BY DEF Typed, TypeOK, Calls, Hears, Receive, RecvStep, CancelRsp, Accept, Join, Joined, Refuse,
     Ended, RecvLeaves, NotifyOff, CloseNotify, trig_one_send_array, Environment, ServerAnswers,
     ServerCancels, Lose
<1>3. recv'.at \in RecvPoints /\ (recv'.at # "idle" => recv'.m \in Answers)
  BY <1>1 DEF RecvInOrder, NoMsg, RecvPoints
<1>4. /\ display' \in [group : Servers \cup {Nobody}, closing : BOOLEAN]
      /\ ClosedByOne' /\ (display'.closing => Shown')
  <2> USE DEF Typed, TypeOK, ClosedByOne
  <2>0. RecvInOrder
    BY DEF RecvInOrder
  <2>1. CASE RecvLeaves
    <3>1. recv.at \in {"leave", "left"}
      BY <2>1 DEF RecvLeaves, Leave
    <3>2. CASE recv.at = "leave" /\ Running /\ RecvGoes("left") /\ DisableStarts
      <4>1. recv'.at = "left"
        BY <2>0, <3>2, RecvMoves DEF RecvPoints
      <4> QED
        BY <1>2, <3>2, <4>1 DEF Running, DisableStarts, Shown
    <3>3. CASE recv.at = "leave" /\ UNCHANGED display /\ (RecvGoes("notify") \/ RecvGoes("trig"))
      <4>1. recv'.at \in {"notify", "trig"}
        BY <2>0, <3>3, RecvMoves DEF RecvPoints
      <4> QED
        BY <1>2, <3>3, <4>1 DEF Shown
    <3>4. CASE recv.at = "left" /\ DisableEnds /\ (RecvGoes("notify") \/ RecvGoes("trig"))
      <4>1. recv'.at \in {"notify", "trig"}
        BY <2>0, <3>4, RecvMoves DEF RecvPoints
      <4> QED
        BY <1>2, <3>4, <4>1 DEF DisableEnds, Shown
    <3> QED
      BY <2>1, <3>2, <3>3, <3>4 DEF RecvLeaves, Leave
  <2>2. CASE Join
    <3>1. recv.at = "join" /\ recv'.at = "joined" /\ recv.m.from \in Servers
      BY <2>0, <2>2, RecvMoves DEF Join, RecvPoints, Answers
    <3>2. CASE Shown
      BY <1>2, <2>2, <3>1, <3>2 DEF Join, EnableVideoDisplay, Shown
    <3>3. CASE ~ Shown
      BY <1>2, <2>2, <3>1, <3>3, ServersAssumption DEF Join, EnableVideoDisplay, Shown
    <3> QED
      BY <3>2, <3>3
  <2>3. CASE ~ RecvLeaves /\ ~ Join
    <3>1. UNCHANGED display
      BY <2>3 DEF Hears, Receive, RecvStep, CancelRsp, Accept, Joined, Refuse, Ended, NotifyOff,
         CloseNotify, trig_one_send_array, Environment, ServerAnswers, ServerCancels, Lose
    <3>2. (recv.at # "left" /\ recv'.at # "left") \/ UNCHANGED recv
      <4>1. ASSUME NEW m \in toClient, NEW twice \in BOOLEAN, Receive(m, twice)
            PROVE  recv.at # "left" /\ recv'.at # "left"
        BY <4>1 DEF Receive, FirstPoint
      <4>2. CASE CancelRsp \/ Accept \/ Joined \/ Refuse \/ Ended
        <5>1. /\ recv.at \notin {"idle", "left"}
              /\ RecvGoes("leave") \/ RecvGoes("join") \/ RecvGoes("trig")
          BY <4>2 DEF CancelRsp, Accept, Joined, Refuse, Ended
        <5> QED
          BY <2>0, <5>1, RecvMoves DEF RecvPoints
      <4>3. CASE NotifyOff \/ CloseNotify \/ trig_one_send_array
        <5>1. recv.at \notin {"idle", "left"} /\ (RecvGoes("close") \/ RecvGoes("idle"))
          BY <4>3 DEF NotifyOff, CloseNotify, trig_one_send_array
        <5> QED
          BY <2>0, <5>1, RecvMoves DEF RecvPoints
      <4>4. CASE Environment
        BY <4>4 DEF Environment, ServerAnswers, ServerCancels, Lose
      <4> QED
        BY <2>3, <4>1, <4>2, <4>3, <4>4 DEF Hears, RecvStep
    <3> QED
      BY <1>2, <3>1, <3>2 DEF Shown
  <2> QED
    BY <2>1, <2>2, <2>3
<1> QED
  BY <1>1, <1>3, <1>4 DEF Typed, TypeOK, Plain, RecvInOrder
-----------------------------------------------------------------------------
(* A call that waits after a step of the user thread, other than the       *)
(* request itself, was waiting before, for the same answer.                *)
LEMMA WaitStays ==
  ASSUME Typed, UserMoves, ~ Request, user'.at \in {"ack", "rsp"}
  PROVE  /\ user.at \in {"ack", "rsp"} /\ user'.id = user.id /\ user'.cmd = user.cmd
         /\ user'.slot = "posted" => user.slot = "posted"
         /\ UNCHANGED state
<1> USE DEF Typed, TypeOK
<1> USE Idle
<1>1. CASE Acknowledged \/ SlotExpires
  BY <1>1 DEF Acknowledged, SlotExpires, UserGoes, Calls, client
<1>2. CASE (\E s \in Servers : open_monitor_remote(s)) \/ close_monitor
  <2>1. user'.at \notin {"ack", "rsp"}
    BY <1>2, ZenonT(40) DEF open_monitor_remote, close_monitor, NoCall, api_video_client_turn_on,
       api_video_c_service_turn_off
  <2> QED
    BY <2>1
<1>3. CASE SubscribeStarts \/ Answered \/ Failed \/ Return \/ Opened \/ Goodbye \/ Closed
  <2>1. user'.at \notin {"ack", "rsp"}
    BY <1>3 DEF SubscribeStarts, Answered, Failed, Return, Opened, Goodbye, Closed, UserGoes, Calls
  <2> QED
    BY <2>1
<1>4. CASE SubscribeResult
  <2>1. \/ user' = [user EXCEPT !.at = "opened"]
        \/ user' = [user EXCEPT !.at = "subscribe", !.to = proxy, !.second = TRUE]
        \/ user' = NoCall
    BY <1>4 DEF SubscribeResult, UserGoes
  <2>2. user'.at \notin {"ack", "rsp"}
    BY <2>1 DEF Calls
  <2> QED
    BY <2>2
<1>5. CASE DesubscribeStarts \/ AfterDesubscribe \/ UserLeaves
  <2>1. user'.at \notin {"ack", "rsp"}
    BY <1>5 DEF DesubscribeStarts, AfterDesubscribe, UserLeaves, UserGoes, Calls
  <2> QED
    BY <2>1
<1>6. CASE AckTimeout \/ RspTimeout
  <2>1. user'.at \notin {"ack", "rsp"}
    BY <1>6 DEF AckTimeout, RspTimeout, GiveUp, Calls
  <2> QED
    BY <2>1
<1> QED
  BY <1>1, <1>2, <1>3, <1>4, <1>5, <1>6 DEF UserMoves, UserStep, UserTimeout

(* The numbers.  A step of the user thread only gives out the next one.    *)
LEMMA NumbersKept ==
  ASSUME Typed, Numbered, UserMoves \/ Hears
  PROVE  Numbered'
<1> USE DEF Numbered
<1>0. sn \in Nat /\ user \in Calls /\ RecvInOrder
  BY BoundsAssumption DEF Typed, TypeOK, RecvInOrder
<1>1. CASE UserMoves
  <2>1. CASE Request
    <3>1. /\ sn' = sn + 1 /\ UNCHANGED <<toClient, recv>>
          /\ user'.at = "ack" /\ user'.id = sn'
          /\ toServer' = toServer \cup {[cmd |-> user.cmd, to |-> user.to, id |-> sn']}
      BY <1>0, <2>1 DEF Request, Calls
    <3>2. \A q \in toServer : q.id \in Nat
      BY BoundsAssumption DEF Typed, TypeOK, Requests
    <3>3. \A m \in toClient : m.cmd # "CANCEL_REQ" => m.id \in Nat
      BY BoundsAssumption DEF Typed, TypeOK, Answers
    <3>4. recv.at # "idle" /\ recv.m.cmd # "CANCEL_REQ" => recv.m.id \in Nat
      BY BoundsAssumption DEF Typed, TypeOK, Answers
    <3> QED
      BY <1>0, <3>1, <3>2, <3>3, <3>4
  <2>2. CASE ~ Request
    <3>1. /\ UNCHANGED <<sn, toClient, recv>> /\ toServer' \subseteq toServer
      BY <1>1, <2>2 DEF UserMoves, UserStep, UserTimeout, open_monitor_remote, close_monitor,
         SubscribeStarts, Acknowledged, Answered, Failed, Return, SubscribeResult, Opened,
         DesubscribeStarts, UserLeaves, Goodbye, AfterDesubscribe, Closed, AckTimeout, RspTimeout,
         GiveUp, SlotExpires, client, network
    <3>2. user'.at \in {"ack", "rsp"} => user.at \in {"ack", "rsp"} /\ user'.id = user.id
      BY <1>1, <2>2, WaitStays
    <3> QED
      BY <3>1, <3>2
  <2> QED
    BY <2>1, <2>2
<1>2. CASE Hears
  <2>1. UNCHANGED sn /\ user'.at = user.at /\ user'.id = user.id
    BY <1>0, <1>2 DEF Calls, Hears, Receive, RecvStep, CancelRsp, Accept, Join, Joined, Refuse,
       Ended, RecvLeaves, NotifyOff, CloseNotify, trig_one_send_array, Environment, ServerAnswers,
       ServerCancels, Lose, client
  <2>2. toServer' \subseteq toServer
    BY <1>2 DEF Hears, Receive, RecvStep, CancelRsp, Accept, Join, Joined, Refuse, Ended,
       RecvLeaves, NotifyOff, CloseNotify, trig_one_send_array, Environment, ServerAnswers,
       ServerCancels, Lose, network
  <2>3. \A m \in toClient' : m.cmd # "CANCEL_REQ" => m.id <= sn
    <3>1. ASSUME NEW q \in toServer, ServerAnswers(q)
          PROVE  \A m \in toClient' : m \in toClient \/ m.id = q.id
      BY <3>1 DEF ServerAnswers
    <3>2. ASSUME NEW q \in subs, ServerCancels(q)
          PROVE  \A m \in toClient' : m \in toClient \/ m.cmd = "CANCEL_REQ"
      BY <3>2 DEF ServerCancels
    <3>3. CASE ~ \E q \in toServer : ServerAnswers(q)
      <4>1. CASE ~ \E q \in subs : ServerCancels(q)
        BY <1>2, <3>3, <4>1 DEF Hears, Receive, RecvStep, CancelRsp, Accept, Join, Joined, Refuse,
           Ended, RecvLeaves, NotifyOff, CloseNotify, trig_one_send_array, Environment, Lose,
           network
      <4> QED
        BY <3>2, <4>1
    <3> QED
      BY <3>1, <3>3
  <2>4. recv'.at # "idle" => \/ recv.at # "idle" /\ recv'.m = recv.m
                             \/ recv'.m \in toClient
    <3>1. ASSUME NEW m \in toClient, NEW twice \in BOOLEAN, Receive(m, twice)
          PROVE  recv'.m \in toClient
      BY <3>1 DEF Receive
    <3>2. CASE \E to \in RecvPoints : RecvGoes(to) /\ recv.at # "idle"
      BY <1>0, <3>2, RecvMoves
    <3>3. CASE RecvStep
      BY <3>2, <3>3 DEF RecvStep, CancelRsp, Accept, Join, Joined, Refuse, Ended, RecvLeaves, Leave,
         NotifyOff, CloseNotify, trig_one_send_array, RecvPoints
    <3>4. CASE Environment
      BY <3>4 DEF Environment, ServerAnswers, ServerCancels, Lose
    <3> QED
      BY <1>2, <3>1, <3>3, <3>4 DEF Hears
  <2> QED
    BY <2>1, <2>2, <2>3, <2>4
<1> QED
  BY <1>1, <1>2
-----------------------------------------------------------------------------
(* No step but SubscribeStarts puts a client in SUBSCRIBE, and no step of  *)
(* the user thread ends its wait while it is there.                        *)
LEMMA UserSettles ==
  ASSUME Inv, UserMoves
  PROVE  Settled' /\ NeverStuckSubscribing'
<1> USE DEF Inv, Typed, TypeOK
<1>1. CASE SubscribeStarts
  <2>1. (user'.at = "request" /\ user'.cmd = "SUBSCRIBE_REQ") \/ state' # "SUBSCRIBE"
    <3>1. CASE state = "IDLE"
      BY <1>1, <3>1 DEF SubscribeStarts, Calls
    <3>2. CASE state = "SUBSCRIBE"
      BY <1>1, <3>2 DEF NeverStuckSubscribing, SubscribeStarts
    <3>3. CASE state = "ACTIVE"
      BY <1>1, <3>3 DEF SubscribeStarts
    <3> QED
      BY <3>1, <3>2, <3>3
  <2>2. user'.at \notin {"ack", "rsp"}
    BY <1>1 DEF SubscribeStarts, Calls
  <2> QED
    BY <2>1, <2>2 DEF Settled, Waiting, NeverStuckSubscribing, Subscribing
<1>2. CASE Request
  <2>1. /\ user.at = "request" /\ sn \in Nat /\ UNCHANGED <<state, recv>>
        /\ user'.at = "ack" /\ user'.cmd = user.cmd /\ user'.slot = "armed"
        /\ user'.id = sn + 1
    BY <1>2, BoundsAssumption DEF Request, Calls
  <2>2. ~ (/\ recv.at \in {"join", "joined", "trig"}
           /\ recv.m.cmd = "SUBSCRIBE_RSP" /\ recv.m.id = sn + 1)
    BY <2>1 DEF Numbered
  <2> QED
    BY <2>1, <2>2 DEF Settled, Waiting, NeverStuckSubscribing, Subscribing
<1>3. CASE ~ SubscribeStarts /\ ~ Request
  <2>1. UNCHANGED recv
    BY <1>3 DEF UserMoves, UserStep, UserTimeout, open_monitor_remote, close_monitor,
       Acknowledged, Answered, Failed, Return, SubscribeResult, Opened, DesubscribeStarts,
       UserLeaves, Goodbye, AfterDesubscribe, Closed, AckTimeout, RspTimeout, GiveUp, SlotExpires
  <2>2. Settled'
    BY <1>3, <2>1, WaitStays DEF Settled, Waiting, Subscribing
  <2>3. ASSUME state' = "SUBSCRIBE"
        PROVE  user'.at \in {"request", "ack", "rsp"} /\ user'.cmd = "SUBSCRIBE_REQ"
    <3>1. state = "SUBSCRIBE"
      BY <1>3, <2>3 DEF UserMoves, UserStep, UserTimeout, open_monitor_remote, close_monitor,
         Acknowledged, Answered, Failed, Return, SubscribeResult, Opened, DesubscribeStarts,
         UserLeaves, Leave, Goodbye, AfterDesubscribe, Closed, AckTimeout, RspTimeout, GiveUp,
         SlotExpires, client
    <3>2. user.at \in {"request", "ack", "rsp"} /\ Subscribing
      BY <3>1 DEF NeverStuckSubscribing
    <3>3. Acknowledged \/ SlotExpires
      BY <1>3, <2>3, <3>1, <3>2 DEF Settled, Waiting, UserMoves, UserStep, UserTimeout,
         open_monitor_remote, close_monitor, Answered, Failed, Return, SubscribeResult, Opened,
         DesubscribeStarts, UserLeaves, Leave, Goodbye, AfterDesubscribe, Closed, AckTimeout,
         RspTimeout, GiveUp
    <3> QED
      BY <3>2, <3>3 DEF Acknowledged, SlotExpires, UserGoes, Calls, Subscribing
  <2> QED
    BY <2>2, <2>3 DEF NeverStuckSubscribing, Subscribing
<1> QED
  BY <1>1, <1>2, <1>3

(* recv only takes a client out of SUBSCRIBE, and does so before it posts  *)
(* the answer the user waits for.                                          *)
LEMMA HearsSettles ==
  ASSUME Inv, Hears
  PROVE  Settled' /\ NeverStuckSubscribing'
<1> USE DEF Inv
<1>0. user \in Calls /\ RecvInOrder
  BY DEF Typed, TypeOK, RecvInOrder
<1>1. state' = "SUBSCRIBE" => state = "SUBSCRIBE"
  BY DEF Hears, Receive, RecvStep, CancelRsp, Accept, Join, Joined, Refuse, Ended, RecvLeaves, Leave,
     NotifyOff, CloseNotify, trig_one_send_array, Environment, ServerAnswers, ServerCancels, Lose,
     client
<1>2. user'.at = user.at /\ user'.cmd = user.cmd /\ user'.id = user.id
  BY <1>0 DEF Calls, Hears, Receive, RecvStep, CancelRsp, Accept, Join, Joined, Refuse, Ended,
     RecvLeaves, NotifyOff, CloseNotify, trig_one_send_array, Environment, ServerAnswers,
     ServerCancels, Lose
<1>3. NeverStuckSubscribing'
  BY <1>1, <1>2 DEF NeverStuckSubscribing, Subscribing
<1>4. user'.slot = "posted" =>
        \/ user.slot = "posted"
        \/ recv.at = "trig" /\ user.id = recv.m.id /\ AnswerTo(user.cmd) = recv.m.cmd
  BY <1>0 DEF Calls, Hears, Receive, RecvStep, CancelRsp, Accept, Join, Joined, Refuse, Ended,
     RecvLeaves, NotifyOff, CloseNotify, trig_one_send_array, Environment, ServerAnswers,
     ServerCancels, Lose, IsAnswer
<1>5. Waiting' /\ user'.slot = "posted" => state' # "SUBSCRIBE"
  BY <1>1, <1>2, <1>4 DEF Settled, Waiting, Subscribing, AnswerTo
<1>6. ASSUME Waiting', recv'.at \in {"join", "joined", "trig"},
             recv'.m.cmd = "SUBSCRIBE_RSP", recv'.m.id = user'.id
      PROVE  state' # "SUBSCRIBE"
  <2>1. ASSUME NEW m \in toClient, NEW twice \in BOOLEAN, Receive(m, twice)
        PROVE  state' # "SUBSCRIBE"
    BY <1>2, <1>6, <2>1 DEF Receive, FirstPoint, Accepts, client, Numbered, Waiting
  <2>2. CASE Accept \/ Joined \/ Refuse \/ CancelRsp \/ Ended
    BY <2>2 DEF Accept, Joined, Refuse, CancelRsp, Ended
  <2>3. CASE Join
    <3>1. recv.at = "join" /\ recv'.m = recv.m /\ UNCHANGED state
      BY <1>0, <2>3, RecvMoves DEF Join, RecvPoints, client
    <3> QED
      BY <1>2, <1>6, <3>1 DEF Settled, Waiting, Subscribing
  <2>4. CASE RecvLeaves
    <3>1. state' = "IDLE" \/ (RecvGoes("left") /\ recv.at = "leave")
      BY <2>4 DEF RecvLeaves, Leave
    <3>2. RecvGoes("left") /\ recv.at = "leave" => recv'.at = "left"
      BY <1>0, RecvMoves DEF RecvPoints
    <3> QED
      BY <1>6, <3>1, <3>2
  <2>5. CASE NotifyOff \/ CloseNotify \/ trig_one_send_array
    <3>1. recv.at # "idle" /\ (RecvGoes("close") \/ RecvGoes("idle"))
      BY <2>5 DEF NotifyOff, CloseNotify, trig_one_send_array
    <3>2. recv'.at \in {"close", "idle"}
      BY <1>0, <3>1, RecvMoves DEF RecvPoints
    <3> QED
      BY <1>6, <3>2
  <2>6. CASE Environment
    <3>1. UNCHANGED <<recv, state, user>>
      BY <2>6 DEF Environment, ServerAnswers, ServerCancels, Lose, client
    <3> QED
      BY <1>6, <3>1 DEF Settled, Waiting, Subscribing
  <2> QED
    BY <2>1, <2>2, <2>3, <2>4, <2>5, <2>6 DEF Hears, RecvStep
<1> QED
  BY <1>3, <1>5, <1>6 DEF Settled

LEMMA StepKeeps == Inv /\ [Next]_vars => Inv'
<1>1. CASE UNCHANGED vars
  BY <1>1 DEF vars, client, control, network, Inv, Typed, TypeOK, ClosedByOne, Shown, Calling,
     Numbered, Settled, Waiting, NeverStuckSubscribing, Subscribing
<1>2. CASE Next
  <2>1. Next => UserMoves \/ Hears
    BY DEF Next, UserMoves, Hears
  <2> QED
    BY <1>2, <2>1, UserTyped, HearsTyped, NumbersKept, UserSettles, HearsSettles DEF Inv
<1> QED
  BY <1>1, <1>2
-----------------------------------------------------------------------------
(* Where the threads are when the client is active, or its display open,   *)
(* as long as the user has not been overtaken.                             *)

(* recv carries an answer out while the user still waits for one.          *)
Awaited == Carrying => /\ user.at \in {"request", "ack", "rsp"} /\ Subscribing
                       /\ user.at = "request" \/ user.slot # "posted"
                       /\ recv.at \in {"accept", "refuse"} => state = "SUBSCRIBE"
                       /\ recv.at \in {"join", "joined"} => state = "ACTIVE"
                       /\ recv.at = "joined" => Running

ActiveIsOpen == state = "ACTIVE" => Running \/ recv.at = "join" \/ user.at = "left"
LeavingIsIdle == recv.at \in {"leave", "left"} => state # "ACTIVE"
OpenIsActive == type = "multicast" /\ Running => state = "ACTIVE" \/ recv.at = "leave"
GoneIsClosed == user.at = "goodbye" => ~Running

(* The message that will tell the user its subscription was accepted.      *)
AcceptedIsActive ==
  /\ /\ user.at \in {"request", "ack", "rsp", "return"} /\ Subscribing
     /\ msg = "REQ_OK" /\ Running
     => state # "IDLE" \/ recv.at = "leave"
  /\ user.at = "result" /\ user.got = "REQ_OK" /\ Running
     => state = "ACTIVE" \/ recv.at = "leave"

Together == /\ Awaited /\ ActiveIsOpen /\ LeavingIsIdle /\ OpenIsActive /\ GoneIsClosed
            /\ AcceptedIsActive

(* What a call that gives up returns.                                      *)
FailedIsNotOk == user.at = "failed" => user.got # "REQ_OK"

Received == FailedIsNotOk /\ (overtaken # "now" => Together)

LEMMA ReceivedInit == Init => Received
  BY DEF Init, Received, FailedIsNotOk, Together, Awaited, Carrying, ActiveIsOpen, LeavingIsIdle,
     OpenIsActive, GoneIsClosed, AcceptedIsActive, NoCall, NoMsg

LEMMA FailedKept ==
  ASSUME Inv, FailedIsNotOk, [Next]_vars
  PROVE  FailedIsNotOk'
<1> USE Idle DEF Inv, Typed, TypeOK, FailedIsNotOk
<1>0. user \in Calls
  OBVIOUS
<1>1. CASE UserTimeout
  BY <1>0, <1>1 DEF UserTimeout, AckTimeout, RspTimeout, GiveUp, SlotExpires, Calls
<1>2. CASE UserStep
  <2>1. CASE SubscribeResult
    <3>1. \/ user' = [user EXCEPT !.at = "opened"]
          \/ user' = [user EXCEPT !.at = "subscribe", !.to = proxy, !.second = TRUE]
          \/ user' = NoCall
      BY <2>1 DEF SubscribeResult, UserGoes
    <3> QED
      BY <1>0, <3>1 DEF Calls
  <2>2. CASE SubscribeStarts \/ Request \/ Acknowledged \/ Answered \/ Failed \/ Return
    BY <1>0, <2>2 DEF SubscribeStarts, Request, Acknowledged, Answered, Failed, Return, UserGoes,
       Calls
  <2>3. CASE Opened \/ DesubscribeStarts \/ UserLeaves \/ Goodbye \/ AfterDesubscribe \/ Closed
    BY <1>0, <2>3 DEF Opened, DesubscribeStarts, UserLeaves, Leave, Goodbye, AfterDesubscribe,
       Closed, UserGoes, Calls
  <2> QED
    BY <1>2, <2>1, <2>2, <2>3 DEF UserStep
<1>3. CASE (\E s \in Servers : open_monitor_remote(s)) \/ close_monitor
  BY <1>3 DEF open_monitor_remote, close_monitor, NoCall, api_video_client_turn_on,
     api_video_c_service_turn_off
<1>4. CASE Hears
  <2>1. user' \in {user, [user EXCEPT !.slot = "posted"]}
    BY <1>4 DEF Hears, Receive, RecvStep, CancelRsp, Accept, Join, Joined, Refuse,
       Ended, RecvLeaves, NotifyOff, CloseNotify, trig_one_send_array, Environment, ServerAnswers,
       ServerCancels, Lose
  <2> QED
    BY <1>0, <2>1 DEF Calls
<1>5. CASE UNCHANGED vars
  BY <1>5 DEF vars
<1> QED
  BY <1>1, <1>2, <1>3, <1>4, <1>5 DEF Next, Hears

(* The user thread begins a call, makes its request, or is answered.       *)
LEMMA CallTogether ==
  ASSUME Inv, Received, overtaken # "now", overtaken' # "now",
         \/ \E s \in Servers : open_monitor_remote(s)
         \/ close_monitor \/ SubscribeStarts \/ Request \/ Acknowledged \/ Answered \/ Failed \/ Return
  PROVE  Together'
<1> USE DEF Inv, Typed, TypeOK, Received
<1>0. /\ user \in Calls /\ Awaited /\ ActiveIsOpen /\ LeavingIsIdle /\ OpenIsActive /\ GoneIsClosed
      /\ AcceptedIsActive /\ NeverStuckSubscribing
  BY DEF Together
<1>1. ASSUME UNCHANGED <<state, display, recv>>, type' = "multicast" => type = "multicast",
             user.at # "left", Awaited', user'.at # "goodbye", AcceptedIsActive'
      PROVE  Together'
  BY <1>0, <1>1 DEF Together, ActiveIsOpen, LeavingIsIdle, OpenIsActive, GoneIsClosed, Running, Shown
<1>2. CASE (\E s \in Servers : open_monitor_remote(s)) \/ close_monitor
  <2>1. /\ user.at = "idle" /\ user'.at \in {"subscribe", "opened", "desubscribe", "closed", "next"}
        /\ UNCHANGED <<state, display, recv>> /\ (type' = "multicast" => type = "multicast")
    BY <1>2 DEF open_monitor_remote, close_monitor, NoCall, api_video_client_turn_on,
       api_video_c_service_turn_off, client, control
  <2>2. Awaited' /\ AcceptedIsActive'
    BY <1>0, <2>1 DEF Awaited, Carrying, AcceptedIsActive
  <2> QED
    BY <1>1, <2>1, <2>2
<1>3. CASE SubscribeStarts
  <2>1. user.at = "subscribe" /\ UNCHANGED <<display, recv, type>> /\ ~ Carrying
    BY <1>0, <1>3 DEF SubscribeStarts, Awaited
  <2>2. CASE state = "IDLE"
    <3>1. state' = "SUBSCRIBE" /\ user'.at = "request" /\ type' = "none"
      BY <1>0, <1>3, <2>1, <2>2 DEF SubscribeStarts, Calls, Calling
    <3> QED
      BY <2>1, <3>1 DEF Together, Awaited, Carrying, ActiveIsOpen, LeavingIsIdle, OpenIsActive,
         GoneIsClosed, AcceptedIsActive
  <2>3. CASE state # "IDLE"
    <3>1. UNCHANGED state /\ user'.at = "result" /\ user'.got = "REQ_BUSY"
      BY <1>0, <1>3, <2>3 DEF SubscribeStarts, Calls
    <3>2. Awaited' /\ AcceptedIsActive'
      BY <2>1, <3>1 DEF Awaited, Carrying, AcceptedIsActive
    <3> QED
      BY <1>1, <2>1, <3>1, <3>2
  <2> QED
    BY <2>2, <2>3
<1>4. CASE Request \/ Acknowledged
  <2>1. /\ user.at \in {"request", "ack"} /\ user'.at \in {"ack", "rsp"} /\ user'.cmd = user.cmd
        /\ (user.at = "ack" /\ user'.slot = user.slot) \/ user'.slot = "armed"
        /\ UNCHANGED <<state, display, recv, type, msg>>
    BY <1>0, <1>4 DEF Request, Acknowledged, UserGoes, Calls, client, control
  <2>2. Awaited' /\ AcceptedIsActive'
    BY <1>0, <2>1 DEF Awaited, Carrying, AcceptedIsActive, Subscribing, Running, Shown
  <2> QED
    BY <1>1, <2>1, <2>2
<1>5. CASE Answered
  <2>1. /\ user.at = "rsp" /\ user.slot = "posted" /\ user'.at = "return" /\ user'.cmd = user.cmd
        /\ UNCHANGED <<state, display, recv, type>> /\ (Subscribing => UNCHANGED msg)
    BY <1>0, <1>5 DEF Answered, Calls, control
  <2>2. Awaited' /\ AcceptedIsActive'
    BY <1>0, <2>1 DEF Awaited, Carrying, AcceptedIsActive, Subscribing, Running, Shown
  <2> QED
    BY <1>1, <2>1, <2>2
<1>6. CASE Failed
  <2>1. /\ user.at = "failed" /\ user'.at = "return" /\ msg' # "REQ_OK"
        /\ UNCHANGED <<state, display, recv, type>>
    BY <1>0, <1>6 DEF Failed, UserGoes, Calls, control, FailedIsNotOk
  <2>2. Awaited' /\ AcceptedIsActive'
    BY <1>0, <2>1 DEF Awaited, Carrying, AcceptedIsActive
  <2> QED
    BY <1>1, <2>1, <2>2
<1>7. CASE Return
  <2>1. /\ user.at = "return" /\ user'.got = msg
        /\ user'.at = IF Subscribing THEN "result" ELSE "next"
        /\ UNCHANGED <<state, display, recv, type>>
    BY <1>0, <1>7 DEF Return, Calls, control, client
  <2>2. state # "SUBSCRIBE"
    BY <1>0, <2>1 DEF NeverStuckSubscribing
  <2>3. Awaited' /\ AcceptedIsActive'
    BY <1>0, <2>1, <2>2 DEF Awaited, Carrying, AcceptedIsActive, Running, Shown
  <2> QED
    BY <1>1, <2>1, <2>3
<1> QED
  BY <1>2, <1>3, <1>4, <1>5, <1>6, <1>7

(* It goes on with the result, gives up, or closes.                        *)
LEMMA CloseTogether ==
  ASSUME Inv, Received, overtaken # "now", overtaken' # "now",
         \/ SubscribeResult \/ Opened \/ DesubscribeStarts \/ UserLeaves \/ Goodbye
         \/ AfterDesubscribe \/ Closed \/ UserTimeout
  PROVE  Together'
<1> USE Idle DEF Inv, Typed, TypeOK, Received
<1>0. /\ user \in Calls /\ Awaited /\ ActiveIsOpen /\ LeavingIsIdle /\ OpenIsActive /\ GoneIsClosed
      /\ AcceptedIsActive /\ NeverStuckSubscribing
  BY DEF Together
<1>1. ASSUME UNCHANGED <<state, display, recv>>, type' = "multicast" => type = "multicast",
             user.at # "left", Awaited', user'.at # "goodbye", AcceptedIsActive'
      PROVE  Together'
  BY <1>0, <1>1 DEF Together, ActiveIsOpen, LeavingIsIdle, OpenIsActive, GoneIsClosed, Running, Shown
<1>2. CASE SubscribeResult
  <2>1. /\ user.at = "result" /\ UNCHANGED <<state, display, recv>>
        /\ type' = type \/ user.got = "REQ_OK"
    BY <1>2 DEF SubscribeResult, client
  <2>2. \/ user' = [user EXCEPT !.at = "opened"]
        \/ user' = [user EXCEPT !.at = "subscribe", !.to = proxy, !.second = TRUE]
        \/ user' = NoCall
    BY <1>2 DEF SubscribeResult, UserGoes
  <2>3. user'.at \in {"opened", "subscribe", "idle"}
    BY <1>0, <2>2 DEF Calls
  <2>4. Awaited' /\ AcceptedIsActive'
    BY <1>0, <2>1, <2>3 DEF Awaited, Carrying, AcceptedIsActive
  <2>5. CASE type' = type
    BY <1>1, <2>1, <2>3, <2>4, <2>5
  <2>6. CASE user.got = "REQ_OK"
    BY <1>0, <2>1, <2>3, <2>4, <2>6 DEF Together, ActiveIsOpen, LeavingIsIdle, OpenIsActive,
       GoneIsClosed, AcceptedIsActive, Running, Shown
  <2> QED
    BY <2>1, <2>5, <2>6
<1>3. CASE Opened \/ DesubscribeStarts \/ AfterDesubscribe \/ Closed
  <2>1. /\ user.at \in {"opened", "desubscribe", "next", "closed"}
        /\ UNCHANGED <<state, display, recv>> /\ (type' = "multicast" => type = "multicast")
    BY <1>3 DEF Opened, DesubscribeStarts, AfterDesubscribe, Closed, client, control
  <2>2. user'.at \in {"idle", "next", "leave", "subscribe", "closed"}
    BY <1>0, <1>3 DEF Opened, DesubscribeStarts, AfterDesubscribe, Closed, UserGoes, Calls,
       NeverStuckSubscribing
  <2>3. Awaited' /\ AcceptedIsActive'
    BY <1>0, <2>1, <2>2 DEF Awaited, Carrying, AcceptedIsActive
  <2> QED
    BY <1>1, <2>1, <2>2, <2>3
<1>4. CASE UserLeaves
  <2>1. user.at \in {"leave", "left"} /\ UNCHANGED <<recv, type>> /\ ~ Carrying
    BY <1>0, <1>4 DEF UserLeaves, Leave, control, Awaited
  <2>2. user'.at \in {"left", "goodbye"}
    BY <1>0, <1>4 DEF UserLeaves, UserGoes, Calls
  <2>3. \/ user'.at = "left" /\ ~ Running' /\ UNCHANGED state
        \/ ~ Running' /\ state' = "IDLE"
    BY <1>0, <1>4 DEF UserLeaves, UserGoes, Calls, Leave, Running, Shown, DisableStarts, DisableEnds
  <2> QED
    BY <1>0, <2>1, <2>2, <2>3 DEF Together, Awaited, Carrying, ActiveIsOpen, LeavingIsIdle,
       OpenIsActive, GoneIsClosed, AcceptedIsActive
<1>5. CASE Goodbye
  <2>1. /\ user.at = "goodbye" /\ UNCHANGED <<display, recv, type>> /\ ~ Carrying
        /\ state' = "IDLE" /\ user'.at = "request" /\ user'.cmd = "DESUBSCRIBE_REQ"
    BY <1>0, <1>5 DEF Goodbye, Calls, control, Awaited
  <2>2. ~ Running'
    BY <1>0, <2>1 DEF GoneIsClosed, Running, Shown
  <2> QED
    BY <2>1, <2>2 DEF Together, Awaited, Carrying, ActiveIsOpen, LeavingIsIdle, OpenIsActive,
       GoneIsClosed, AcceptedIsActive
<1>6. CASE AckTimeout \/ RspTimeout
  <2>1. /\ user.at \in {"ack", "rsp"} /\ user'.at = "failed" /\ UNCHANGED <<display, recv, type>>
        /\ state' = IF Subscribing THEN "IDLE" ELSE state
        /\ Subscribing => ~ Carrying
    BY <1>0, <1>6 DEF AckTimeout, RspTimeout, GiveUp, Calls
  <2>2. ~ Carrying /\ Awaited' /\ AcceptedIsActive'
    BY <1>0, <2>1 DEF Awaited, Carrying, AcceptedIsActive
  <2>3. CASE Subscribing
    <3>1. type = "none" /\ state' = "IDLE"
      BY <2>1, <2>3 DEF Calling
    <3> QED
      BY <2>1, <2>2, <3>1 DEF Together, ActiveIsOpen, LeavingIsIdle, OpenIsActive, GoneIsClosed
  <2>4. CASE ~ Subscribing
    BY <1>1, <2>1, <2>2, <2>4
  <2> QED
    BY <2>3, <2>4
<1>7. CASE SlotExpires
  <2>1. /\ user.at \in {"ack", "rsp"} /\ user'.at = user.at /\ user'.cmd = user.cmd
        /\ user'.slot = "free" /\ UNCHANGED <<state, msg, display, recv, type>>
    BY <1>0, <1>7 DEF SlotExpires, Calls, client, control
  <2>2. Awaited' /\ AcceptedIsActive'
    BY <1>0, <2>1 DEF Awaited, Carrying, AcceptedIsActive, Subscribing, Running, Shown
  <2> QED
    BY <1>1, <2>1, <2>2
<1> QED
  BY <1>2, <1>3, <1>4, <1>5, <1>6, <1>7 DEF UserTimeout

(* recv takes a message, and carries an answer out.                        *)
LEMMA AnswerTogether ==
  ASSUME Inv, Received, overtaken # "now",
         \/ \E m \in toClient, twice \in BOOLEAN : Receive(m, twice)
         \/ Accept \/ Join \/ Joined \/ Refuse
  PROVE  Together'
<1> USE DEF Inv, Typed, TypeOK, Received
<1>0. /\ user \in Calls /\ RecvInOrder /\ Awaited /\ ActiveIsOpen /\ LeavingIsIdle /\ OpenIsActive
      /\ GoneIsClosed /\ AcceptedIsActive /\ NeverStuckSubscribing
  BY DEF Together, RecvInOrder
<1>1. ASSUME NEW m \in toClient, NEW twice \in BOOLEAN, Receive(m, twice)
      PROVE  Together'
  <2>1. recv.at = "idle" /\ recv'.at = FirstPoint(m) /\ UNCHANGED <<state, msg, display, user, type>>
    BY <1>1 DEF Receive, client, control
  <2>2. /\ recv'.at \in {"cancelled", "ended", "trig", "accept", "refuse"}
        /\ recv'.at \in {"accept", "refuse"} => state = "SUBSCRIBE"
    BY <2>1 DEF FirstPoint, Accepts
  <2>3. state = "SUBSCRIBE" => /\ user.at \in {"request", "ack", "rsp"} /\ Subscribing
                               /\ user.at = "request" \/ user.slot # "posted"
    BY DEF NeverStuckSubscribing, Settled, Waiting
  <2>4. Awaited'
    BY <2>1, <2>2, <2>3 DEF Awaited, Carrying, Subscribing
  <2> QED
    BY <1>0, <2>1, <2>2, <2>4 DEF Together, ActiveIsOpen, LeavingIsIdle, OpenIsActive, GoneIsClosed,
       AcceptedIsActive, Running, Shown, Subscribing
<1>2. CASE Accept
  <2>1. /\ recv.at = "accept" /\ recv'.at = "join" /\ UNCHANGED <<user, display, type>>
        /\ state' = "ACTIVE"
    BY <1>0, <1>2, RecvMoves DEF Accept, RecvPoints, control
  <2> QED
    BY <1>0, <2>1 DEF Together, Awaited, Carrying, ActiveIsOpen, LeavingIsIdle, OpenIsActive,
       GoneIsClosed, AcceptedIsActive, Running, Shown, Subscribing
<1>3. CASE Join
  <2>1. /\ recv.at = "join" /\ recv'.at = "joined" /\ UNCHANGED <<user, type, state>>
        /\ state = "ACTIVE" /\ recv.m.from \in Servers
    BY <1>0, <1>3, RecvMoves DEF Join, RecvPoints, control, client, Awaited, Carrying, Answers
  <2>2. ~ display.closing
    BY <1>0, <2>1 DEF ClosedByOne, Awaited, Carrying
  <2>3. Running'
    BY <1>3, <2>1, <2>2, ServersAssumption DEF Join, EnableVideoDisplay, Running, Shown
  <2> QED
    BY <1>0, <2>1, <2>3 DEF Together, Awaited, Carrying, ActiveIsOpen, LeavingIsIdle, OpenIsActive,
       GoneIsClosed, AcceptedIsActive, Subscribing
<1>4. CASE Joined
  <2>1. /\ recv.at = "joined" /\ recv'.at = "trig" /\ UNCHANGED <<user, type, display>>
        /\ state' = "ACTIVE" /\ Running
    BY <1>0, <1>4, RecvMoves DEF Joined, RecvPoints, control, Awaited, Carrying
  <2> QED
    BY <1>0, <2>1 DEF Together, Awaited, Carrying, ActiveIsOpen, LeavingIsIdle, OpenIsActive,
       GoneIsClosed, AcceptedIsActive, Running, Shown, Subscribing
<1>5. CASE Refuse
  <2>1. /\ recv.at = "refuse" /\ recv'.at = "trig" /\ UNCHANGED <<user, type, display>>
        /\ state' = "IDLE" /\ msg' # "REQ_OK"
    BY <1>0, <1>5, RecvMoves DEF Refuse, RecvPoints, control
  <2>2. type = "none" /\ user.at \in {"request", "ack", "rsp"}
    BY <1>0, <2>1 DEF Awaited, Carrying, Calling
  <2> QED
    BY <1>0, <2>1, <2>2 DEF Together, Awaited, Carrying, ActiveIsOpen, LeavingIsIdle, OpenIsActive,
       GoneIsClosed, AcceptedIsActive
<1> QED
  BY <1>1, <1>2, <1>3, <1>4, <1>5

(* recv ends a subscription, and what it does in every case; the servers.  *)
LEMMA EndTogether ==
  ASSUME Inv, Received, overtaken # "now",
         \/ CancelRsp \/ Ended \/ RecvLeaves \/ NotifyOff \/ CloseNotify \/ trig_one_send_array
         \/ Environment
  PROVE  Together'
<1> USE DEF Inv, Typed, TypeOK, Received
<1>0. /\ user \in Calls /\ RecvInOrder /\ Awaited /\ ActiveIsOpen /\ LeavingIsIdle /\ OpenIsActive
      /\ GoneIsClosed /\ AcceptedIsActive
  BY DEF Together, RecvInOrder
<1>1. CASE CancelRsp \/ Ended
  <2>1. /\ recv'.at = "leave" /\ UNCHANGED <<user, type, display>> /\ state' = "IDLE"
    BY <1>0, <1>1, RecvMoves DEF CancelRsp, Ended, RecvPoints, control
  <2> QED
    BY <1>0, <2>1 DEF Together, Awaited, Carrying, ActiveIsOpen, LeavingIsIdle, OpenIsActive,
       GoneIsClosed, AcceptedIsActive, Running, Shown
<1>2. CASE RecvLeaves
  <2>1. recv.at \in {"leave", "left"} /\ UNCHANGED <<user, type, msg>>
    BY <1>2 DEF RecvLeaves, Leave, control
  <2>2. recv'.at \in {"left", "notify", "trig"}
    <3>1. RecvGoes("left") \/ RecvGoes("notify") \/ RecvGoes("trig")
      BY <1>2 DEF RecvLeaves
    <3> QED
      BY <1>0, <2>1, <3>1, RecvMoves DEF RecvPoints
  <2>3. ~ Running' /\ state' # "ACTIVE"
    BY <1>0, <1>2 DEF RecvLeaves, Leave, Running, Shown, DisableStarts, DisableEnds, LeavingIsIdle
  <2> QED
    BY <1>0, <2>2, <2>3 DEF Together, Awaited, Carrying, ActiveIsOpen, LeavingIsIdle, OpenIsActive,
       GoneIsClosed, AcceptedIsActive
<1>3. CASE NotifyOff \/ CloseNotify
  <2>1. /\ recv.at \in {"notify", "close"} /\ UNCHANGED <<user, state, msg, display>>
        /\ type' = "multicast" => type = "multicast"
    BY <1>3 DEF NotifyOff, CloseNotify, client
  <2>2. recv'.at \in {"close", "idle"}
    <3>1. RecvGoes("close") \/ RecvGoes("idle")
      BY <1>3 DEF NotifyOff, CloseNotify
    <3> QED
      BY <1>0, <2>1, <3>1, RecvMoves DEF RecvPoints
  <2> QED
    BY <1>0, <2>1, <2>2 DEF Together, Awaited, Carrying, ActiveIsOpen, LeavingIsIdle, OpenIsActive,
       GoneIsClosed, AcceptedIsActive, Running, Shown, Subscribing
<1>4. CASE trig_one_send_array
  <2>1. /\ recv.at = "trig" /\ recv'.at = "idle" /\ UNCHANGED <<state, msg, display, type>>
    BY <1>0, <1>4, RecvMoves DEF trig_one_send_array, RecvPoints, client, control
  <2>2. user' \in {user, [user EXCEPT !.slot = "posted"]}
    BY <1>4 DEF trig_one_send_array
  <2>3. user'.at = user.at /\ user'.cmd = user.cmd /\ user'.got = user.got
    BY <1>0, <2>2 DEF Calls
  <2> QED
    BY <1>0, <2>1, <2>3 DEF Together, Awaited, Carrying, ActiveIsOpen, LeavingIsIdle, OpenIsActive,
       GoneIsClosed, AcceptedIsActive, Running, Shown, Subscribing
<1>5. CASE Environment
  <2>1. UNCHANGED <<state, msg, display, type, user, recv>>
    BY <1>5 DEF Environment, ServerAnswers, ServerCancels, Lose, client, control
  <2> QED
    BY <1>0, <2>1 DEF Together, Awaited, Carrying, ActiveIsOpen, LeavingIsIdle, OpenIsActive,
       GoneIsClosed, AcceptedIsActive, Running, Shown, Subscribing
<1> QED
  BY <1>1, <1>2, <1>3, <1>4, <1>5

(* A user that is not overtaken was not so before, or begins a new call.   *)
LEMMA NewCallTogether ==
  ASSUME Inv, overtaken = "now", overtaken' # "now", [Next]_vars
  PROVE  Together'
<1> USE DEF Inv, Typed, TypeOK
<1>1. SubscribeStarts /\ state = "IDLE" /\ ~ Carrying
  BY DEF Next, UserStep, UserTimeout, open_monitor_remote, close_monitor, SubscribeStarts, Request,
     Acknowledged, Answered, Failed, Return, SubscribeResult, Opened, DesubscribeStarts, UserLeaves,
     Goodbye, AfterDesubscribe, Closed, AckTimeout, RspTimeout, GiveUp, SlotExpires, Receive,
     RecvStep, CancelRsp, Accept, Join, Joined, Refuse, Ended, RecvLeaves, NotifyOff, CloseNotify,
     trig_one_send_array, Environment, ServerAnswers, ServerCancels, Lose, Before, control, vars
<1>2. /\ UNCHANGED <<display, recv>> /\ state' = "SUBSCRIBE" /\ user'.at = "request"
      /\ type' = "none"
  BY <1>1 DEF SubscribeStarts, Calls, Calling
<1> QED
  BY <1>1, <1>2 DEF Together, Awaited, Carrying, ActiveIsOpen, LeavingIsIdle, OpenIsActive,
     GoneIsClosed, AcceptedIsActive

LEMMA ReceivedKept == Inv /\ Received /\ [Next]_vars => Received'
<1> SUFFICES ASSUME Inv, Received, [Next]_vars PROVE Received'
  OBVIOUS
<1>1. FailedIsNotOk'
  BY FailedKept DEF Received
<1>2. ASSUME overtaken' # "now" PROVE Together'
  <2>1. CASE overtaken = "now"
    BY <1>2, <2>1, NewCallTogether
  <2>2. CASE overtaken # "now" /\ Next
    BY <1>2, <2>2, CallTogether, CloseTogether, AnswerTogether, EndTogether
       DEF Next, UserStep, RecvStep
  <2>3. CASE overtaken # "now" /\ UNCHANGED vars
    BY <2>3 DEF Received, vars, client, control, network, Together, Awaited, Carrying,
       ActiveIsOpen, LeavingIsIdle, OpenIsActive, GoneIsClosed, AcceptedIsActive, Running, Shown,
       Subscribing
  <2> QED
    BY <2>1, <2>2, <2>3
<1> QED
  BY <1>1, <1>2 DEF Received

-----------------------------------------------------------------------------
(* Every variable of the client, the control above it and the monitor      *)
(* keeps to its type, and only one thread at a time closes the display.    *)
THEOREM ClientTypeCorrect == Spec => []TypeOK
<1>1. Inv => TypeOK
  BY DEF Inv, Typed
<1> QED
  BY InvInit, StepKeeps, <1>1, PTL DEF Spec

(* No order of the two threads, and no message lost, repeated or late,     *)
(* leaves the client in SUBSCRIBE, where every later request would find it *)
(* busy (video_multicast_client.c:204).                                    *)
THEOREM NeverLeftSubscribing == Spec => []NeverStuckSubscribing
<1>1. Inv => NeverStuckSubscribing
  BY DEF Inv
<1> QED
  BY InvInit, StepKeeps, <1>1, PTL DEF Spec

(* Between calls an active client has its display open, and the display a  *)
(* user has opened belongs to an active client, however the two threads    *)
(* met - but for a user that was overtaken, by recv that carried out the   *)
(* answer to a subscription the user had just given up                     *)
(* (video_multicast_client.c:122-137, 231-246, 270).                       *)
THEOREM ActiveClientReceives == Spec => []ActiveMeansReceiving
<1>1. Inv /\ Received => ActiveMeansReceiving
  BY DEF Received, ActiveMeansReceiving, BetweenCalls, Together, ActiveIsOpen, OpenIsActive
<1>2. Init => Inv /\ Received
  BY InvInit, ReceivedInit
<1>3. Inv /\ Received /\ [Next]_vars => (Inv /\ Received)'
  BY StepKeeps, ReceivedKept
<1> QED
  BY <1>1, <1>2, <1>3, PTL DEF Spec
-----------------------------------------------------------------------------
(* The process.                                                            *)
Messages == [cmd : Process!Commands, for : Process!Procs]

Types == /\ caller \in {"idle", "settles", "terminates", "quits", "pclose"}
         /\ procs \in Nat /\ fd \in Process!Procs \cup {0}
         /\ proc \in [Process!Procs -> {"none", "starting", "up", "ended"}]
         /\ queue \in Seq(Messages)
         /\ client_fd \in Process!Procs \cup {0} /\ send_fd \in Process!Procs \cup {0}
         /\ got \in [Process!Procs -> Seq(Messages)]
         /\ trs \in {"off", "looks", "sends", "waits"}

Open == fd # 0

(* The process that runs is the one the program talks to, and the program  *)
(* is past its quit when it has ended.                                     *)
OneRuns == /\ \A p \in Process!Procs : /\ proc[p] \in {"starting", "up"} => p = fd
                                       /\ p > procs => proc[p] = "none"
           /\ Open /\ proc[fd] = "ended" => caller = "pclose"
           /\ caller # "idle" => Open

(* The queue is for the process that runs.                                 *)
QueueIsIts == /\ queue # <<>> => Open /\ proc[fd] # "ended" /\ caller # "settles"
              /\ \A i \in 1 .. Len(queue) :
                   /\ queue[i].for = fd
                   /\ queue[i].cmd = "quit" => i = Len(queue) /\ caller = "pclose"

(* And so is the connection, once it has settled.                          *)
ConnectionIsIts ==
  /\ client_fd # 0 => proc[client_fd] \in {"up", "ended"}
  /\ Open /\ caller # "settles" => client_fd \in {0, fd}
  /\ trs = "sends" => Open /\ send_fd = fd /\ proc[fd] = "up" /\ queue # <<>>

GotOwn == \A p \in Process!Procs : \A i \in 1 .. Len(got[p]) : got[p][i].for = p

Sound == Types /\ OneRuns /\ QueueIsIts /\ ConnectionIsIts /\ GotOwn

ProcessInv == ended \in Nat /\ (~ Process!crashed => Sound)
-----------------------------------------------------------------------------
LEMMA ProcessInvInit == Process!Init => ProcessInv
  BY DEF Process!Init, ProcessInv, Sound, Types, OneRuns, QueueIsIts, ConnectionIsIts, GotOwn, Open,
         Messages

(* A command that is pushed is for the process that runs.                  *)
LEMMA PushKeeps ==
  ASSUME Types, Open, QueueIsIts,
         NEW cmd \in Process!Commands, Process!push_Interactive_Buffer(cmd),
         proc[fd] # "ended", caller \in {"idle", "terminates", "quits"},
         UNCHANGED <<fd, proc>>, caller' # "settles",
         cmd = "quit" => caller' = "pclose"
  PROVE  queue' \in Seq(Messages) /\ QueueIsIts' /\ (queue # <<>> => queue' # <<>>)
<1>1. CASE UNCHANGED queue
  BY <1>1 DEF QueueIsIts, Types, Open
<1>2. CASE queue' = Append(queue, [cmd |-> cmd, for |-> fd])
  <2>1. [cmd |-> cmd, for |-> fd] \in Messages
    BY DEF Types, Open, Messages
  <2>2. /\ queue' \in Seq(Messages) /\ Len(queue') = Len(queue) + 1
        /\ \A i \in 1 .. Len(queue) : queue'[i] = queue[i]
        /\ queue'[Len(queue')] = [cmd |-> cmd, for |-> fd]
    BY <1>2, <2>1 DEF Types
  <2>3. Len(queue) \in Nat /\ queue' # <<>>
    BY <2>2 DEF Types
  <2>4. ASSUME NEW i \in 1 .. Len(queue')
        PROVE  /\ queue'[i].for = fd
               /\ queue'[i].cmd = "quit" => i = Len(queue') /\ caller' = "pclose"
    <3>1. CASE i = Len(queue')
      BY <2>2, <3>1
    <3>2. CASE i \in 1 .. Len(queue)
      BY <2>2, <3>2 DEF QueueIsIts
    <3> QED
      BY <2>2, <2>3, <3>1, <3>2
  <2> QED
    BY <2>2, <2>3, <2>4 DEF QueueIsIts, Open
<1> QED
  BY <1>1, <1>2 DEF Process!push_Interactive_Buffer

(* What the program does.                                                  *)
LEMMA UserKeeps ==
  ASSUME MaxProcs \in Nat, Sound,
         \/ Process!TurnOn \/ Process!API_linphonec_Invite \/ Process!TurnOff
         \/ Process!Settles \/ Process!API_linphonec_Close
         \/ Process!API_linphonec_quit \/ Process!pclose
  PROVE  Sound'
<1> USE DEF Sound
<1>1. CASE (Process!TurnOn /\ fd # 0) \/ Process!TurnOff \/ Process!Settles
  <2>1. /\ caller \in {"idle", "settles"} /\ caller' \in {"idle", "terminates"} /\ Open
        /\ UNCHANGED <<fd, Process!procVars, Process!socketVars, queue>>
        /\ caller = "settles" /\ client_fd # 0 => proc[client_fd] # "ended"
    BY <1>1 DEF Process!TurnOn, Process!TurnOff, Process!Settles, OneRuns, Open
  <2>2. Types' /\ OneRuns' /\ QueueIsIts' /\ GotOwn'
    BY <2>1 DEF Process!procVars, Process!socketVars, Types, OneRuns, QueueIsIts, GotOwn, Open
  <2>3. ConnectionIsIts'
    BY <2>1 DEF Process!procVars, Process!socketVars, Types, OneRuns, ConnectionIsIts, Open
  <2> QED
    BY <2>2, <2>3
<1>2. CASE Process!API_linphonec_Invite \/ Process!API_linphonec_Close \/ Process!API_linphonec_quit
  <2>1. /\ Open /\ proc[fd] # "ended" /\ caller \in {"idle", "terminates", "quits"}
        /\ caller' \in {"idle", "quits", "pclose"}
        /\ \E cmd \in Process!Commands : /\ Process!push_Interactive_Buffer(cmd)
                                         /\ cmd = "quit" => caller' = "pclose"
        /\ UNCHANGED <<fd, Process!procVars, Process!socketVars>>
    BY <1>2 DEF Process!API_linphonec_Invite, Process!API_linphonec_Close,
           Process!API_linphonec_quit, OneRuns, Open, Process!Commands
  <2>2. queue' \in Seq(Messages) /\ QueueIsIts' /\ (queue # <<>> => queue' # <<>>)
    BY <2>1, PushKeeps DEF Process!procVars
  <2> QED
    BY <2>1, <2>2 DEF Process!procVars, Process!socketVars, Types, OneRuns, ConnectionIsIts, GotOwn,
           Open
<1>3. CASE ((Process!TurnOn /\ fd = 0) \/ Process!pclose) /\ Process!popen
  <2>1. fd = 0 \/ (fd \in Process!Procs /\ proc[fd] = "ended")
    BY <1>3 DEF Process!TurnOn, Process!pclose, Types, OneRuns, Open
  <2>2. queue = <<>> /\ trs # "sends"
    BY <2>1 DEF QueueIsIts, ConnectionIsIts, Open
  <2>3. \A p \in Process!Procs : proc[p] \notin {"starting", "up"}
    BY <2>1 DEF OneRuns, Process!Procs
  <2>4. /\ procs' = procs + 1 /\ procs' \in Process!Procs /\ fd' = procs' /\ caller' = "settles"
        /\ proc' = [proc EXCEPT ![procs'] = "starting"]
        /\ UNCHANGED <<got, Process!socketVars, queue>>
    BY <1>3 DEF Process!TurnOn, Process!pclose, Process!popen, Types, Process!Procs
  <2>5. proc[procs'] = "none"
    BY <2>4 DEF Types, OneRuns, Process!Procs
  <2>6. Types'
    BY <2>4 DEF Types, Process!socketVars, Process!Procs
  <2>7. OneRuns'
    BY <2>3, <2>4 DEF Types, OneRuns, Open, Process!Procs
  <2>8. QueueIsIts' /\ GotOwn'
    BY <2>2, <2>4 DEF QueueIsIts, GotOwn
  <2>9. ConnectionIsIts'
    BY <2>2, <2>4, <2>5 DEF Types, ConnectionIsIts, Open, Process!socketVars, Process!Procs
  <2> QED
    BY <2>6, <2>7, <2>8, <2>9
<1>4. CASE Process!pclose /\ ~ Process!popen
  BY <1>4 DEF Process!pclose, Process!procVars, Process!socketVars, Types, OneRuns, QueueIsIts,
         ConnectionIsIts, GotOwn, Open
<1> QED
  BY <1>1, <1>2, <1>3, <1>4 DEF Process!TurnOn

(* What the sending thread does: it finds the process running.             *)
LEMMA SenderKeeps ==
  ASSUME Sound, Process!Sender
  PROVE  Sound'
<1> USE DEF Sound
<1>1. CASE Process!Looks \/ Process!Waits
  BY <1>1 DEF Process!Looks, Process!Waits, Process!userVars, Process!procVars, Types, OneRuns,
         QueueIsIts, ConnectionIsIts, GotOwn, Open
<1>2. CASE Process!Killed
  BY <1>2 DEF Process!Killed, ConnectionIsIts
<1>3. CASE Process!Sends
  <2> DEFINE m == Head(queue)
  <2>1. /\ Open /\ send_fd = fd /\ fd \in Process!Procs /\ queue # <<>> /\ proc[fd] = "up"
        /\ UNCHANGED <<Process!userVars, procs, client_fd, send_fd>>
        /\ queue' = Tail(queue) /\ trs' \in {"looks", "waits"}
        /\ got' = [got EXCEPT ![fd] = Append(@, m)]
        /\ proc' = [proc EXCEPT ![fd] = IF m.cmd = "quit" THEN "ended" ELSE @]
    BY <1>3 DEF Process!Sends, Process!pop_Interactive_Buffer, ConnectionIsIts, Types, Open
  <2>2. /\ Len(queue) \in Nat \ {0} /\ m = queue[1] /\ m \in Messages
        /\ queue' \in Seq(Messages) /\ Len(queue') = Len(queue) - 1
        /\ \A i \in 1 .. Len(queue') : queue'[i] = queue[i + 1]
    BY <2>1 DEF Types
  <2>3. m.for = fd /\ (m.cmd = "quit" => queue' = <<>> /\ caller = "pclose")
    BY <2>2 DEF QueueIsIts
  <2>4. Types'
    <3>1. Append(got[fd], m) \in Seq(Messages)
      BY <2>1, <2>2 DEF Types
    <3> QED
      BY <2>1, <2>2, <3>1 DEF Types, Process!userVars
  <2>5. OneRuns'
    BY <2>1, <2>3 DEF Types, OneRuns, Open, Process!userVars
  <2>6. QueueIsIts'
    <3>1. ASSUME NEW i \in 1 .. Len(queue')
          PROVE  /\ queue'[i].for = fd
                 /\ queue'[i].cmd = "quit" => i = Len(queue') /\ caller = "pclose"
      <4>1. i + 1 \in 1 .. Len(queue) /\ queue'[i] = queue[i + 1]
        BY <2>2
      <4> QED
        BY <2>2, <4>1 DEF QueueIsIts
    <3>2. queue' # <<>> => proc'[fd'] # "ended"
      BY <2>1, <2>3 DEF Types, Process!userVars
    <3> QED
      BY <2>1, <3>1, <3>2 DEF QueueIsIts, Open, Process!userVars
  <2>7. ConnectionIsIts'
    BY <2>1 DEF Types, ConnectionIsIts, Open, Process!userVars
  <2>8. GotOwn'
    <3>1. ASSUME NEW p \in Process!Procs, NEW i \in 1 .. Len(got'[p])
          PROVE  got'[p][i].for = p
      <4>1. CASE p = fd
        <5>1. got[fd] \in Seq(Messages) /\ got'[fd] = Append(got[fd], m)
          BY <2>1 DEF Types
        <5>2. i \in 1 .. Len(got[fd]) + 1
          BY <4>1, <5>1
        <5>3. CASE i = Len(got[fd]) + 1
          BY <2>3, <4>1, <5>1, <5>3
        <5>4. CASE i \in 1 .. Len(got[fd])
          BY <4>1, <5>1, <5>4 DEF GotOwn
        <5> QED
          BY <5>1, <5>2, <5>3, <5>4
      <4>2. CASE p # fd
        BY <2>1, <4>2 DEF Types, GotOwn
      <4> QED
        BY <4>1, <4>2
    <3> QED
      BY <3>1 DEF GotOwn
  <2> QED
    BY <2>4, <2>5, <2>6, <2>7, <2>8
<1> QED
  BY <1>1, <1>2, <1>3 DEF Process!Sender

(* What the process and the receiving thread do.                           *)
LEMMA OthersKeep ==
  ASSUME Sound,
         \/ Process!Accepts \/ Process!Disconnected
         \/ \E p \in Process!Procs : Process!Connects(p)
  PROVE  Sound'
<1> USE DEF Sound, Types, OneRuns, ConnectionIsIts, Open
<1>1. CASE Process!Accepts
  <2>1. PICK p \in Process!Procs : client_fd' = p /\ proc[p] = "up"
    BY <1>1 DEF Process!Accepts
  <2>2. p = fd /\ trs' \in {"looks", trs} /\ (trs' = "sends" => trs = "sends")
    BY <1>1, <2>1 DEF Process!Accepts
  <2> QED
    BY <1>1, <2>1, <2>2 DEF Process!Accepts, Process!userVars, Process!procVars, QueueIsIts, GotOwn
<1>2. CASE Process!Disconnected
  BY <1>2 DEF Process!Disconnected, Process!userVars, Process!procVars, QueueIsIts, GotOwn
<1>3. ASSUME NEW p \in Process!Procs, Process!Connects(p)
      PROVE  Sound'
  BY <1>3 DEF Process!Connects, Process!userVars, Process!socketVars, QueueIsIts, GotOwn
<1> QED
  BY <1>1, <1>2, <1>3

LEMMA ProcessStepKeeps ==
  ASSUME MaxProcs \in Nat, ProcessInv, [Process!Next]_(Process!vars)
  PROVE  ProcessInv'
<1>1. ended' \in Nat /\ (~ Process!crashed' => ~ Process!crashed)
  BY DEF ProcessInv, Process!crashed, Process!vars, Process!Next, Process!TurnOn,
         Process!API_linphonec_Invite, Process!TurnOff, Process!Caller, Process!Settles,
         Process!API_linphonec_Close, Process!API_linphonec_quit, Process!pclose, Process!Connects,
         Process!Crashes, Process!Accepts, Process!Disconnected, Process!Sender, Process!Looks,
         Process!Sends, Process!Killed, Process!Waits
<1>2. ASSUME ~ Process!crashed', NEW p \in Process!Procs, Process!Crashes(p)
      PROVE  FALSE
  BY <1>2 DEF ProcessInv, Process!crashed, Process!Crashes
<1>3. Sound /\ UNCHANGED Process!vars => Sound'
  BY DEF Process!vars, Process!userVars, Process!procVars, Process!socketVars, Sound, Types,
         OneRuns, QueueIsIts, ConnectionIsIts, GotOwn, Open
<1>4. ~ Process!crashed' => Sound'
  BY <1>1, <1>2, <1>3, UserKeeps, SenderKeeps, OthersKeep DEF ProcessInv, Process!Next, Process!Caller
<1> QED
  BY <1>1, <1>4 DEF ProcessInv

(* A command only reaches the process it was meant for, and no send raises *)
(* SIGPIPE, unless a process ended by itself.                              *)
THEOREM OnlyItsOwn ==
  ASSUME MaxProcs \in Nat
  PROVE  Process!Spec => []OwnProcess
<1>1. ProcessInv => OwnProcess
  BY DEF ProcessInv, Sound, Types, GotOwn, OwnProcess, Process!OwnProcess, Process!OwnCommands,
         Process!NeverKilled
<1> QED
  BY ProcessInvInit, ProcessStepKeeps, <1>1, PTL DEF Process!Spec
-----------------------------------------------------------------------------
(* The link.                                                               *)
Gateways == Link!Gateways
Kinds    == {"client", "server"}

User(g) == todo[g]["user"]
Task(g) == todo[g]["task"]

(* What one gateway's state says of itself, and what it may say while a     *)
(* process of role r is about to be stopped or has just been started.       *)
Truthful(g) == linker[g] # "idle" => linker[g] \in runs[g] /\ linker[g] \in types[g]
Registered(g, r) ==
  linker[g] # "idle" => linker[g] \in runs[g] /\ (linker[g] = r \/ linker[g] \in types[g])

(* Where the thread of the user is: what it still has to do, and what is    *)
(* true of its gateway.  x is what it does once it has closed.              *)
AtEnd(g) == User(g) = <<>> /\ Truthful(g)
AtClose(g, r, x, v) == User(g) = <<<<"close", r>>, x, <<"cs", v>>>> /\ Registered(g, r)
AtStop(g, x, v) ==
  \E o, q : User(g) = <<<<"stop", o>>, <<"request", "QUIT", q>>, <<"state", "idle">>, x, <<"cs", v>>>>
AtQuit(g, x, v) ==
  \E q : User(g) = <<<<"request", "QUIT", q>>, <<"state", "idle">>, x, <<"cs", v>>>>
WaitsQuit(g, x, v) ==
  \E n : User(g) = <<<<"wait", "QUIT", n>>, <<"state", "idle">>, x, <<"cs", v>>>>
AtIdle(g, x, v) == User(g) = <<<<"state", "idle">>, x, <<"cs", v>>>>
AtPlan(g, r, x, v) ==
  User(g) = <<x, <<"cs", v>>>> /\ Truthful(g) /\ (x = <<"none", r>> => linker[g] # r)
AtSwap(g, r, v) ==
  \E o, q : User(g) = <<<<"stop", o>>, <<"state", "idle">>, <<"request", "LINK", q>>, <<"called", r>>, <<"cs", v>>>>
AtSwapped(g, r, v) ==
  \E q : User(g) = <<<<"state", "idle">>, <<"request", "LINK", q>>, <<"called", r>>, <<"cs", v>>>>
AtLink(g, r, v) ==
  (\E q : User(g) = <<<<"request", "LINK", q>>, <<"called", r>>, <<"cs", v>>>>) /\ Truthful(g)
WaitsLink(g, r, v) ==
  (\E n : User(g) = <<<<"wait", "LINK", n>>, <<"called", r>>, <<"cs", v>>>>) /\ Truthful(g)
AtCalled(g, r, v) == User(g) = <<<<"called", r>>, <<"cs", v>>>> /\ Truthful(g)
AtStart(g, r, v) ==
  User(g) = <<<<"start", r>>, <<"state", r>>, <<"linphone", r>>, <<"cs", v>>>>
AtStarted(g, r, v) ==
  User(g) = <<<<"state", r>>, <<"linphone", r>>, <<"cs", v>>>> /\ r \in runs[g]
AtLinphone(g, r, v) == User(g) = <<<<"linphone", r>>, <<"cs", v>>>> /\ Registered(g, r)
AtCs(g, v) == User(g) = <<<<"cs", v>>>> /\ Truthful(g)

Plans(r) == {<<"call", r>>, <<"none", r>>}

UserAt(g) ==
  \/ AtEnd(g)
  \/ \E v : AtCs(g, v)
  \/ \E r \in Kinds : \E v :
       \/ AtSwap(g, r, v) \/ AtSwapped(g, r, v) \/ AtLink(g, r, v) \/ WaitsLink(g, r, v)
       \/ AtCalled(g, r, v) \/ AtStart(g, r, v) \/ AtStarted(g, r, v) \/ AtLinphone(g, r, v)
       \/ \E x \in Plans(r) :
            \/ AtClose(g, r, x, v) \/ AtStop(g, x, v) \/ AtQuit(g, x, v)
            \/ WaitsQuit(g, x, v) \/ AtIdle(g, x, v) \/ AtPlan(g, r, x, v)

(* And where the thread is that answers requests, with the answer p.        *)
Leaves(g, p)    == \E o : Task(g) = <<<<"stop", o>>, <<"state", "idle">>, p>>
Left(g, p)      == Task(g) = <<<<"state", "idle">>, p>>
Swaps(g, r, p)  == (\E o : Task(g) = <<<<"stop", o>>, <<"start", r>>, <<"state", r>>, p>>) /\ r \in types[g]
Enters(g, r, p) == Task(g) = <<<<"start", r>>, <<"state", r>>, p>> /\ r \in types[g]
Entered(g, r, p) == Task(g) = <<<<"state", r>>, p>> /\ r \in types[g] /\ r \in runs[g]
Replies(g, p)   == Task(g) = <<p>> /\ Truthful(g)

TaskAt(g) ==
  \/ Task(g) = <<>> /\ Truthful(g)
  \/ \E c, n, ok, i : \E p :
       /\ p = <<"respond", c, n, ok, i>>
       /\ \/ Leaves(g, p) \/ Left(g, p) \/ Replies(g, p)
          \/ \E r \in Kinds : Swaps(g, r, p) \/ Enters(g, r, p) \/ Entered(g, r, p)

(* As long as its threads have not overlapped, one of them at most acts.    *)
Gate(g) ==
  /\ linker[g] \in {"idle", "client", "server"}
  /\ \/ Task(g) = <<>> /\ UserAt(g)
     \/ User(g) = <<>> /\ TaskAt(g)

LinkTyped ==
  /\ linker = [g \in Gateways |-> linker[g]] /\ types = [g \in Gateways |-> types[g]]
  /\ runs = [g \in Gateways |-> runs[g]]
  /\ todo = [g \in Gateways |-> [t \in {"user", "task"} |-> todo[g][t]]]

LinkInv == LinkTyped /\ \A g \in Gateways \ met : Gate(g)
-----------------------------------------------------------------------------
(* Tuples are sequences.                                                   *)
LEMMA Concat ==
  ASSUME NEW S, NEW s \in Seq(S), NEW t \in Seq(S), NEW u \in Seq(S),
         Len(u) = Len(s) + Len(t),
         \A i \in 1 .. Len(u) : u[i] = IF i <= Len(s) THEN s[i] ELSE t[i - Len(s)]
  PROVE  s \o t = u
<1>1. /\ s \o t \in Seq(S) /\ Len(s \o t) = Len(s) + Len(t)
      /\ \A i \in 1 .. Len(s) + Len(t) : (s \o t)[i] = IF i <= Len(s) THEN s[i] ELSE t[i - Len(s)]
  BY ConcatProperties
<1> QED
  BY <1>1, SeqEqual

LEMMA Concats ==
  /\ <<>> \o <<>> = <<>>
  /\ \A a : <<>> \o <<a>> = <<a>>
  /\ \A a, b : <<>> \o <<a, b>> = <<a, b>>
  /\ \A a, b : <<a>> \o <<b>> = <<a, b>>
  /\ \A a, b, c : <<a>> \o <<b, c>> = <<a, b, c>>
  /\ \A a, b, c, d : <<a>> \o <<b, c, d>> = <<a, b, c, d>>
  /\ \A a, b, c : <<a, b>> \o <<c>> = <<a, b, c>>
  /\ \A a, b, c, d : <<a, b>> \o <<c, d>> = <<a, b, c, d>>
  /\ \A a, b, c, d : <<a, b, c>> \o <<d>> = <<a, b, c, d>>
  /\ \A a, b, c, d, e : <<a, b, c>> \o <<d, e>> = <<a, b, c, d, e>>
  /\ \A a, b, c, d, e : <<a, b, c, d>> \o <<e>> = <<a, b, c, d, e>>
<1>1. ASSUME NEW a, NEW b
      PROVE  <<>> \o <<>> = <<>> /\ <<>> \o <<a>> = <<a>> /\ <<>> \o <<a, b>> = <<a, b>>
  <2>1. <<>> \in Seq({a, b}) /\ <<a>> \in Seq({a, b}) /\ <<a, b>> \in Seq({a, b})
    OBVIOUS
  <2> QED
    BY <2>1, ConcatEmptySeq
<1>2. ASSUME NEW a, NEW b
      PROVE  <<a>> \o <<b>> = <<a, b>>
  <2>1. PICK S : S = {a, b}
    OBVIOUS
  <2>2. <<a>> \in Seq(S) /\ <<b>> \in Seq(S) /\ <<a, b>> \in Seq(S)
    BY <2>1
  <2>3. /\ Len(<<a, b>>) = Len(<<a>>) + Len(<<b>>)
        /\ \A i \in 1 .. Len(<<a, b>>) :
             <<a, b>>[i] = IF i <= Len(<<a>>) THEN <<a>>[i] ELSE <<b>>[i - Len(<<a>>)]
    OBVIOUS
  <2> QED
    BY <2>2, <2>3, Concat
<1>3. ASSUME NEW a, NEW b, NEW c
      PROVE  <<a>> \o <<b, c>> = <<a, b, c>>
  <2>1. PICK S : S = {a, b, c}
    OBVIOUS
  <2>2. <<a>> \in Seq(S) /\ <<b, c>> \in Seq(S) /\ <<a, b, c>> \in Seq(S)
    BY <2>1
  <2>3. /\ Len(<<a, b, c>>) = Len(<<a>>) + Len(<<b, c>>)
        /\ \A i \in 1 .. Len(<<a, b, c>>) :
             <<a, b, c>>[i] = IF i <= Len(<<a>>) THEN <<a>>[i] ELSE <<b, c>>[i - Len(<<a>>)]
    OBVIOUS
  <2> QED
    BY <2>2, <2>3, Concat
<1>4. ASSUME NEW a, NEW b, NEW c, NEW d
      PROVE  <<a>> \o <<b, c, d>> = <<a, b, c, d>>
  <2>1. PICK S : S = {a, b, c, d}
    OBVIOUS
  <2>2. <<a>> \in Seq(S) /\ <<b, c, d>> \in Seq(S) /\ <<a, b, c, d>> \in Seq(S)
    BY <2>1
  <2>3. /\ Len(<<a, b, c, d>>) = Len(<<a>>) + Len(<<b, c, d>>)
        /\ \A i \in 1 .. Len(<<a, b, c, d>>) :
             <<a, b, c, d>>[i] = IF i <= Len(<<a>>) THEN <<a>>[i] ELSE <<b, c, d>>[i - Len(<<a>>)]
    OBVIOUS
  <2> QED
    BY <2>2, <2>3, Concat
<1>5. ASSUME NEW a, NEW b, NEW c
      PROVE  <<a, b>> \o <<c>> = <<a, b, c>>
  <2>1. PICK S : S = {a, b, c}
    OBVIOUS
  <2>2. <<a, b>> \in Seq(S) /\ <<c>> \in Seq(S) /\ <<a, b, c>> \in Seq(S)
    BY <2>1
  <2>3. /\ Len(<<a, b, c>>) = Len(<<a, b>>) + Len(<<c>>)
        /\ \A i \in 1 .. Len(<<a, b, c>>) :
             <<a, b, c>>[i] = IF i <= Len(<<a, b>>) THEN <<a, b>>[i] ELSE <<c>>[i - Len(<<a, b>>)]
    OBVIOUS
  <2> QED
    BY <2>2, <2>3, Concat
<1>6. ASSUME NEW a, NEW b, NEW c, NEW d
      PROVE  <<a, b, c>> \o <<d>> = <<a, b, c, d>>
  <2>1. PICK S : S = {a, b, c, d}
    OBVIOUS
  <2>2. <<a, b, c>> \in Seq(S) /\ <<d>> \in Seq(S) /\ <<a, b, c, d>> \in Seq(S)
    BY <2>1
  <2>3. /\ Len(<<a, b, c, d>>) = Len(<<a, b, c>>) + Len(<<d>>)
        /\ \A i \in 1 .. Len(<<a, b, c, d>>) :
             <<a, b, c, d>>[i] = IF i <= Len(<<a, b, c>>) THEN <<a, b, c>>[i] ELSE <<d>>[i - Len(<<a, b, c>>)]
    OBVIOUS
  <2> QED
    BY <2>2, <2>3, Concat
<1>7. ASSUME NEW a, NEW b, NEW c, NEW d, NEW e
      PROVE  <<a, b, c>> \o <<d, e>> = <<a, b, c, d, e>>
  <2>1. PICK S : S = {a, b, c, d, e}
    OBVIOUS
  <2>2. <<a, b, c>> \in Seq(S) /\ <<d, e>> \in Seq(S) /\ <<a, b, c, d, e>> \in Seq(S)
    BY <2>1
  <2>3. /\ Len(<<a, b, c, d, e>>) = Len(<<a, b, c>>) + Len(<<d, e>>)
        /\ \A i \in 1 .. Len(<<a, b, c, d, e>>) :
             <<a, b, c, d, e>>[i] = IF i <= Len(<<a, b, c>>) THEN <<a, b, c>>[i] ELSE <<d, e>>[i - Len(<<a, b, c>>)]
    OBVIOUS
  <2> QED
    BY <2>2, <2>3, Concat
<1>8. ASSUME NEW a, NEW b, NEW c, NEW d
      PROVE  <<a, b>> \o <<c, d>> = <<a, b, c, d>>
  <2>1. PICK S : S = {a, b, c, d}
    OBVIOUS
  <2>2. <<a, b>> \in Seq(S) /\ <<c, d>> \in Seq(S) /\ <<a, b, c, d>> \in Seq(S)
    BY <2>1
  <2>3. /\ Len(<<a, b, c, d>>) = Len(<<a, b>>) + Len(<<c, d>>)
        /\ \A i \in 1 .. Len(<<a, b, c, d>>) :
             <<a, b, c, d>>[i] = IF i <= Len(<<a, b>>) THEN <<a, b>>[i] ELSE <<c, d>>[i - Len(<<a, b>>)]
    OBVIOUS
  <2> QED
    BY <2>2, <2>3, Concat
<1>9. ASSUME NEW a, NEW b, NEW c, NEW d, NEW e
      PROVE  <<a, b, c, d>> \o <<e>> = <<a, b, c, d, e>>
  <2>1. PICK S : S = {a, b, c, d, e}
    OBVIOUS
  <2>2. <<a, b, c, d>> \in Seq(S) /\ <<e>> \in Seq(S) /\ <<a, b, c, d, e>> \in Seq(S)
    BY <2>1
  <2>3. /\ Len(<<a, b, c, d, e>>) = Len(<<a, b, c, d>>) + Len(<<e>>)
        /\ \A i \in 1 .. Len(<<a, b, c, d, e>>) :
             <<a, b, c, d, e>>[i] = IF i <= Len(<<a, b, c, d>>) THEN <<a, b, c, d>>[i] ELSE <<e>>[i - Len(<<a, b, c, d>>)]
    OBVIOUS
  <2> QED
    BY <2>2, <2>3, Concat
<1> QED
  BY <1>1, <1>2, <1>3, <1>4, <1>5, <1>6, <1>7, <1>8, <1>9

LEMMA ConcatsTwice ==
  /\ \A a, b, c, d : (<<a, b>> \o <<c>>) \o <<d>> = <<a, b, c, d>>
  /\ \A a, b, c, d, e : (<<a, b>> \o <<c>>) \o <<d, e>> = <<a, b, c, d, e>>
  /\ \A a, b, c, d, e : (<<a, b>> \o <<c, d>>) \o <<e>> = <<a, b, c, d, e>>
<1>1. ASSUME NEW a, NEW b, NEW c, NEW d
      PROVE  (<<a, b>> \o <<c>>) \o <<d>> = <<a, b, c, d>>
  <2>1. <<a, b>> \o <<c>> = <<a, b, c>>
    BY Concats
  <2>2. <<a, b, c>> \o <<d>> = <<a, b, c, d>>
    BY Concats
  <2> QED
    BY <2>1, <2>2
<1>2. ASSUME NEW a, NEW b, NEW c, NEW d, NEW e
      PROVE  (<<a, b>> \o <<c>>) \o <<d, e>> = <<a, b, c, d, e>>
  <2>1. <<a, b>> \o <<c>> = <<a, b, c>>
    BY Concats
  <2>2. <<a, b, c>> \o <<d, e>> = <<a, b, c, d, e>>
    BY Concats
  <2> QED
    BY <2>1, <2>2
<1>3. ASSUME NEW a, NEW b, NEW c, NEW d, NEW e
      PROVE  (<<a, b>> \o <<c, d>>) \o <<e>> = <<a, b, c, d, e>>
  <2>1. <<a, b>> \o <<c, d>> = <<a, b, c, d>>
    BY Concats
  <2>2. <<a, b, c, d>> \o <<e>> = <<a, b, c, d, e>>
    BY Concats
  <2> QED
    BY <2>1, <2>2
<1> QED
  BY <1>1, <1>2, <1>3

(* What a thread does next.                                                *)
LEMMA LinkMoves ==
  ASSUME LinkTyped, NEW g \in Gateways, NEW t \in {"user", "task"}, NEW next, Link!Does(g, t, next)
  PROVE  /\ todo' = [h \in Gateways |-> [s \in {"user", "task"} |-> todo'[h][s]]]
         /\ todo'[g][t] = next
         /\ \A h \in Gateways, s \in {"user", "task"} : h # g \/ s # t => todo'[h][s] = todo[h][s]
<1>1. todo' = [todo EXCEPT ![g] = [todo[g] EXCEPT ![t] = next]]
  BY DEF Link!Does
<1>2. /\ \A h \in Gateways : todo[h] = [s \in {"user", "task"} |-> todo[h][s]]
      /\ todo = [h \in Gateways |-> todo[h]]
  BY DEF LinkTyped
<1>3. todo'[g] = [todo[g] EXCEPT ![t] = next]
  BY <1>1, <1>2
<1>4. todo'[g][t] = next /\ \A s \in {"user", "task"} : s # t => todo'[g][s] = todo[g][s]
  BY <1>2, <1>3
<1>5. \A h \in Gateways : h # g => todo'[h] = todo[h]
  BY <1>1, <1>2
<1>6. todo' = [h \in Gateways |-> [s \in {"user", "task"} |-> todo'[h][s]]]
  <2>1. todo' = [h \in Gateways |-> todo'[h]]
    BY <1>1, <1>2
  <2>2. \A h \in Gateways : todo'[h] = [s \in {"user", "task"} |-> todo'[h][s]]
    <3>1. todo'[g] = [s \in {"user", "task"} |-> todo'[g][s]]
      BY <1>2, <1>3
    <3>2. ASSUME NEW h \in Gateways, h # g
          PROVE  todo'[h] = [s \in {"user", "task"} |-> todo'[h][s]]
      BY <1>2, <1>5, <3>2
    <3> QED
      BY <3>1, <3>2
  <2> QED
    BY <2>1, <2>2
<1> QED
  BY <1>4, <1>5, <1>6
(* The effect of a step of a thread.                                       *)
Others(g, t) ==
  \A h \in Gateways, s \in {"user", "task"} : h # g \/ s # t => todo'[h][s] = todo[h][s]

Effect(g, t, o, rest) ==
  \/ /\ o[1] \in {"start", "stop"} /\ todo'[g][t] = rest
     /\ runs' = [runs EXCEPT ![g] = IF o[1] = "start" THEN @ \cup {o[2]} ELSE @ \ {o[2]}]
     /\ UNCHANGED <<linker, types>>
  \/ /\ o[1] = "state" /\ todo'[g][t] = rest
     /\ linker' = [linker EXCEPT ![g] = o[2]] /\ UNCHANGED <<types, runs>>
  \/ /\ o[1] = "cs" /\ todo'[g][t] = rest /\ UNCHANGED <<linker, types, runs>>
  \/ /\ o[1] \in {"linphone", "none"} /\ todo'[g][t] = rest
     /\ types' = [types EXCEPT ![g] = IF o[1] = "none" THEN @ \ {o[2]} ELSE @ \cup {o[2]}]
     /\ UNCHANGED <<linker, runs>>
  \/ /\ o[1] = "close" /\ todo'[g][t] = Link!api_client_to_close(g, o[2]) \o rest
     /\ UNCHANGED <<linker, types, runs>>
  \/ /\ o[1] = "call" /\ todo'[g][t] = Link!api_client_to_call(g, o[2]) \o rest
     /\ UNCHANGED <<linker, types, runs>>
  \/ /\ o[1] = "called" /\ todo'[g][t] = Link!Called(g, o[2]) \o rest
     /\ UNCHANGED <<linker, types, runs>>
  \/ /\ o[1] = "request" /\ todo'[g][t] = <<<<"wait", o[2], number[g] + 1>>>> \o rest
     /\ UNCHANGED <<linker, types, runs>>
  \/ /\ o[1] = "respond" /\ todo'[g][t] = rest
     /\ UNCHANGED <<linker, types, runs>>

LEMMA Executes ==
  ASSUME LinkTyped, NEW g \in Gateways, NEW t \in {"user", "task"},
         NEW o, NEW rest, todo[g][t] # <<>>, Head(todo[g][t]) = o, Tail(todo[g][t]) = rest,
         Link!Step(g, t)
  PROVE  /\ Effect(g, t, o, rest) /\ LinkTyped' /\ Others(g, t)
         /\ \A h \in Gateways : h # g => UNCHANGED <<linker[h], types[h], runs[h]>>
<1>1. \A next : Link!Does(g, t, next) =>
        /\ todo' = [h \in Gateways |-> [s \in {"user", "task"} |-> todo'[h][s]]]
        /\ todo'[g][t] = next
        /\ \A h \in Gateways, s \in {"user", "task"} : h # g \/ s # t => todo'[h][s] = todo[h][s]
  BY LinkMoves
<1>2. \E next : Link!Does(g, t, next)
  BY DEF Link!Step, Link!Requests
<1>3. Effect(g, t, o, rest)
  <2>4. CASE o[1] \in {"start", "stop"}
    BY <1>1, <2>4 DEF Effect, Link!Step, Link!onoff_local_linphone, Link!Put
  <2>5. CASE o[1] = "state"
    BY <1>1, <2>5 DEF Effect, Link!Step, Link!Put
  <2>6. CASE o[1] = "cs"
    BY <1>1, <2>6 DEF Effect, Link!Step, Link!Put
  <2>7. CASE o[1] \in {"linphone", "none"}
    BY <1>1, <2>7 DEF Effect, Link!Step, Link!Put
  <2>8. CASE o[1] \in {"close", "call", "called"}
    BY <1>1, <2>8 DEF Effect, Link!Step
  <2>9. CASE o[1] = "request"
    BY <1>1, <2>9 DEF Effect, Link!Step, Link!Requests, Link!Put
  <2>10. CASE o[1] = "respond"
    BY <1>1, <2>10 DEF Effect, Link!Step, Link!Responds, Link!Put
  <2>11. o[1] \in {"start", "stop", "state", "cs", "linphone", "none", "close", "call", "called", "request", "respond"}
    BY DEF Link!Step
  <2> QED
    BY <2>4, <2>5, <2>6, <2>7, <2>8, <2>9, <2>10, <2>11
<1>4. todo' = [h \in Gateways |-> [s \in {"user", "task"} |-> todo'[h][s]]] /\ Others(g, t)
  BY <1>1, <1>2 DEF Others
<1>5. /\ linker' = linker \/ linker' = [linker EXCEPT ![g] = o[2]]
      /\ \/ types' = types \/ types' = [types EXCEPT ![g] = @ \cup {o[2]}]
         \/ types' = [types EXCEPT ![g] = @ \ {o[2]}]
      /\ \/ runs' = runs \/ runs' = [runs EXCEPT ![g] = @ \cup {o[2]}]
         \/ runs' = [runs EXCEPT ![g] = @ \ {o[2]}]
  BY <1>3 DEF Effect
<1> QED
  BY <1>3, <1>4, <1>5 DEF LinkTyped

(* The steps one by one.                                                   *)
LEMMA Starts ==
  ASSUME LinkTyped, NEW g \in Gateways, NEW t \in {"user", "task"}, todo[g][t] # <<>>,
         Head(todo[g][t])[1] \in {"start", "stop"}, Link!Step(g, t)
  PROVE  /\ todo'[g][t] = Tail(todo[g][t])
         /\ UNCHANGED <<linker[g], types[g]>>
         /\ runs'[g] = IF Head(todo[g][t])[1] = "start" THEN runs[g] \cup {Head(todo[g][t])[2]}
                       ELSE runs[g] \ {Head(todo[g][t])[2]}
<1>1. PICK o, rest : o = Head(todo[g][t]) /\ rest = Tail(todo[g][t])
  OBVIOUS
<1>2. Effect(g, t, o, rest) /\ o[1] \in {"start", "stop"}
  BY <1>1, Executes
<1> QED
  BY <1>1, <1>2 DEF Effect, LinkTyped

LEMMA SetsState ==
  ASSUME LinkTyped, NEW g \in Gateways, NEW t \in {"user", "task"}, todo[g][t] # <<>>,
         Head(todo[g][t])[1] = "state", Link!Step(g, t)
  PROVE  /\ todo'[g][t] = Tail(todo[g][t])
         /\ linker'[g] = Head(todo[g][t])[2] /\ UNCHANGED <<types[g], runs[g]>>
<1>1. PICK o, rest : o = Head(todo[g][t]) /\ rest = Tail(todo[g][t])
  OBVIOUS
<1>2. Effect(g, t, o, rest) /\ o[1] = "state"
  BY <1>1, Executes
<1> QED
  BY <1>1, <1>2 DEF Effect, LinkTyped

LEMMA SetsCs ==
  ASSUME LinkTyped, NEW g \in Gateways, NEW t \in {"user", "task"}, todo[g][t] # <<>>,
         Head(todo[g][t])[1] = "cs", Link!Step(g, t)
  PROVE  /\ todo'[g][t] = Tail(todo[g][t])
         /\ UNCHANGED <<linker[g], types[g], runs[g]>>
<1>1. PICK o, rest : o = Head(todo[g][t]) /\ rest = Tail(todo[g][t])
  OBVIOUS
<1>2. Effect(g, t, o, rest) /\ o[1] = "cs"
  BY <1>1, Executes
<1> QED
  BY <1>1, <1>2 DEF Effect, LinkTyped

LEMMA SetsType ==
  ASSUME LinkTyped, NEW g \in Gateways, NEW t \in {"user", "task"}, todo[g][t] # <<>>,
         Head(todo[g][t])[1] \in {"linphone", "none"}, Link!Step(g, t)
  PROVE  /\ todo'[g][t] = Tail(todo[g][t])
         /\ UNCHANGED <<linker[g], runs[g]>>
         /\ types'[g] = IF Head(todo[g][t])[1] = "none" THEN types[g] \ {Head(todo[g][t])[2]}
                        ELSE types[g] \cup {Head(todo[g][t])[2]}
<1>1. PICK o, rest : o = Head(todo[g][t]) /\ rest = Tail(todo[g][t])
  OBVIOUS
<1>2. Effect(g, t, o, rest) /\ o[1] \in {"linphone", "none"}
  BY <1>1, Executes
<1> QED
  BY <1>1, <1>2 DEF Effect, LinkTyped

LEMMA Closes ==
  ASSUME LinkTyped, NEW g \in Gateways, NEW t \in {"user", "task"}, todo[g][t] # <<>>,
         Head(todo[g][t])[1] = "close", Link!Step(g, t)
  PROVE  /\ todo'[g][t] = Link!api_client_to_close(g, Head(todo[g][t])[2]) \o Tail(todo[g][t])
         /\ UNCHANGED <<linker[g], types[g], runs[g]>>
<1>1. PICK o, rest : o = Head(todo[g][t]) /\ rest = Tail(todo[g][t])
  OBVIOUS
<1>2. Effect(g, t, o, rest) /\ o[1] = "close"
  BY <1>1, Executes
<1> QED
  BY <1>1, <1>2 DEF Effect, LinkTyped

LEMMA CallsPeer ==
  ASSUME LinkTyped, NEW g \in Gateways, NEW t \in {"user", "task"}, todo[g][t] # <<>>,
         Head(todo[g][t])[1] = "call", Link!Step(g, t)
  PROVE  /\ todo'[g][t] = Link!api_client_to_call(g, Head(todo[g][t])[2]) \o Tail(todo[g][t])
         /\ UNCHANGED <<linker[g], types[g], runs[g]>>
<1>1. PICK o, rest : o = Head(todo[g][t]) /\ rest = Tail(todo[g][t])
  OBVIOUS
<1>2. Effect(g, t, o, rest) /\ o[1] = "call"
  BY <1>1, Executes
<1> QED
  BY <1>1, <1>2 DEF Effect, LinkTyped

LEMMA HasCalled ==
  ASSUME LinkTyped, NEW g \in Gateways, NEW t \in {"user", "task"}, todo[g][t] # <<>>,
         Head(todo[g][t])[1] = "called", Link!Step(g, t)
  PROVE  /\ todo'[g][t] = Link!Called(g, Head(todo[g][t])[2]) \o Tail(todo[g][t])
         /\ UNCHANGED <<linker[g], types[g], runs[g]>>
<1>1. PICK o, rest : o = Head(todo[g][t]) /\ rest = Tail(todo[g][t])
  OBVIOUS
<1>2. Effect(g, t, o, rest) /\ o[1] = "called"
  BY <1>1, Executes
<1> QED
  BY <1>1, <1>2 DEF Effect, LinkTyped

LEMMA Asks ==
  ASSUME LinkTyped, NEW g \in Gateways, NEW t \in {"user", "task"}, todo[g][t] # <<>>,
         Head(todo[g][t])[1] = "request", Link!Step(g, t)
  PROVE  /\ \E n : todo'[g][t] = <<<<"wait", Head(todo[g][t])[2], n>>>> \o Tail(todo[g][t])
         /\ UNCHANGED <<linker[g], types[g], runs[g]>>
<1>1. PICK o, rest : o = Head(todo[g][t]) /\ rest = Tail(todo[g][t])
  OBVIOUS
<1>2. Effect(g, t, o, rest) /\ o[1] = "request"
  BY <1>1, Executes
<1> QED
  BY <1>1, <1>2 DEF Effect, LinkTyped

LEMMA AnswersPeer ==
  ASSUME LinkTyped, NEW g \in Gateways, NEW t \in {"user", "task"}, todo[g][t] # <<>>,
         Head(todo[g][t])[1] = "respond", Link!Step(g, t)
  PROVE  /\ todo'[g][t] = Tail(todo[g][t])
         /\ UNCHANGED <<linker[g], types[g], runs[g]>>
<1>1. PICK o, rest : o = Head(todo[g][t]) /\ rest = Tail(todo[g][t])
  OBVIOUS
<1>2. Effect(g, t, o, rest) /\ o[1] = "respond"
  BY <1>1, Executes
<1> QED
  BY <1>1, <1>2 DEF Effect, LinkTyped

LEMMA NeverWaits ==
  ASSUME LinkTyped, NEW g \in Gateways, NEW t \in {"user", "task"},
         todo[g][t] # <<>>, Head(todo[g][t])[1] = "wait"
  PROVE  ~ Link!Step(g, t)
  BY DEF Link!Step

(* What does not touch a gateway leaves its Gate.                          *)
LEMMA GateKept ==
  ASSUME NEW h, Gate(h), UNCHANGED <<linker[h], types[h], runs[h], User(h), Task(h)>>
  PROVE  Gate(h)'
<1>1. Truthful(h)' = Truthful(h) /\ \A r : Registered(h, r)' = Registered(h, r)
  BY DEF Truthful, Registered
<1>2. ASSUME NEW r, NEW v
      PROVE  /\ AtSwap(h, r, v)' = AtSwap(h, r, v) /\ AtSwapped(h, r, v)' = AtSwapped(h, r, v)
             /\ AtLink(h, r, v)' = AtLink(h, r, v) /\ WaitsLink(h, r, v)' = WaitsLink(h, r, v)
             /\ AtCalled(h, r, v)' = AtCalled(h, r, v) /\ AtStart(h, r, v)' = AtStart(h, r, v)
             /\ AtStarted(h, r, v)' = AtStarted(h, r, v) /\ AtLinphone(h, r, v)' = AtLinphone(h, r, v)
             /\ AtCs(h, v)' = AtCs(h, v) /\ AtEnd(h)' = AtEnd(h)
  BY <1>1 DEF AtSwap, AtSwapped, AtLink, WaitsLink, AtCalled, AtStart, AtStarted, AtLinphone, AtCs, AtEnd
<1>3. ASSUME NEW r, NEW x, NEW v
      PROVE  /\ AtClose(h, r, x, v)' = AtClose(h, r, x, v) /\ AtStop(h, x, v)' = AtStop(h, x, v)
             /\ AtQuit(h, x, v)' = AtQuit(h, x, v) /\ WaitsQuit(h, x, v)' = WaitsQuit(h, x, v)
             /\ AtIdle(h, x, v)' = AtIdle(h, x, v) /\ AtPlan(h, r, x, v)' = AtPlan(h, r, x, v)
  BY <1>1 DEF AtClose, AtStop, AtQuit, WaitsQuit, AtIdle, AtPlan
<1>4. UserAt(h) => UserAt(h)'
  BY <1>2, <1>3 DEF UserAt, Plans
<1>5. ASSUME NEW r, NEW p
      PROVE  /\ Leaves(h, p)' = Leaves(h, p) /\ Left(h, p)' = Left(h, p) /\ Replies(h, p)' = Replies(h, p)
             /\ Swaps(h, r, p)' = Swaps(h, r, p) /\ Enters(h, r, p)' = Enters(h, r, p)
             /\ Entered(h, r, p)' = Entered(h, r, p)
  BY <1>1 DEF Leaves, Left, Replies, Swaps, Enters, Entered
<1>6. TaskAt(h) => TaskAt(h)'
  BY <1>1, <1>5 DEF TaskAt
<1> QED
  BY <1>4, <1>6 DEF Gate

(* What the user's thread does.                                            *)
LEMMA UserSteps ==
  ASSUME LinkTyped, NEW g \in Gateways, Gate(g), Link!Step(g, "user")
  PROVE  Gate(g)'
<1>1. /\ todo[g]["user"] # <<>>
      /\ Task(g) = <<>>
      /\ UserAt(g)
      /\ linker[g] \in {"idle", "client", "server"}
  BY DEF Link!Step, Gate, User
<1>2. Task(g)' = <<>>
  <2>1. Others(g, "user")
    <3>1. PICK o, rest : o = Head(todo[g]["user"]) /\ rest = Tail(todo[g]["user"])
      OBVIOUS
    <3> QED
      BY <1>1, <3>1, Executes
  <2> QED
    BY <1>1, <2>1 DEF Others, Task
<1>3. SUFFICES UserAt(g)' /\ linker'[g] \in {"idle", "client", "server"}
  BY <1>2 DEF Gate
<1>4. ASSUME NEW v, AtCs(g, v)
      PROVE  UserAt(g)' /\ linker'[g] \in {"idle", "client", "server"}
  <2>1. /\ Head(todo[g]["user"])[1] = "cs"
        /\ Head(todo[g]["user"])[2] = v
        /\ Tail(todo[g]["user"]) = <<>>
    BY <1>4 DEF User, AtCs
  <2>2. User(g)' = <<>> /\ UNCHANGED <<linker[g], types[g], runs[g]>>
    BY <1>1, <2>1, SetsCs DEF User
  <2>3. AtEnd(g)'
    BY <1>1, <1>4, <2>2 DEF AtCs, AtEnd, Truthful, Registered, Kinds, Plans
  <2> QED
    BY <1>1, <1>4, <2>2, <2>3 DEF UserAt, Kinds
<1>5. ASSUME NEW r \in Kinds, NEW x \in Plans(r), NEW v, AtStop(g, x, v)
      PROVE  UserAt(g)' /\ linker'[g] \in {"idle", "client", "server"}
  <2>1. PICK o, q : User(g) = <<<<"stop", o>>, <<"request", "QUIT", q>>, <<"state", "idle">>, x, <<"cs", v>>>>
    BY <1>5 DEF AtStop
  <2>2. /\ Head(todo[g]["user"])[1] = "stop"
        /\ Head(todo[g]["user"])[2] = o
        /\ Tail(todo[g]["user"]) = <<<<"request", "QUIT", q>>, <<"state", "idle">>, x, <<"cs", v>>>>
    BY <2>1 DEF User
  <2>3. /\ User(g)' = <<<<"request", "QUIT", q>>, <<"state", "idle">>, x, <<"cs", v>>>>
        /\ UNCHANGED <<linker[g], types[g]>>
    BY <1>1, <2>2, Starts DEF User
  <2>4. AtQuit(g, x, v)'
    BY <1>1, <1>5, <2>3 DEF AtStop, AtQuit, Truthful, Registered, Kinds, Plans
  <2> QED
    BY <1>1, <1>5, <2>3, <2>4 DEF UserAt, Kinds
<1>6. ASSUME NEW r \in Kinds, NEW x \in Plans(r), NEW v, AtIdle(g, x, v)
      PROVE  UserAt(g)' /\ linker'[g] \in {"idle", "client", "server"}
  <2>1. /\ Head(todo[g]["user"])[1] = "state"
        /\ Head(todo[g]["user"])[2] = "idle"
        /\ Tail(todo[g]["user"]) = <<x, <<"cs", v>>>>
    BY <1>6 DEF User, AtIdle
  <2>2. User(g)' = <<x, <<"cs", v>>>> /\ linker'[g] = "idle"
    BY <1>1, <2>1, SetsState DEF User
  <2>3. AtPlan(g, r, x, v)'
    BY <1>1, <1>6, <2>2 DEF AtIdle, AtPlan, Truthful, Registered, Kinds, Plans
  <2> QED
    BY <1>1, <1>6, <2>2, <2>3 DEF UserAt, Kinds
<1>7. ASSUME NEW r \in Kinds, NEW v, AtSwap(g, r, v)
      PROVE  UserAt(g)' /\ linker'[g] \in {"idle", "client", "server"}
  <2>1. PICK o, q : User(g) = <<<<"stop", o>>, <<"state", "idle">>, <<"request", "LINK", q>>, <<"called", r>>, <<"cs", v>>>>
    BY <1>7 DEF AtSwap
  <2>2. /\ Head(todo[g]["user"])[1] = "stop"
        /\ Head(todo[g]["user"])[2] = o
        /\ Tail(todo[g]["user"]) = <<<<"state", "idle">>, <<"request", "LINK", q>>, <<"called", r>>, <<"cs", v>>>>
    BY <2>1 DEF User
  <2>3. /\ User(g)' = <<<<"state", "idle">>, <<"request", "LINK", q>>, <<"called", r>>, <<"cs", v>>>>
        /\ UNCHANGED <<linker[g], types[g]>>
    BY <1>1, <2>2, Starts DEF User
  <2>4. AtSwapped(g, r, v)'
    BY <1>1, <1>7, <2>3 DEF AtSwap, AtSwapped, Truthful, Registered, Kinds, Plans
  <2> QED
    BY <1>1, <1>7, <2>3, <2>4 DEF UserAt, Kinds
<1>8. ASSUME NEW r \in Kinds, NEW v, AtSwapped(g, r, v)
      PROVE  UserAt(g)' /\ linker'[g] \in {"idle", "client", "server"}
  <2>1. PICK q : User(g) = <<<<"state", "idle">>, <<"request", "LINK", q>>, <<"called", r>>, <<"cs", v>>>>
    BY <1>8 DEF AtSwapped
  <2>2. /\ Head(todo[g]["user"])[1] = "state"
        /\ Head(todo[g]["user"])[2] = "idle"
        /\ Tail(todo[g]["user"]) = <<<<"request", "LINK", q>>, <<"called", r>>, <<"cs", v>>>>
    BY <2>1 DEF User
  <2>3. User(g)' = <<<<"request", "LINK", q>>, <<"called", r>>, <<"cs", v>>>> /\ linker'[g] = "idle"
    BY <1>1, <2>2, SetsState DEF User
  <2>4. AtLink(g, r, v)'
    BY <1>1, <1>8, <2>3 DEF AtSwapped, AtLink, Truthful, Registered, Kinds, Plans
  <2> QED
    BY <1>1, <1>8, <2>3, <2>4 DEF UserAt, Kinds
<1>9. ASSUME NEW r \in Kinds, NEW v, AtStart(g, r, v)
      PROVE  UserAt(g)' /\ linker'[g] \in {"idle", "client", "server"}
  <2>1. /\ Head(todo[g]["user"])[1] = "start"
        /\ Head(todo[g]["user"])[2] = r
        /\ Tail(todo[g]["user"]) = <<<<"state", r>>, <<"linphone", r>>, <<"cs", v>>>>
    BY <1>9 DEF User, AtStart
  <2>2. /\ User(g)' = <<<<"state", r>>, <<"linphone", r>>, <<"cs", v>>>>
        /\ linker'[g] = linker[g]
        /\ runs'[g] = runs[g] \cup {r}
    BY <1>1, <2>1, Starts DEF User
  <2>3. AtStarted(g, r, v)'
    BY <1>1, <1>9, <2>2 DEF AtStart, AtStarted, Truthful, Registered, Kinds, Plans
  <2> QED
    BY <1>1, <1>9, <2>2, <2>3 DEF UserAt, Kinds
<1>10. ASSUME NEW r \in Kinds, NEW v, AtStarted(g, r, v)
      PROVE  UserAt(g)' /\ linker'[g] \in {"idle", "client", "server"}
  <2>1. /\ Head(todo[g]["user"])[1] = "state"
        /\ Head(todo[g]["user"])[2] = r
        /\ Tail(todo[g]["user"]) = <<<<"linphone", r>>, <<"cs", v>>>>
    BY <1>10 DEF User, AtStarted
  <2>2. User(g)' = <<<<"linphone", r>>, <<"cs", v>>>> /\ linker'[g] = r /\ runs'[g] = runs[g]
    BY <1>1, <2>1, SetsState DEF User
  <2>3. AtLinphone(g, r, v)'
    BY <1>1, <1>10, <2>2 DEF AtStarted, AtLinphone, Truthful, Registered, Kinds, Plans
  <2> QED
    BY <1>1, <1>10, <2>2, <2>3 DEF UserAt, Kinds
<1>11. ASSUME NEW r \in Kinds, NEW v, AtLinphone(g, r, v)
      PROVE  UserAt(g)' /\ linker'[g] \in {"idle", "client", "server"}
  <2>1. /\ Head(todo[g]["user"])[1] = "linphone"
        /\ Head(todo[g]["user"])[2] = r
        /\ Tail(todo[g]["user"]) = <<<<"cs", v>>>>
    BY <1>11 DEF User, AtLinphone
  <2>2. /\ User(g)' = <<<<"cs", v>>>>
        /\ UNCHANGED <<linker[g], runs[g]>>
        /\ types'[g] = types[g] \cup {r}
    BY <1>1, <2>1, SetsType DEF User
  <2>3. AtCs(g, v)'
    BY <1>1, <1>11, <2>2 DEF AtLinphone, AtCs, Truthful, Registered, Kinds, Plans
  <2> QED
    BY <1>1, <1>11, <2>2, <2>3 DEF UserAt, Kinds
<1>12. ASSUME NEW r \in Kinds, NEW x \in Plans(r), NEW v, WaitsQuit(g, x, v)
      PROVE  FALSE
  <2>1. Head(todo[g]["user"])[1] = "wait"
    BY <1>12 DEF WaitsQuit, User
  <2> QED
    BY <1>1, <2>1, NeverWaits
<1>13. ASSUME NEW r \in Kinds, NEW v, WaitsLink(g, r, v)
      PROVE  FALSE
  <2>1. Head(todo[g]["user"])[1] = "wait"
    BY <1>13 DEF WaitsLink, User
  <2> QED
    BY <1>1, <2>1, NeverWaits
<1>14. ASSUME NEW r \in Kinds, NEW x \in Plans(r), NEW v, AtQuit(g, x, v)
      PROVE  UserAt(g)' /\ linker'[g] \in {"idle", "client", "server"}
  <2>1. PICK q : User(g) = <<<<"request", "QUIT", q>>, <<"state", "idle">>, x, <<"cs", v>>>>
    BY <1>14 DEF AtQuit
  <2>2. /\ Head(todo[g]["user"])[1] = "request"
        /\ Head(todo[g]["user"])[2] = "QUIT"
        /\ Tail(todo[g]["user"]) = <<<<"state", "idle">>, x, <<"cs", v>>>>
    BY <2>1 DEF User
  <2>3. PICK n : User(g)' = <<<<"wait", "QUIT", n>>>> \o Tail(todo[g]["user"])
    BY <1>1, <2>2, Asks DEF User
  <2>4. UNCHANGED <<linker[g], types[g], runs[g]>>
    BY <1>1, <2>2, Asks
  <2>5. User(g)' = <<<<"wait", "QUIT", n>>, <<"state", "idle">>, x, <<"cs", v>>>>
    <3>1. PICK w, a, b, d :
          /\ w = <<"wait", "QUIT", n>>
          /\ a = <<"state", "idle">>
          /\ b = x
          /\ d = <<"cs", v>>
      OBVIOUS
    <3>2. User(g)' = <<w>> \o <<a, b, d>>
      BY <2>2, <2>3, <3>1
    <3>3. User(g)' = <<w, a, b, d>>
      BY <3>2, Concats
    <3> QED
      BY <3>1, <3>3
  <2>6. WaitsQuit(g, x, v)'
    BY <1>14, <2>4, <2>5 DEF AtQuit, WaitsQuit, Truthful
  <2> QED
    BY <1>1, <1>14, <2>4, <2>6 DEF UserAt, Kinds
<1>15. ASSUME NEW r \in Kinds, NEW v, AtLink(g, r, v)
      PROVE  UserAt(g)' /\ linker'[g] \in {"idle", "client", "server"}
  <2>1. PICK q : User(g) = <<<<"request", "LINK", q>>, <<"called", r>>, <<"cs", v>>>>
    BY <1>15 DEF AtLink
  <2>2. /\ Head(todo[g]["user"])[1] = "request"
        /\ Head(todo[g]["user"])[2] = "LINK"
        /\ Tail(todo[g]["user"]) = <<<<"called", r>>, <<"cs", v>>>>
    BY <2>1 DEF User
  <2>3. PICK n : User(g)' = <<<<"wait", "LINK", n>>>> \o Tail(todo[g]["user"])
    BY <1>1, <2>2, Asks DEF User
  <2>4. UNCHANGED <<linker[g], types[g], runs[g]>>
    BY <1>1, <2>2, Asks
  <2>5. User(g)' = <<<<"wait", "LINK", n>>, <<"called", r>>, <<"cs", v>>>>
    <3>1. PICK w, a, b : w = <<"wait", "LINK", n>> /\ a = <<"called", r>> /\ b = <<"cs", v>>
      OBVIOUS
    <3>2. User(g)' = <<w>> \o <<a, b>>
      BY <2>2, <2>3, <3>1
    <3>3. User(g)' = <<w, a, b>>
      BY <3>2, Concats
    <3> QED
      BY <3>1, <3>3
  <2>6. WaitsLink(g, r, v)'
    BY <1>15, <2>4, <2>5 DEF AtLink, WaitsLink, Truthful
  <2> QED
    BY <1>1, <1>15, <2>4, <2>6 DEF UserAt, Kinds
<1>16. ASSUME NEW r \in Kinds, NEW v, AtCalled(g, r, v)
      PROVE  UserAt(g)' /\ linker'[g] \in {"idle", "client", "server"}
  <2>1. /\ Head(todo[g]["user"])[1] = "called"
        /\ Head(todo[g]["user"])[2] = r
        /\ Tail(todo[g]["user"]) = <<<<"cs", v>>>>
    BY <1>16 DEF AtCalled, User
  <2>2. /\ User(g)' = Link!Called(g, r) \o <<<<"cs", v>>>>
        /\ UNCHANGED <<linker[g], types[g], runs[g]>>
    BY <1>1, <2>1, HasCalled DEF User
  <2>3. Truthful(g) /\ Truthful(g)'
    BY <1>16, <2>2 DEF AtCalled, Truthful
  <2>4. PICK a, b, c, d :
        /\ a = <<"start", r>>
        /\ b = <<"state", r>>
        /\ c = <<"linphone", r>>
        /\ d = <<"cs", v>>
    OBVIOUS
  <2>5. CASE answer[g] = "ok" /\ linker[g] = "idle"
    <3>1. Link!Called(g, r) = <<a, b>> \o <<c>>
      <4>1. /\ Link!If(answer[g] = "ok" /\ linker[g] = "idle", <<<<"start", r>>, <<"state", r>>>>) = <<a, b>>
            /\ Link!If(answer[g] = "ok" \/ r = "server", <<<<"linphone", r>>>>) = <<c>>
        BY <2>4, <2>5 DEF Link!If
      <4> QED
        BY <4>1 DEF Link!Called
    <3>2. User(g)' = (<<a, b>> \o <<c>>) \o <<d>>
      BY <2>2, <2>4, <3>1
    <3>3. User(g)' = <<a, b, c, d>>
      <4>1. (<<a, b>> \o <<c>>) \o <<d>> = <<a, b, c, d>>
        BY ConcatsTwice
      <4> QED
        BY <3>2, <4>1
    <3>4. AtStart(g, r, v)'
      BY <2>4, <3>3 DEF AtStart
    <3> QED
      BY <1>1, <2>2, <3>4 DEF UserAt
  <2>6. CASE ~ (answer[g] = "ok" /\ linker[g] = "idle") /\ (answer[g] = "ok" \/ r = "server")
    <3>1. Link!Called(g, r) = <<>> \o <<c>>
      <4>1. /\ Link!If(answer[g] = "ok" /\ linker[g] = "idle", <<<<"start", r>>, <<"state", r>>>>) = <<>>
            /\ Link!If(answer[g] = "ok" \/ r = "server", <<<<"linphone", r>>>>) = <<c>>
        BY <2>4, <2>6 DEF Link!If
      <4> QED
        BY <4>1 DEF Link!Called
    <3>2. User(g)' = <<c, d>>
      BY <2>2, <2>4, <3>1, Concats
    <3>3. AtLinphone(g, r, v)'
      BY <2>3, <2>4, <3>2 DEF AtLinphone, Truthful, Registered
    <3> QED
      BY <1>1, <2>2, <3>3 DEF UserAt
  <2>7. CASE answer[g] # "ok" /\ r # "server"
    <3>1. Link!Called(g, r) = <<>> \o <<>>
      <4>1. /\ Link!If(answer[g] = "ok" /\ linker[g] = "idle", <<<<"start", r>>, <<"state", r>>>>) = <<>>
            /\ Link!If(answer[g] = "ok" \/ r = "server", <<<<"linphone", r>>>>) = <<>>
        BY <2>4, <2>7 DEF Link!If
      <4> QED
        BY <4>1 DEF Link!Called
    <3>2. User(g)' = <<d>>
      BY <2>2, <2>4, <3>1, Concats
    <3>3. AtCs(g, v)'
      BY <2>3, <2>4, <3>2 DEF AtCs
    <3> QED
      BY <1>1, <2>2, <3>3 DEF UserAt
  <2> QED
    BY <2>5, <2>6, <2>7
<1>17. ASSUME NEW r \in Kinds, NEW x \in Plans(r), NEW v, AtClose(g, r, x, v)
      PROVE  UserAt(g)' /\ linker'[g] \in {"idle", "client", "server"}
  <2>1. /\ Head(todo[g]["user"])[1] = "close"
        /\ Head(todo[g]["user"])[2] = r
        /\ Tail(todo[g]["user"]) = <<x, <<"cs", v>>>>
    BY <1>17 DEF AtClose, User
  <2>2. /\ User(g)' = Link!api_client_to_close(g, r) \o <<x, <<"cs", v>>>>
        /\ UNCHANGED <<linker[g], types[g], runs[g]>>
    BY <1>1, <2>1, Closes DEF User
  <2>3. PICK a, b, c, d : /\ a = <<"stop", r>> /\ b = <<"request", "QUIT", Link!Other(r)>>
                          /\ c = <<"state", "idle">> /\ d = <<"cs", v>>
    OBVIOUS
  <2>4. CASE linker[g] = r
    <3>1. User(g)' = (<<a, b>> \o <<c>>) \o <<x, d>>
      BY <2>2, <2>3, <2>4 DEF Link!api_client_to_close, Link!If
    <3>2. User(g)' = <<a, b, c, x, d>>
      BY <3>1, ConcatsTwice
    <3>3. AtStop(g, x, v)'
      BY <2>3, <3>2 DEF AtStop
    <3> QED
      BY <1>1, <1>17, <2>2, <3>3 DEF UserAt
  <2>5. CASE linker[g] # r
    <3>1. User(g)' = (<<>> \o <<c>>) \o <<x, d>>
      BY <2>2, <2>3, <2>5 DEF Link!api_client_to_close, Link!If
    <3>2. User(g)' = <<c, x, d>>
      BY <3>1, Concats
    <3>3. AtIdle(g, x, v)'
      BY <2>3, <3>2 DEF AtIdle
    <3> QED
      BY <1>1, <1>17, <2>2, <3>3 DEF UserAt
  <2> QED
    BY <2>4, <2>5
<1>18. ASSUME NEW r \in Kinds, NEW x \in Plans(r), NEW v, AtPlan(g, r, x, v)
      PROVE  UserAt(g)' /\ linker'[g] \in {"idle", "client", "server"}
  <2>1. Head(todo[g]["user"]) = x /\ x[2] = r /\ Tail(todo[g]["user"]) = <<<<"cs", v>>>>
    BY <1>18 DEF AtPlan, User, Plans
  <2>2. CASE x = <<"none", r>>
    <3> Head(todo[g]["user"])[1] = "none" /\ Head(todo[g]["user"])[2] = r
      BY <2>1, <2>2
    <3>1. /\ User(g)' = <<<<"cs", v>>>>
          /\ UNCHANGED <<linker[g], runs[g]>>
          /\ types'[g] = types[g] \ {r}
      BY <1>1, <2>1, SetsType DEF User
    <3>2. AtCs(g, v)'
      BY <1>18, <2>2, <3>1 DEF AtPlan, AtCs, Truthful
    <3> QED
      BY <1>1, <3>1, <3>2 DEF UserAt
  <2>3. CASE x = <<"call", r>>
    <3> Head(todo[g]["user"])[1] = "call" /\ Head(todo[g]["user"])[2] = r
      BY <2>1, <2>3
    <3>1. /\ User(g)' = Link!api_client_to_call(g, r) \o <<<<"cs", v>>>>
          /\ UNCHANGED <<linker[g], types[g], runs[g]>>
      BY <1>1, <2>1, CallsPeer DEF User
    <3>2. Truthful(g)'
      BY <1>18, <3>1 DEF AtPlan, Truthful
    <3>3. PICK q, a, b, c, d, e :
            /\ q = Link!Other(r) /\ a = <<"stop", q>> /\ b = <<"state", "idle">>
            /\ c = <<"request", "LINK", q>> /\ d = <<"called", r>> /\ e = <<"cs", v>>
      OBVIOUS
    <3>4. CASE linker[g] = q
      <4>1. User(g)' = (<<a, b>> \o <<c, d>>) \o <<e>>
        BY <3>1, <3>3, <3>4 DEF Link!api_client_to_call, Link!If
      <4>2. User(g)' = <<a, b, c, d, e>>
        BY <4>1, ConcatsTwice
      <4>3. AtSwap(g, r, v)'
        BY <3>3, <4>2 DEF AtSwap
      <4> QED
        BY <1>1, <3>1, <4>3 DEF UserAt
    <3>5. CASE linker[g] # q
      <4>1. User(g)' = (<<>> \o <<c, d>>) \o <<e>>
        BY <3>1, <3>3, <3>5 DEF Link!api_client_to_call, Link!If
      <4>2. User(g)' = <<c, d, e>>
        BY <4>1, Concats
      <4>3. AtLink(g, r, v)'
        BY <3>2, <3>3, <4>2 DEF AtLink
      <4> QED
        BY <1>1, <3>1, <4>3 DEF UserAt
    <3> QED
      BY <3>4, <3>5
  <2> QED
    BY <2>2, <2>3 DEF Plans
<1>19. ~ AtEnd(g)
  BY <1>1 DEF AtEnd, User
<1> QED
  BY <1>1, <1>4, <1>5, <1>6, <1>7, <1>8, <1>9, <1>10, <1>11, <1>12, <1>13, <1>14, <1>15, <1>16, <1>17, <1>18, <1>19 DEF UserAt

(* What the thread does that answers requests.                             *)
LEMMA TaskSteps ==
  ASSUME LinkTyped, NEW g \in Gateways, Gate(g), Link!Step(g, "task")
  PROVE  Gate(g)'
<1>1. /\ todo[g]["task"] # <<>>
      /\ User(g) = <<>>
      /\ TaskAt(g)
      /\ linker[g] \in {"idle", "client", "server"}
  BY DEF Link!Step, Gate, Task
<1>2. User(g)' = <<>>
  <2>1. Others(g, "task")
    <3>1. PICK o, rest : o = Head(todo[g]["task"]) /\ rest = Tail(todo[g]["task"])
      OBVIOUS
    <3> QED
      BY <1>1, <3>1, Executes
  <2> QED
    BY <1>1, <2>1 DEF Others, User
<1>3. SUFFICES TaskAt(g)' /\ linker'[g] \in {"idle", "client", "server"}
  BY <1>2 DEF Gate
<1>4. PICK c, n, ok, i, p :
        /\ p = <<"respond", c, n, ok, i>>
        /\ \/ Leaves(g, p) \/ Left(g, p) \/ Replies(g, p)
           \/ \E r \in Kinds : Swaps(g, r, p) \/ Enters(g, r, p) \/ Entered(g, r, p)
  BY <1>1 DEF TaskAt, Task
<1>5. CASE Leaves(g, p)
  <2>1. PICK o : Task(g) = <<<<"stop", o>>, <<"state", "idle">>, p>>
    BY <1>5 DEF Leaves
  <2>2. /\ Head(todo[g]["task"])[1] = "stop"
        /\ Head(todo[g]["task"])[2] = o
        /\ Tail(todo[g]["task"]) = <<<<"state", "idle">>, p>>
    BY <2>1 DEF Task
  <2>3. Task(g)' = <<<<"state", "idle">>, p>> /\ UNCHANGED linker[g]
    BY <1>1, <2>2, Starts DEF Task
  <2> QED
    BY <1>1, <1>4, <2>3 DEF TaskAt, Left
<1>6. CASE Left(g, p)
  <2>1. /\ Head(todo[g]["task"])[1] = "state"
        /\ Head(todo[g]["task"])[2] = "idle"
        /\ Tail(todo[g]["task"]) = <<p>>
    BY <1>6 DEF Task, Left
  <2>2. Task(g)' = <<p>> /\ linker'[g] = "idle"
    BY <1>1, <2>1, SetsState DEF Task
  <2> QED
    BY <1>4, <2>2 DEF TaskAt, Replies, Truthful
<1>7. CASE Replies(g, p)
  <2>1. /\ Head(todo[g]["task"])[1] = "respond"
        /\ Head(todo[g]["task"])[2] = c
        /\ Tail(todo[g]["task"]) = <<>>
    BY <1>4, <1>7 DEF Task, Replies
  <2>2. Task(g)' = <<>> /\ UNCHANGED <<linker[g], types[g], runs[g]>>
    BY <1>1, <2>1, AnswersPeer DEF Task
  <2> QED
    BY <1>1, <1>7, <2>2 DEF TaskAt, Replies, Truthful
<1>8. ASSUME NEW r \in Kinds, Swaps(g, r, p)
      PROVE  TaskAt(g)' /\ linker'[g] \in {"idle", "client", "server"}
  <2>1. PICK o : Task(g) = <<<<"stop", o>>, <<"start", r>>, <<"state", r>>, p>>
    BY <1>8 DEF Swaps
  <2>2. /\ Head(todo[g]["task"])[1] = "stop"
        /\ Head(todo[g]["task"])[2] = o
        /\ Tail(todo[g]["task"]) = <<<<"start", r>>, <<"state", r>>, p>>
    BY <2>1 DEF Task
  <2>3. Task(g)' = <<<<"start", r>>, <<"state", r>>, p>> /\ UNCHANGED <<linker[g], types[g]>>
    BY <1>1, <2>2, Starts DEF Task
  <2>4. Enters(g, r, p)'
    BY <1>8, <2>3 DEF Enters, Swaps
  <2> QED
    BY <1>1, <1>4, <2>3, <2>4 DEF TaskAt
<1>9. ASSUME NEW r \in Kinds, Enters(g, r, p)
      PROVE  TaskAt(g)' /\ linker'[g] \in {"idle", "client", "server"}
  <2>1. /\ Head(todo[g]["task"])[1] = "start"
        /\ Head(todo[g]["task"])[2] = r
        /\ Tail(todo[g]["task"]) = <<<<"state", r>>, p>>
    BY <1>9 DEF Task, Enters
  <2>2. /\ Task(g)' = <<<<"state", r>>, p>> /\ UNCHANGED <<linker[g], types[g]>>
        /\ runs'[g] = runs[g] \cup {r}
    BY <1>1, <2>1, Starts DEF Task
  <2>3. Entered(g, r, p)'
    BY <1>9, <2>2 DEF Enters, Entered
  <2> QED
    BY <1>1, <1>4, <2>2, <2>3 DEF TaskAt
<1>10. ASSUME NEW r \in Kinds, Entered(g, r, p)
       PROVE  TaskAt(g)' /\ linker'[g] \in {"idle", "client", "server"}
  <2>1. /\ Head(todo[g]["task"])[1] = "state"
        /\ Head(todo[g]["task"])[2] = r
        /\ Tail(todo[g]["task"]) = <<p>>
    BY <1>10 DEF Task, Entered
  <2>2. Task(g)' = <<p>> /\ linker'[g] = r /\ UNCHANGED <<types[g], runs[g]>>
    BY <1>1, <2>1, SetsState DEF Task
  <2>3. Replies(g, p)'
    BY <1>10, <2>2 DEF Replies, Entered, Truthful
  <2> QED
    BY <1>4, <2>2, <2>3 DEF TaskAt, Kinds
<1> QED
  BY <1>4, <1>5, <1>6, <1>7, <1>8, <1>9, <1>10

(* What a thread is given to do, when the state of the gateway changes in   *)
(* nothing but the roles that are registered.                              *)
LEMMA Given ==
  ASSUME LinkTyped, NEW g \in Gateways, NEW t \in {"user", "task"}, NEW next, Link!Does(g, t, next),
         UNCHANGED <<linker, runs>>,
         \E s : types' = types \/ types' = [types EXCEPT ![g] = s]
  PROVE  /\ LinkTyped' /\ Others(g, t) /\ todo'[g][t] = next
         /\ \A h \in Gateways : h # g /\ Gate(h) => Gate(h)'
<1>1. Others(g, t) /\ todo'[g][t] = next
  BY LinkMoves DEF Others
<1>2. LinkTyped'
  BY LinkMoves DEF LinkTyped
<1>3. ASSUME NEW h \in Gateways, h # g, Gate(h)
      PROVE  Gate(h)'
  <2>1. types'[h] = types[h]
    BY <1>3 DEF LinkTyped
  <2>2. UNCHANGED <<linker[h], types[h], runs[h], User(h), Task(h)>>
    BY <1>1, <1>3, <2>1 DEF Others, User, Task
  <2> QED
    BY <1>3, <2>2, GateKept
<1> QED
  BY <1>1, <1>2, <1>3

(* A gateway that has nothing to do is at its end.                         *)
LEMMA AtRest ==
  ASSUME NEW g, Gate(g), User(g) = <<>>, Task(g) = <<>>
  PROVE  Truthful(g)
<1>1. CASE UserAt(g)
  BY <1>1 DEF UserAt, AtEnd, AtClose, AtStop, AtQuit, WaitsQuit, AtIdle, AtPlan, AtSwap, AtSwapped,
     AtLink, WaitsLink, AtCalled, AtStart, AtStarted, AtLinphone, AtCs
<1>2. CASE TaskAt(g)
  BY <1>2 DEF TaskAt, Leaves, Left, Swaps, Enters, Entered, Replies
<1> QED
  BY <1>1, <1>2 DEF Gate

(* A user begins.                                                          *)
LEMMA UseSteps ==
  ASSUME LinkTyped, NEW g \in Gateways, NEW r \in Kinds, Link!TurnOn(g, r) \/ Link!TurnOff(g, r)
  PROVE  /\ LinkTyped' /\ \A h \in Gateways : h # g /\ Gate(h) => Gate(h)'
         /\ Gate(g) => Gate(g)' \/ (User(g)' # <<>> /\ Task(g)' # <<>>)
<1>1. PICK x, v, next :
        /\ x \in Plans(r) /\ Link!Does(g, "user", next)
        /\ next = (IF r \in types[g] THEN <<<<"close", r>>>> ELSE <<>>) \o <<x, <<"cs", v>>>>
        /\ types' = types \/ types' = [types EXCEPT ![g] = types[g] \ {r}]
        /\ UNCHANGED <<linker, runs>> /\ User(g) = <<>>
  <2>1. CASE Link!TurnOn(g, r)
    <3>1. PICK x, next :
          /\ x = <<"call", r>>
          /\ next = (IF r \in types[g] THEN <<<<"close", r>>>> ELSE <<>>) \o <<x, <<"cs", r>>>>
      OBVIOUS
    <3> QED
      BY <2>1, <3>1 DEF Link!TurnOn, Link!If, Link!Put, Plans, User
  <2>2. CASE Link!TurnOff(g, r)
    <3>1. PICK x, next :
          /\ x = <<"none", r>>
          /\ next = (IF r \in types[g] THEN <<<<"close", r>>>> ELSE <<>>) \o <<x, <<"cs", "idle">>>>
      OBVIOUS
    <3> QED
      BY <2>2, <3>1 DEF Link!TurnOff, Link!If, Plans, User
  <2> QED
    BY <2>1, <2>2
<1>2. /\ LinkTyped' /\ Others(g, "user") /\ User(g)' = next
      /\ \A h \in Gateways : h # g /\ Gate(h) => Gate(h)'
  BY <1>1, Given DEF User
<1>3. Task(g)' = Task(g)
  BY <1>2 DEF Others, Task
<1>4. PICK c, d : c = <<"close", r>> /\ d = <<"cs", v>>
  OBVIOUS
<1>5. /\ r \in types[g] => User(g)' = <<c, x, d>>
      /\ r \notin types[g] => User(g)' = <<x, d>>
  <2>1. r \in types[g] => User(g)' = <<c>> \o <<x, d>>
    BY <1>1, <1>2, <1>4
  <2>2. r \notin types[g] => User(g)' = <<>> \o <<x, d>>
    BY <1>1, <1>2, <1>4
  <2> QED
    BY <2>1, <2>2, Concats
<1>6. User(g)' # <<>>
  BY <1>5
<1>7. ASSUME Gate(g), Task(g) = <<>>
      PROVE  Gate(g)'
  <2>1. Truthful(g) /\ linker[g] \in {"idle", "client", "server"}
    BY <1>1, <1>7, AtRest DEF Gate
  <2>2. UNCHANGED <<linker[g], runs[g]>> /\ (types'[g] = types[g] \/ types'[g] = types[g] \ {r})
    BY <1>1 DEF LinkTyped
  <2>3. CASE r \in types[g]
    <3>1. AtClose(g, r, x, v)'
      BY <1>4, <1>5, <2>1, <2>2, <2>3 DEF AtClose, Registered, Truthful
    <3> QED
      BY <1>1, <1>3, <1>7, <2>1, <2>2, <3>1 DEF Gate, UserAt
  <2>4. CASE r \notin types[g]
    <3>1. AtPlan(g, r, x, v)'
      BY <1>4, <1>5, <2>1, <2>2, <2>4 DEF AtPlan, Truthful, Kinds
    <3> QED
      BY <1>1, <1>3, <1>7, <2>1, <2>2, <3>1 DEF Gate, UserAt
  <2> QED
    BY <2>3, <2>4
<1> QED
  BY <1>2, <1>3, <1>6, <1>7

(* An answer comes in, or is lost.                                         *)
LEMMA WaitEnds ==
  ASSUME LinkTyped, NEW g \in Gateways, Gate(g), UNCHANGED <<linker[g], types[g], runs[g], Task(g)>>,
         User(g) # <<>>, Head(User(g))[1] = "wait", User(g)' = Tail(User(g))
  PROVE  Gate(g)'
<1>1. Task(g) = <<>> /\ UserAt(g) /\ linker[g] \in {"idle", "client", "server"}
  BY DEF Gate
<1>2. Truthful(g)' = Truthful(g)
  BY DEF Truthful
<1>3. ASSUME NEW r \in Kinds, NEW x \in Plans(r), NEW v, WaitsQuit(g, x, v)
      PROVE  Gate(g)'
  <2>1. User(g)' = <<<<"state", "idle">>, x, <<"cs", v>>>>
    BY <1>3 DEF WaitsQuit
  <2>2. AtIdle(g, x, v)'
    BY <2>1 DEF AtIdle
  <2> QED
    BY <1>1, <1>3, <2>2 DEF Gate, UserAt
<1>4. ASSUME NEW r \in Kinds, NEW v, WaitsLink(g, r, v)
      PROVE  Gate(g)'
  <2>1. User(g)' = <<<<"called", r>>, <<"cs", v>>>>
    BY <1>4 DEF WaitsLink
  <2>2. AtCalled(g, r, v)'
    BY <1>2, <1>4, <2>1 DEF AtCalled, WaitsLink
  <2> QED
    BY <1>1, <1>4, <2>2 DEF Gate, UserAt
<1>5. \A v : ~ AtCs(g, v)
  BY DEF AtCs
<1>6. \A r, v : ~ AtSwap(g, r, v) /\ ~ AtSwapped(g, r, v) /\ ~ AtLink(g, r, v) /\ ~ AtCalled(g, r, v)
                /\ ~ AtStart(g, r, v) /\ ~ AtStarted(g, r, v) /\ ~ AtLinphone(g, r, v)
  BY DEF AtSwap, AtSwapped, AtLink, AtCalled, AtStart, AtStarted, AtLinphone
<1>7. \A r, v : \A x \in Plans(r) :
        ~ AtClose(g, r, x, v) /\ ~ AtStop(g, x, v) /\ ~ AtQuit(g, x, v) /\ ~ AtIdle(g, x, v)
        /\ ~ AtPlan(g, r, x, v)
  BY DEF AtClose, AtStop, AtQuit, AtIdle, AtPlan, Plans
<1> QED
  BY <1>1, <1>3, <1>4, <1>5, <1>6, <1>7 DEF UserAt, AtEnd

(* A request comes in: what a gateway that has nothing to do begins.       *)
LEMMA Becalled ==
  ASSUME LinkTyped, NEW g \in Gateways, Gate(g), User(g) = <<>>, Task(g) = <<>>, NEW r \in Kinds,
         NEW c, NEW n, NEW ok, NEW i, UNCHANGED <<linker[g], runs[g], User(g)>>,
         types'[g] = types[g] \cup {r},
         Task(g)' = Link!Become(g, r) \o <<<<"respond", c, n, ok, i>>>>
  PROVE  Gate(g)'
<1>1. Truthful(g) /\ linker[g] \in {"idle", "client", "server"}
  BY AtRest DEF Gate
<1>2. PICK p : p = <<"respond", c, n, ok, i>>
  OBVIOUS
<1>3. PICK a, b, d : a = <<"stop", Link!Other(r)>> /\ b = <<"start", r>> /\ d = <<"state", r>>
  OBVIOUS
<1>4. /\ Link!Other(r) # r
      /\ Link!Other(r) # "idle"
      /\ r # "idle"
      /\ linker[g] \in {"idle", r, Link!Other(r)}
  BY <1>1 DEF Link!Other, Kinds
<1>5. CASE linker[g] = r
  <2>1. Link!Become(g, r) = <<>>
    BY <1>4, <1>5 DEF Link!Become
  <2>2. Task(g)' = <<p>>
    BY <1>2, <2>1, Concats
  <2>3. Replies(g, p)'
    BY <1>1, <2>2 DEF Replies, Truthful
  <2> QED
    BY <1>1, <1>2, <2>3 DEF Gate, TaskAt
<1>6. CASE linker[g] = "idle"
  <2>1. Link!Become(g, r) = <<b, d>>
    BY <1>3, <1>4, <1>6 DEF Link!Become
  <2>2. Task(g)' = <<b, d, p>>
    BY <1>2, <2>1, Concats
  <2>3. Enters(g, r, p)'
    BY <1>3, <2>2 DEF Enters
  <2> QED
    BY <1>1, <1>2, <2>3 DEF Gate, TaskAt
<1>7. CASE linker[g] = Link!Other(r)
  <2>1. Link!Become(g, r) = <<a, b, d>>
    BY <1>3, <1>4, <1>7 DEF Link!Become
  <2>2. Task(g)' = <<a, b, d, p>>
    BY <1>2, <2>1, Concats
  <2>3. Swaps(g, r, p)'
    BY <1>3, <2>2 DEF Swaps
  <2> QED
    BY <1>1, <1>2, <2>3 DEF Gate, TaskAt
<1> QED
  BY <1>4, <1>5, <1>6, <1>7

LEMMA Beclosed ==
  ASSUME LinkTyped, NEW g \in Gateways, Gate(g), User(g) = <<>>, Task(g) = <<>>, NEW r,
         NEW c, NEW n, NEW ok, NEW i, UNCHANGED <<linker[g], runs[g], User(g)>>,
         \/ Task(g)' = <<<<"stop", r>>, <<"state", "idle">>, <<"respond", c, n, ok, i>>>>
         \/ Task(g)' = <<<<"state", "idle">>, <<"respond", c, n, ok, i>>>>
  PROVE  Gate(g)'
<1>1. linker[g] \in {"idle", "client", "server"}
  BY DEF Gate
<1>2. PICK p : p = <<"respond", c, n, ok, i>>
  OBVIOUS
<1>3. Leaves(g, p)' \/ Left(g, p)'
  BY <1>2 DEF Leaves, Left
<1> QED
  BY <1>1, <1>2, <1>3 DEF Gate, TaskAt

Busy(g) == User(g) # <<>> /\ Task(g) # <<>>

LEMMA ReceiveSteps ==
  ASSUME LinkTyped, NEW g \in Gateways, Link!linphone_linker_udp_recv_anaylasis(g)
  PROVE  /\ LinkTyped' /\ \A h \in Gateways : h # g /\ Gate(h) => Gate(h)'
         /\ Gate(g) => Gate(g)' \/ Busy(g)'
<1>1. PICK m : \/ Link!api_linphone_server_becalled(g, m) \/ Link!api_linphone_client_becalled(g, m)
               \/ Link!beclosed(g, m)
               \/ Link!Answered(g, m) /\ UNCHANGED types
  BY DEF Link!linphone_linker_udp_recv_anaylasis
<1>2. UNCHANGED <<linker, runs>> /\ Task(g) = <<>>
  BY DEF Link!linphone_linker_udp_recv_anaylasis, Link!Free, Task
<1>3. ASSUME NEW r \in Kinds, NEW n, NEW ok, NEW i, NEW next,
             Link!Does(g, "task", next), next = Link!Become(g, r) \o <<<<"respond", "LINK", n, ok, i>>>>,
             types' = [types EXCEPT ![g] = types[g] \cup {r}]
      PROVE  /\ LinkTyped' /\ \A h \in Gateways : h # g /\ Gate(h) => Gate(h)'
             /\ Gate(g) => Gate(g)' \/ Busy(g)'
  <2>1. /\ LinkTyped' /\ Others(g, "task") /\ Task(g)' = next
        /\ \A h \in Gateways : h # g /\ Gate(h) => Gate(h)'
    BY <1>2, <1>3, Given DEF Task
  <2>2. User(g)' = User(g) /\ UNCHANGED <<linker[g], runs[g]>> /\ types'[g] = types[g] \cup {r}
    BY <1>2, <1>3, <2>1 DEF Others, User, LinkTyped
  <2>3. ASSUME Gate(g), User(g) = <<>>
        PROVE  Gate(g)'
    BY <1>2, <1>3, <2>1, <2>2, <2>3, Becalled
  <2>4. ASSUME Gate(g)
        PROVE  Task(g)' # <<>>
    <3>1. PICK a, b, d, p :
          /\ a = <<"stop", Link!Other(r)>>
          /\ b = <<"start", r>>
          /\ d = <<"state", r>>
                            /\ p = <<"respond", "LINK", n, ok, i>>
      OBVIOUS
    <3>2. /\ Link!Other(r) # r
          /\ Link!Other(r) # "idle"
          /\ r # "idle"
          /\ linker[g] \in {"idle", r, Link!Other(r)}
      BY <2>4 DEF Gate, Link!Other, Kinds
    <3>3. Link!Become(g, r) \in {<<>>, <<b, d>>, <<a, b, d>>}
      BY <3>1, <3>2 DEF Link!Become
    <3>4. /\ <<>> \o <<p>> = <<p>>
          /\ <<b, d>> \o <<p>> = <<b, d, p>>
          /\ <<a, b, d>> \o <<p>> = <<a, b, d, p>>
      BY Concats
    <3>5. next \in {<<p>>, <<b, d, p>>, <<a, b, d, p>>}
      BY <1>3, <3>1, <3>3, <3>4
    <3> QED
      BY <2>1, <3>5
  <2> QED
    BY <2>1, <2>2, <2>3, <2>4 DEF Busy
<1>4. CASE Link!api_linphone_server_becalled(g, m)
  <2>0. PICK err \in {0, 1} :
          /\ Link!api_camera_server_linphone_apply_on(g, err)
          /\ Link!Does(g, "task", Link!If(err # 0, Link!Become(g, "server"))
                                 \o <<<<"respond", "LINK", m.id, err # 0, roles[g] = "idle">>>>)
    BY <1>4 DEF Link!api_linphone_server_becalled, Link!api_video_s_service_start_apply
  <2>1. PICK i, next :
          /\ types' = [types EXCEPT ![g] = IF err # 0 THEN types[g] \cup {"server"} ELSE types[g]]
          /\ Link!Does(g, "task", next)
          /\ next = (IF err # 0 THEN Link!Become(g, "server") ELSE <<>>)
                    \o <<<<"respond", "LINK", m.id, err # 0, i>>>>
    BY <2>0 DEF Link!api_camera_server_linphone_apply_on, Link!Put, Link!If
  <2>2. CASE err # 0
    BY <1>3, <2>1, <2>2 DEF Kinds
  <2>3. CASE err = 0
    <3>1. PICK p, ok : p = <<"respond", "LINK", m.id, ok, i>> /\ next = <<>> \o <<p>>
      <4>1. PICK ok : ok = (err # 0)
        OBVIOUS
      <4> QED
        BY <2>1, <2>3, <4>1
    <3>2. next = <<p>>
      BY <3>1, Concats
    <3>3. /\ LinkTyped' /\ Others(g, "task") /\ Task(g)' = <<p>>
          /\ \A h \in Gateways : h # g /\ Gate(h) => Gate(h)'
      BY <1>2, <2>1, <3>2, Given DEF Task
    <3>4. User(g)' = User(g) /\ UNCHANGED <<linker[g], runs[g], types[g]>>
      BY <1>2, <2>1, <2>3, <3>3 DEF Others, User, LinkTyped
    <3>5. ASSUME Gate(g), User(g) = <<>>
          PROVE  Gate(g)'
      <4>1. Truthful(g) /\ linker[g] \in {"idle", "client", "server"}
        BY <1>2, <3>5, AtRest DEF Gate
      <4>2. Replies(g, p)'
        BY <3>3, <3>4, <4>1 DEF Replies, Truthful
      <4> QED
        BY <3>1, <3>4, <3>5, <4>1, <4>2 DEF Gate, TaskAt
    <3>6. Task(g)' # <<>>
      BY <3>3
    <3> QED
      BY <3>3, <3>4, <3>5, <3>6 DEF Busy
  <2> QED
    BY <2>2, <2>3
<1>5. CASE Link!api_linphone_client_becalled(g, m)
  <2>1. PICK next :
          /\ types' = [types EXCEPT ![g] = types[g] \cup {"client"}] /\ Link!Does(g, "task", next)
          /\ next = Link!Become(g, "client") \o <<<<"respond", "LINK", m.id, TRUE, FALSE>>>>
    BY <1>5 DEF Link!api_linphone_client_becalled, Link!api_video_client_linphone_apply_on, Link!Put
  <2> QED
    BY <1>3, <2>1 DEF Kinds
<1>6. CASE Link!beclosed(g, m)
  <2>1. PICK next, s :
          /\ types' = [types EXCEPT ![g] = s] /\ Link!Does(g, "task", next)
          /\ next = (IF linker[g] = m.role THEN <<<<"stop", m.role>>>> ELSE <<>>)
                    \o <<<<"state", "idle">>, <<"respond", "QUIT", m.id, TRUE, FALSE>>>>
    BY <1>6 DEF Link!beclosed, Link!Put, Link!If
  <2>2. PICK a, b, d : /\ a = <<"stop", m.role>> /\ b = <<"state", "idle">>
                       /\ d = <<"respond", "QUIT", m.id, TRUE, FALSE>>
    OBVIOUS
  <2>3. next = <<a, b, d>> \/ next = <<b, d>>
    <3>1. <<a>> \o <<b, d>> = <<a, b, d>> /\ <<>> \o <<b, d>> = <<b, d>>
      BY Concats
    <3> QED
      BY <2>1, <2>2, <3>1
  <2>4. /\ LinkTyped' /\ Others(g, "task") /\ Task(g)' = next
        /\ \A h \in Gateways : h # g /\ Gate(h) => Gate(h)'
    <3>1. \E q : types' = types \/ types' = [types EXCEPT ![g] = q]
      BY <2>1
    <3>2. Link!Does(g, "task", next)
      BY <2>1
    <3> QED
      BY <1>2, <3>1, <3>2, Given DEF Task
  <2>5. User(g)' = User(g) /\ UNCHANGED <<linker[g], runs[g]>> /\ Task(g)' # <<>>
    BY <1>2, <2>3, <2>4 DEF Others, User
  <2>6. ASSUME Gate(g), User(g) = <<>>
        PROVE  Gate(g)'
    BY <1>2, <2>2, <2>3, <2>4, <2>5, <2>6, Beclosed
  <2> QED
    BY <2>4, <2>5, <2>6 DEF Busy
<1>7. CASE Link!Answered(g, m) /\ UNCHANGED types
  <2>1. PICK u, next : /\ u = User(g) /\ Link!Does(g, "user", next)
                       /\ next = (IF u # <<>> /\ Head(u) = <<"wait", m.of, m.id>> THEN Tail(u) ELSE u)
    BY <1>7 DEF Link!Answered, User
  <2>2. /\ LinkTyped' /\ Others(g, "user") /\ User(g)' = next
        /\ \A h \in Gateways : h # g /\ Gate(h) => Gate(h)'
    BY <1>2, <1>7, <2>1, Given DEF User
  <2>3. UNCHANGED <<linker[g], types[g], runs[g], Task(g)>>
    BY <1>2, <1>7, <2>2 DEF Others, Task
  <2>4. CASE u # <<>> /\ Head(u) = <<"wait", m.of, m.id>>
    <3>1. User(g) # <<>> /\ Head(User(g))[1] = "wait" /\ User(g)' = Tail(User(g))
      BY <2>1, <2>2, <2>4
    <3> QED
      BY <2>2, <2>3, <3>1, WaitEnds
  <2>5. CASE ~ (u # <<>> /\ Head(u) = <<"wait", m.of, m.id>>)
    <3>1. User(g)' = User(g)
      BY <2>1, <2>2, <2>5
    <3> QED
      BY <2>2, <2>3, <3>1, GateKept
  <2> QED
    BY <2>4, <2>5
<1> QED
  BY <1>1, <1>4, <1>5, <1>6, <1>7

LEMMA LoseSteps ==
  ASSUME LinkTyped, Link!Lose
  PROVE  LinkTyped' /\ \A h \in Gateways : Gate(h) => Gate(h)'
<1>1. PICK k : /\ User(k) # <<>> /\ Head(User(k))[1] = "wait"
               /\ Link!Does(k, "user", Tail(User(k)))
  BY DEF Link!Lose, User
<1>2. UNCHANGED <<linker, types, runs>>
  BY DEF Link!Lose
<1>3. CASE k \in Gateways
  <2>1. PICK next : next = Tail(User(k)) /\ Link!Does(k, "user", next)
    BY <1>1
  <2>2. /\ LinkTyped' /\ Others(k, "user") /\ User(k)' = next
        /\ \A h \in Gateways : h # k /\ Gate(h) => Gate(h)'
    BY <1>2, <1>3, <2>1, Given DEF User
  <2>3. Task(k)' = Task(k)
    BY <1>3, <2>2 DEF Others, Task
  <2> QED
    BY <1>1, <1>2, <1>3, <2>1, <2>2, <2>3, WaitEnds
<1>4. CASE k \notin Gateways
  <2>1. todo' = todo
    BY <1>1, <1>4 DEF Link!Does, LinkTyped
  <2> QED
    BY <1>2, <2>1, GateKept DEF LinkTyped, User, Task
<1> QED
  BY <1>3, <1>4

LEMMA LinkStepKeeps ==
  ASSUME LinkInv, [Link!Next]_(Link!vars)
  PROVE  LinkInv'
<1>1. CASE UNCHANGED Link!vars
  <2>1. UNCHANGED <<linker, types, runs, todo, met>>
    BY <1>1 DEF Link!vars
  <2> QED
    BY <2>1, GateKept DEF LinkInv, LinkTyped, User, Task
<1>2. CASE Link!Next
  <2>1. met' = met \cup {g \in Gateways : \A t \in {"user", "task"} : todo'[g][t] # <<>>}
    BY <1>2 DEF Link!Next, Link!Meets, Gateways
  <2>2. \A g \in Gateways \ met' : g \notin met /\ ~ Busy(g)'
    BY <2>1 DEF Busy, User, Task
  <2>3. SUFFICES LinkTyped' /\ \A g \in Gateways : Gate(g) => Gate(g)' \/ Busy(g)'
    BY <2>2, <2>3 DEF LinkInv
  <2>4. LinkTyped
    BY DEF LinkInv
  <2>5. CASE Link!Use
    <3>1. PICK g \in Gateways, r \in Kinds : Link!TurnOn(g, r) \/ Link!TurnOff(g, r)
      BY <2>5 DEF Link!Use, Link!api_video_client_turn_on, Link!api_video_client_turn_off,
         Link!api_camera_server_turn_on, Link!api_camera_server_turn_off, Gateways, Kinds
    <3> QED
      BY <2>4, <3>1, UseSteps DEF Busy
  <2>6. CASE Link!Lose
    BY <2>4, <2>6, LoseSteps
  <2>7. ASSUME NEW g \in Gateways, Link!linphone_linker_udp_recv_anaylasis(g)
        PROVE  LinkTyped' /\ \A h \in Gateways : Gate(h) => Gate(h)' \/ Busy(h)'
    BY <2>4, <2>7, ReceiveSteps
  <2>8. ASSUME NEW g \in Gateways, NEW t \in {"user", "task"}, Link!Step(g, t)
        PROVE  LinkTyped' /\ \A h \in Gateways : Gate(h) => Gate(h)' \/ Busy(h)'
    <3>1. PICK o, rest : o = Head(todo[g][t]) /\ rest = Tail(todo[g][t])
      OBVIOUS
    <3>2. /\ LinkTyped' /\ Others(g, t)
          /\ \A h \in Gateways : h # g => UNCHANGED <<linker[h], types[h], runs[h]>>
      BY <2>4, <2>8, <3>1, Executes DEF Link!Step
    <3>3. ASSUME NEW h \in Gateways, h # g, Gate(h)
          PROVE  Gate(h)'
      <4>1. UNCHANGED <<linker[h], types[h], runs[h], User(h), Task(h)>>
        BY <3>2, <3>3 DEF Others, User, Task
      <4> QED
        BY <3>3, <4>1, GateKept
    <3>4. Gate(g) => Gate(g)'
      BY <2>4, <2>8, UserSteps, TaskSteps
    <3> QED
      BY <3>2, <3>3, <3>4
  <2> QED
    BY <1>2, <2>5, <2>6, <2>7, <2>8 DEF Link!Next, Gateways
<1> QED
  BY <1>1, <1>2

(* Between two uses the role that a gateway's state names is one whose      *)
(* linphone runs and whose control is registered, whatever was refused or   *)
(* lost on the way and whatever the other gateway did meanwhile, unless     *)
(* the gateway's two threads overlapped.                                    *)
THEOREM StateNamesWhatRuns == Link!Spec => []Link!StateIsTrue
<1>1. LinkInv => Link!StateIsTrue
  <2> SUFFICES ASSUME LinkInv, NEW g \in Gateways \ met, Link!Quiet(g), linker[g] # "idle"
               PROVE  linker[g] \in runs[g] /\ linker[g] \in types[g]
    BY DEF Link!StateIsTrue, Gateways
  <2>1. Gate(g) /\ User(g) = <<>> /\ Task(g) = <<>>
    BY DEF LinkInv, Link!Quiet, User, Task
  <2> QED
    BY <2>1, AtRest DEF Truthful
<1>2. Link!Init => LinkInv
  <2> SUFFICES ASSUME Link!Init PROVE LinkInv
    OBVIOUS
  <2>1. LinkTyped /\ \A g \in Gateways : User(g) = <<>> /\ Task(g) = <<>> /\ linker[g] = "idle"
    BY DEF Link!Init, LinkTyped, Gateways, User, Task
  <2> QED
    BY <2>1 DEF LinkInv, Gate, TaskAt, Truthful
<1>3. LinkInv /\ [Link!Next]_(Link!vars) => LinkInv'
  BY LinkStepKeeps
<1> QED
  BY <1>1, <1>2, <1>3, PTL DEF Link!Spec
==============================================================================
