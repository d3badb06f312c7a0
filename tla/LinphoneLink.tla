---------------------------- MODULE LinphoneLink ----------------------------
(***************************************************************************)
(* How two gateways agree on a linphone picture (linphone_linker.c,        *)
(* video_linphone_server.c, video_linphone_client.c and the controls over  *)
(* them).  Who calls asks the other by LINK_REQ to start a linphone of the *)
(* other role, then starts its own; QUIT_REQ ends both.  At each gateway   *)
(* the thread of the user and the thread that answers requests run the     *)
(* same code over the same state, and starting or stopping a process takes *)
(* more than a second.  `todo' holds what a thread still has to do.        *)
(***************************************************************************)
EXTENDS Naturals, Sequences

CONSTANTS Uses,      \* pairs of a gateway and what its user does
          MaxUses,   \* bound on what the users do
          MaxMishaps \* bound on requests and answers lost

VARIABLES
  state,   \* one_linphone_linker.state: "idle" or a role, at each gateway
  msg,     \* one_linphone_linker.msg
  sn,      \* one_linphone_linker.send_cmd_sn
  cs,      \* global_cs_state: "idle" or a role
  type,    \* the roles whose control is registered as linphone
  proc,    \* the roles whose linphone runs
  todo,    \* what each thread of each gateway has to do
  net,     \* requests and answers under way
  uses, mishaps,
  met      \* ghost: both threads of a gateway had something to do at a time

vars == <<state, msg, sn, cs, type, proc, todo, net, uses, mishaps, met>>

Gateways == {"a", "b"}
Peer(g)  == IF g = "a" THEN "b" ELSE "a"
Roles    == {"client", "server"}
Other(r) == IF r = "client" THEN "server" ELSE "client"

Init == /\ state = [g \in Gateways |-> "idle"] /\ cs = [g \in Gateways |-> "idle"]
        /\ msg = [g \in Gateways |-> "none"] /\ sn = [g \in Gateways |-> 0]
        /\ type = [g \in Gateways |-> {}] /\ proc = [g \in Gateways |-> {}]
        /\ todo = [g \in Gateways |-> [t \in {"user", "task"} |-> <<>>]]
        /\ net = {} /\ uses = 0 /\ mishaps = 0 /\ met = {}

Does(g, t, next) == todo' = [todo EXCEPT ![g][t] = next]
Put(f, g, v)     == [f EXCEPT ![g] = v]
If(c, s)         == IF c THEN s ELSE <<>>
-----------------------------------------------------------------------------
(* The user's calls.                                                       *)
api_client_to_close(g, r) ==
  If(state[g] = r, <<<<"stop", r>>, <<"request", "QUIT", Other(r)>>>>) \o <<<<"state", "idle">>>>

(* Seeded fault: the link of the old picture is kept.                      *)
TurnOnLinked(g, r) ==
  /\ <<g, r>> \in Uses /\ todo[g]["user"] = <<>>
  /\ type' = Put(type, g, type[g] \ {r})
  /\ Does(g, "user", <<<<"call", r>>, <<"cs", r>>>>)
  /\ UNCHANGED <<state, msg, sn, cs, proc, net, mishaps>>

TurnOn(g, r) ==
  /\ <<g, r>> \in Uses /\ todo[g]["user"] = <<>>
  /\ type' = Put(type, g, type[g] \ {r})
  /\ Does(g, "user", If(r \in type[g], <<<<"close", r>>>>) \o <<<<"call", r>>, <<"cs", r>>>>)
  /\ UNCHANGED <<state, msg, sn, cs, proc, net, mishaps>>

TurnOff(g, r) ==
  /\ <<g, "no " \o r>> \in Uses /\ todo[g]["user"] = <<>>
  /\ Does(g, "user", If(r \in type[g], <<<<"close", r>>>>) \o <<<<"none", r>>, <<"cs", "idle">>>>)
  /\ UNCHANGED <<state, msg, sn, cs, type, proc, net, mishaps>>

api_video_client_turn_on(g)   == TurnOn(g, "client")
api_video_client_turn_off(g)  == cs[g] # "idle" /\ TurnOff(g, "client")
api_camera_server_turn_on(g)  == TurnOn(g, "server")
api_camera_server_turn_off(g) == TurnOff(g, "server")

Use == /\ uses < MaxUses /\ uses' = uses + 1
       /\ \E g \in Gateways :
            /\ \/ api_video_client_turn_on(g)  \/ api_video_client_turn_off(g)
               \/ api_camera_server_turn_on(g) \/ api_camera_server_turn_off(g)

(* api_linphone_client_to_call and _server_to_call, to the request.        *)
api_client_to_call(g, r) ==
  If(state[g] = Other(r), <<<<"stop", Other(r)>>, <<"state", "idle">>>>)
  \o <<<<"request", "LINK", Other(r)>>, <<"called", r>>>>

(* And after it.  That of the server returns 0 in any case.                *)
Called(g, r) ==
  If(msg[g] = "ok" /\ state[g] = "idle", <<<<"start", r>>, <<"state", r>>>>)
  \o If(msg[g] = "ok" \/ r = "server", <<<<"linphone", r>>>>)
-----------------------------------------------------------------------------
(* What the two threads do.                                                *)
onoff_local_linphone(g, o) ==
  proc' = Put(proc, g, IF o[1] = "start" THEN proc[g] \cup {o[2]} ELSE proc[g] \ {o[2]})

(* api_one_linphone_linker_req and api_one_linphone_unlink_req.            *)
Requests(g, t, o, rest) ==
  /\ sn' = [sn EXCEPT ![g] = @ + 1] /\ msg' = Put(msg, g, "none")
  /\ net' = net \cup {[cmd |-> o[2], to |-> Peer(g), role |-> o[3], id |-> sn[g] + 1]}
  /\ Does(g, t, <<<<"wait", o[2], sn[g] + 1>>>> \o rest)

(* api_one_linphone_linker_rsp and api_one_linphone_unlink_rsp.            *)
Responds(g, o) ==
  /\ net' = net \cup {[cmd |-> "RSP", of |-> o[2], to |-> Peer(g), id |-> o[3], ok |-> o[4], idle |-> o[5]]}
  /\ msg' = Put(msg, g, "ok")

Step(g, t) ==
  /\ todo[g][t] # <<>>
  /\ LET o    == Head(todo[g][t])
         rest == Tail(todo[g][t])
     IN \/ /\ o[1] \in {"start", "stop"} /\ onoff_local_linphone(g, o) /\ Does(g, t, rest)
           /\ UNCHANGED <<state, msg, sn, cs, type, net>>
        \/ /\ o[1] = "state" /\ state' = Put(state, g, o[2]) /\ Does(g, t, rest)
           /\ UNCHANGED <<msg, sn, cs, type, proc, net>>
        \/ /\ o[1] = "cs" /\ cs' = Put(cs, g, o[2]) /\ Does(g, t, rest)
           /\ UNCHANGED <<state, msg, sn, type, proc, net>>
        \/ /\ o[1] \in {"linphone", "none"}
           /\ type' = Put(type, g, IF o[1] = "none" THEN type[g] \ {o[2]} ELSE type[g] \cup {o[2]})
           /\ Does(g, t, rest) /\ UNCHANGED <<state, msg, sn, cs, proc, net>>
        \/ /\ o[1] = "close" /\ Does(g, t, api_client_to_close(g, o[2]) \o rest)
           /\ UNCHANGED <<state, msg, sn, cs, type, proc, net>>
        \/ /\ o[1] = "call" /\ Does(g, t, api_client_to_call(g, o[2]) \o rest)
           /\ UNCHANGED <<state, msg, sn, cs, type, proc, net>>
        \/ /\ o[1] = "called" /\ Does(g, t, Called(g, o[2]) \o rest)
           /\ UNCHANGED <<state, msg, sn, cs, type, proc, net>>
        \/ /\ o[1] = "request" /\ Requests(g, t, o, rest)
           /\ UNCHANGED <<state, cs, type, proc>>
        \/ /\ o[1] = "respond" /\ Responds(g, o) /\ Does(g, t, rest)
           /\ UNCHANGED <<state, sn, cs, type, proc>>
  /\ UNCHANGED <<uses, mishaps>>
-----------------------------------------------------------------------------
(* The thread that takes requests.  A user woken by an answer reads msg    *)
(* before the next request, which takes a second, has been dealt with.     *)
Free(g) == /\ todo[g]["task"] = <<>>
           /\ todo[g]["user"] # <<>> => Head(todo[g]["user"])[1] # "called"

(* api_video_s_service_start_apply: it is given no dev_id, so the compare  *)
(* with that of the running service may come out either way; and for a     *)
(* gateway that is a client it falls off its end.                          *)
api_video_s_service_start_apply(g) == IF cs[g] = "idle" THEN {0} ELSE {0, 1}

(* The part of them that starts the linphone.                              *)
Become(g, r) ==
  CASE state[g] = r        -> <<>>
    [] state[g] = "idle"   -> <<<<"start", r>>, <<"state", r>>>>
    [] state[g] = Other(r) -> <<<<"stop", Other(r)>>, <<"start", r>>, <<"state", r>>>>

(* It takes 0, "ok", for a refusal, and the other way round.               *)
api_camera_server_linphone_apply_on(g, err) ==
  /\ cs' = Put(cs, g, IF cs[g] = "idle" THEN "server" ELSE cs[g])
  /\ type' = Put(type, g, IF err # 0 THEN type[g] \cup {"server"} ELSE type[g])

api_video_client_linphone_apply_on(g) ==
  /\ cs' = Put(cs, g, "client")
  /\ type' = Put(type, g, type[g] \cup {"client"})

api_linphone_server_becalled(g, m) ==
  /\ m.role = "server"
  /\ \E err \in api_video_s_service_start_apply(g) :
       /\ api_camera_server_linphone_apply_on(g, err)
       /\ Does(g, "task", If(err # 0, Become(g, "server"))
                          \o <<<<"respond", "LINK", m.id, err # 0, cs[g] = "idle">>>>)

api_linphone_client_becalled(g, m) ==
  /\ m.role = "client"
  /\ api_video_client_linphone_apply_on(g)
  /\ Does(g, "task", Become(g, "client") \o <<<<"respond", "LINK", m.id, TRUE, FALSE>>>>)

(* Seeded fault: the process is taken for stopped.                         *)
beclosedOnly(g, m) ==
  /\ cs' = Put(cs, g, "idle") /\ type' = Put(type, g, type[g] \ {m.role})
  /\ Does(g, "task", <<<<"state", "idle">>, <<"respond", "QUIT", m.id, TRUE, FALSE>>>>)

(* api_linphone_server_beclosed and api_linphone_client_beclosed.          *)
beclosed(g, m) ==
  /\ cs' = Put(cs, g, "idle") /\ type' = Put(type, g, type[g] \ {m.role})
  /\ Does(g, "task", If(state[g] = m.role, <<<<"stop", m.role>>>>)
                     \o <<<<"state", "idle">>, <<"respond", "QUIT", m.id, TRUE, FALSE>>>>)

(* The answer is noted before it is known whose it is.                     *)
Answered(g, m) ==
  /\ msg' = Put(msg, g, IF m.ok THEN "ok" ELSE "refused")
  /\ LET u == todo[g]["user"]
     IN Does(g, "user", IF u # <<>> /\ Head(u) = <<"wait", m.of, m.id>> THEN Tail(u) ELSE u)

linphone_linker_udp_recv_anaylasis(g) ==
  /\ Free(g)
  /\ \E m \in net :
       /\ m.to = g /\ net' = net \ {m}
       /\ \/ /\ m.cmd = "LINK"
             /\ api_linphone_server_becalled(g, m) \/ api_linphone_client_becalled(g, m)
             /\ UNCHANGED msg
          \/ m.cmd = "QUIT" /\ beclosed(g, m) /\ UNCHANGED msg
          \/ m.cmd = "RSP" /\ Answered(g, m) /\ UNCHANGED <<cs, type>>
  /\ UNCHANGED <<state, sn, proc, uses, mishaps>>

(* A request or an answer is lost for good: who waits for it gives up.     *)
Lose == /\ mishaps < MaxMishaps /\ mishaps' = mishaps + 1
        /\ \E m \in net :
             LET g == IF m.cmd = "RSP" THEN m.to ELSE Peer(m.to)
                 u == todo[g]["user"]
             IN /\ net' = net \ {m}
                /\ u # <<>> /\ Head(u)[1] = "wait" /\ Head(u)[3] = m.id
                /\ msg' = Put(msg, g, "timeout") /\ Does(g, "user", Tail(u))
        /\ UNCHANGED <<state, sn, cs, type, proc, uses>>
-----------------------------------------------------------------------------
(* Where both threads are at work.                                         *)
Meets == {g \in Gateways : \A t \in {"user", "task"} : todo'[g][t] # <<>>}

Next == /\ \/ Use \/ Lose
           \/ \E g \in Gateways : \/ linphone_linker_udp_recv_anaylasis(g)
                                  \/ \E t \in {"user", "task"} : Step(g, t)
        /\ met' = met \cup Meets

Spec == Init /\ [][Next]_vars
-----------------------------------------------------------------------------
Quiet(g) == \A t \in {"user", "task"} : todo[g][t] = <<>>

(* Each use and each request sets the linker's state, the linphone that    *)
(* runs and the control that is registered one by one, more than a second  *)
(* apart, and asks the other gateway in between.  Whatever was refused or  *)
(* lost, once it is done the role the state names is one that runs and is  *)
(* registered - unless the two threads of the gateway overlapped: they     *)
(* share no lock.                                                          *)
StateIsTrue ==
  \A g \in Gateways \ met : Quiet(g) /\ state[g] # "idle" =>
    state[g] \in proc[g] /\ state[g] \in type[g]

(* Once all is quiet a camera's linphone that runs has a viewer at the     *)
(* other gateway that counts on it: no role change, refusal or stop leaves *)
(* it on for nobody - unless threads overlapped or a message was lost.     *)
CameraIsWatched ==
  (mishaps = 0 /\ met = {} /\ net = {} /\ \A g \in Gateways : Quiet(g)) =>
    \A g \in Gateways : "server" \in proc[g] => "client" \in type[Peer(g)]

Agree == StateIsTrue /\ CameraIsWatched

(* An idle camera lets a client in (linphone_linker.c:93-96).              *)
IdleGrants == \A m \in net : (m.cmd = "RSP" /\ m.idle) => m.ok
=============================================================================
