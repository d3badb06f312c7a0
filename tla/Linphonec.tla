----------------------------- MODULE Linphonec ------------------------------
(***************************************************************************)
(* The program's side of a linphonec process (linphone_interface.c,        *)
(* unix_socket.c, onoff_local_linphone_server and _client): popen starts   *)
(* it, it connects to a local socket, commands go to it through a queue    *)
(* and a sending thread, and pclose waits for its end.  A receiving thread *)
(* accepts one connection at a time.  Two threads share the descriptor of  *)
(* the connection; a send on one whose process has ended raises SIGPIPE,   *)
(* which nothing here ignores.                                             *)
(***************************************************************************)
EXTENDS Naturals, Sequences, SequencesExt

CONSTANTS QMax,      \* INTERACTIVE_BUFFER_NUM, 10
          MaxProcs,  \* bound on the processes started
          MaxCalls,  \* bound on the calls asked of each
          MaxMishaps \* bound on processes that end by themselves

VARIABLES
  user,      \* "idle", "settles", "terminates", "quits", "pclose", "killed"
  again,     \* it closes one process to start the next
  fd,        \* linphone_server_fd or linphone_client_fd: a process, 0 is none
  procs,     \* how many were started
  proc,      \* "none", "starting", "up", "ended", for each
  calls,     \* calls asked of the one that runs
  queue,     \* sendqueue: [cmd, for]
  client_fd, \* the process whose connection was accepted, 0 is none
  accepted,  \* those accepted so far
  trs,       \* the sending thread: "off", "looks", "sends", "waits"
  send_fd,   \* the connection it is about to use
  got,       \* ghost: what each process was sent
  refused,   \* ghost: a command found the queue full
  mishaps

userVars   == <<user, again, fd, calls>>
socketVars == <<client_fd, accepted, trs, send_fd>>
procVars   == <<procs, proc, got>>
vars       == <<userVars, procVars, socketVars, queue, refused, mishaps>>

Procs    == 1 .. MaxProcs
Commands == {"call", "terminate", "quit"}
crashed  == mishaps > 0

Init == /\ user = "idle" /\ again = FALSE /\ fd = 0 /\ calls = 0
        /\ procs = 0 /\ proc = [p \in Procs |-> "none"] /\ got = [p \in Procs |-> <<>>]
        /\ client_fd = 0 /\ accepted = {} /\ trs = "off" /\ send_fd = 0
        /\ queue = <<>> /\ refused = FALSE /\ mishaps = 0
-----------------------------------------------------------------------------
(* A full queue refuses; no caller looks.                                  *)
push_Interactive_Buffer(cmd) ==
  IF Len(queue) < QMax
  THEN queue' = Append(queue, [cmd |-> cmd, for |-> fd]) /\ UNCHANGED refused
  ELSE refused' = TRUE /\ UNCHANGED queue

popen == /\ procs < MaxProcs
         /\ procs' = procs + 1 /\ fd' = procs + 1 /\ calls' = 0
         /\ proc' = [proc EXCEPT ![procs + 1] = "starting"]
         /\ user' = "settles" /\ again' = FALSE
         /\ UNCHANGED got

(* onoff_local_linphone_server(1) and _client(1): one that runs is closed. *)
TurnOn == /\ user = "idle"
          /\ IF fd = 0 THEN popen
                       ELSE /\ procs < MaxProcs
                            /\ user' = "terminates" /\ again' = TRUE
                            /\ UNCHANGED <<fd, calls, procVars>>
          /\ UNCHANGED <<socketVars, queue, refused, mishaps>>

(* Seeded fault: they do not wait after popen.                             *)
SettlesAtOnce == /\ user = "settles" /\ user' = "idle"
                 /\ UNCHANGED <<again, fd, calls, procVars, socketVars, queue, refused, mishaps>>

(* They return more than a second after popen, by when the receiving       *)
(* thread has noticed that the last connection was closed.                 *)
Settles == /\ user = "settles" /\ user' = "idle"
           /\ client_fd # 0 => proc[client_fd] # "ended"
           /\ UNCHANGED <<again, fd, calls, procVars, socketVars, queue, refused, mishaps>>

API_linphonec_Invite == /\ user = "idle" /\ fd # 0
                        /\ calls < MaxCalls /\ calls' = calls + 1
                        /\ push_Interactive_Buffer("call")
                        /\ UNCHANGED <<user, again, fd, procVars, socketVars, mishaps>>

TurnOff == /\ user = "idle" /\ fd # 0
           /\ user' = "terminates" /\ again' = FALSE
           /\ UNCHANGED <<fd, calls, procVars, socketVars, queue, refused, mishaps>>

API_linphonec_Close == /\ user = "terminates" /\ user' = "quits"
                       /\ push_Interactive_Buffer("terminate")
                       /\ UNCHANGED <<again, fd, calls, procVars, socketVars, mishaps>>

API_linphonec_quit == /\ user = "quits" /\ user' = "pclose"
                      /\ push_Interactive_Buffer("quit")
                      /\ UNCHANGED <<again, fd, calls, procVars, socketVars, mishaps>>

pclose == /\ user = "pclose" /\ proc[fd] = "ended"
          /\ IF again THEN popen
                      ELSE user' = "idle" /\ fd' = 0 /\ UNCHANGED <<again, calls, procVars>>
          /\ UNCHANGED <<socketVars, queue, refused, mishaps>>
-----------------------------------------------------------------------------
(* The process.                                                            *)
Connects(p) == /\ proc[p] = "starting" /\ proc' = [proc EXCEPT ![p] = "up"]
               /\ UNCHANGED <<userVars, procs, got, socketVars, queue, refused, mishaps>>

Crashes(p) == /\ proc[p] = "up" /\ proc' = [proc EXCEPT ![p] = "ended"]
              /\ mishaps < MaxMishaps /\ mishaps' = mishaps + 1
              /\ UNCHANGED <<userVars, procs, got, socketVars, queue, refused>>

(* The receiving thread.  The first connection starts the sending one.     *)
Accepts == /\ user # "killed" /\ client_fd = 0
           /\ \E p \in Procs \ accepted :
                /\ proc[p] = "up"
                /\ client_fd' = p /\ accepted' = accepted \cup {p}
           /\ trs' = IF trs = "off" THEN "looks" ELSE trs
           /\ UNCHANGED <<userVars, procVars, send_fd, queue, refused, mishaps>>

Disconnected == /\ user # "killed" /\ client_fd # 0 /\ proc[client_fd] = "ended"
                /\ client_fd' = 0
                /\ UNCHANGED <<userVars, procVars, accepted, trs, send_fd, queue, refused, mishaps>>

(* The sending thread takes the descriptor, and lets go of the lock before *)
(* it uses it.  Without a connection it looks again every five seconds.    *)
Looks == /\ trs = "looks"
         /\ IF queue = <<>> \/ client_fd = 0
            THEN trs' = "waits" /\ UNCHANGED send_fd
            ELSE trs' = "sends" /\ send_fd' = client_fd
         /\ UNCHANGED <<userVars, procVars, client_fd, accepted, queue, refused, mishaps>>

(* Seeded fault: the last command sent stays in the queue.                 *)
popLast == queue' = IF Len(queue) = 1 THEN queue ELSE Tail(queue)

pop_Interactive_Buffer == queue' = Tail(queue)

Sends == /\ trs = "sends" /\ proc[send_fd] = "up"
         /\ got' = [got EXCEPT ![send_fd] = Append(@, Head(queue))]
         /\ proc' = [proc EXCEPT ![send_fd] = IF Head(queue).cmd = "quit" THEN "ended" ELSE @]
         /\ pop_Interactive_Buffer
         /\ trs' = IF Len(queue) > 1 THEN "looks" ELSE "waits"
         /\ UNCHANGED <<userVars, procs, client_fd, accepted, send_fd, refused, mishaps>>

Killed == /\ trs = "sends" /\ proc[send_fd] = "ended"
          /\ user' = "killed" /\ trs' = "off"
          /\ UNCHANGED <<again, fd, calls, procVars, client_fd, accepted, send_fd, queue, refused, mishaps>>

Waits == /\ trs = "waits" /\ trs' = "looks"
         /\ UNCHANGED <<userVars, procVars, client_fd, accepted, send_fd, queue, refused, mishaps>>
-----------------------------------------------------------------------------
Caller  == Settles \/ API_linphonec_Close \/ API_linphonec_quit \/ pclose
Sender  == Looks \/ Sends \/ Killed \/ Waits
Next == \/ TurnOn \/ API_linphonec_Invite \/ TurnOff \/ Caller
        \/ (\E p \in Procs : Connects(p) \/ Crashes(p))
        \/ Accepts \/ Disconnected \/ Sender

Spec == Init /\ [][Next]_vars
-----------------------------------------------------------------------------
(* A command is only given to the process it was meant for, although one   *)
(* socket and one queue serve them all - unless a process ended by itself, *)
(* whose commands wait for the next.                                       *)
OwnCommands ==
  \A p \in Procs : \A i \in DOMAIN got[p] : got[p][i].for = p \/ crashed

(* As long as no process ends by itself, no send ends the program.         *)
NeverKilled == user = "killed" => crashed

OwnProcess == OwnCommands /\ NeverKilled
=============================================================================
