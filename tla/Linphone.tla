------------------------------ MODULE Linphone ------------------------------
(* The linphone way to get a picture: the link between two gateways, and    *)
(* the process that each of them runs.  The link sees of the process that   *)
(* it runs; the process sees of the link that it is started and stopped.    *)
CONSTANTS Uses, MaxUses, LinkMishaps,            \* of the link
          QMax, MaxProcs, MaxCalls, ProcMishaps  \* of the process

VARIABLES
  linker, answer, number, roles, types, runs, todo, net, uses, lost, met,
  caller, again, fd, procs, proc, calls, queue, client_fd, accepted, trs, send_fd,
  got, refused, ended

link    == <<linker, answer, number, roles, types, runs, todo, net, uses, lost, met>>
process == <<caller, again, fd, procs, proc, calls, queue, client_fd, accepted, trs, send_fd,
             got, refused, ended>>

Link == INSTANCE LinphoneLink
          WITH MaxMishaps <- LinkMishaps, state <- linker, msg <- answer, sn <- number,
               cs <- roles, type <- types, proc <- runs, mishaps <- lost
Process == INSTANCE Linphonec WITH MaxMishaps <- ProcMishaps, user <- caller, mishaps <- ended

(* The role a linker's state names is one that runs and is registered; and  *)
(* a camera's linphone that runs has a viewer that counts on it.            *)
Agree == Link!Agree

(* A process gets its own commands only, and no send ends the program.      *)
OwnProcess == Process!OwnProcess

(* An idle camera lets a client in (linphone_linker.c:93-96).               *)
IdleGrants == Link!IdleGrants
=============================================================================
