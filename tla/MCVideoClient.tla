---------------------------- MODULE MCVideoClient ----------------------------
(* The two ways a gateway gets a picture, one per part of the run: the      *)
(* multicast client, and linphone - the link between two gateways, and the  *)
(* process that shows the picture.  What is not of the part stands still.   *)
EXTENDS VideoClient, Linphone

VARIABLE part

(* Each gateway watches and is watched.                                     *)
AllUses == {"a", "b"} \X {"client", "server", "no client", "no server"}

MCInit == part \in {"multicast", "link", "process"} /\ Init /\ Link!Init /\ Process!Init

MCNext == /\ \/ part = "multicast" /\ Next /\ UNCHANGED <<link, process>>
             \/ part = "link" /\ Link!Next /\ UNCHANGED <<vars, process>>
             \/ part = "process" /\ Process!Next /\ UNCHANGED <<vars, link>>
          /\ UNCHANGED part

(* Nothing that is fair is enabled in a client that stands still.           *)
MCSpec == MCInit /\ [][MCNext]_<<part, vars, link, process>> /\ Fairness
==============================================================================
