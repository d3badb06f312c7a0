---------------------------- MODULE MCTransport ----------------------------
(***************************************************************************)
(* What carries a message to a task, one per part of the run: the ring     *)
(* buffer of its queue, and the slots of the acknowledged UDP transport.   *)
(* What is not of the part stands still.                                   *)
(*                                                                         *)
(* Eleven words keep every way a message can meet the end of the buffer:   *)
(* lengths of 1, 2 and 3 data words leave a tail of no word, of one word   *)
(* (too small for an end mark) and of more (marked), and there is room for *)
(* messages on both sides of a wrap.                                       *)
(***************************************************************************)
EXTENDS OSQ, UdpStack

SmallLens == {4, 7, 12}

VARIABLE part

MCInit == part \in {"queue", "stack"} /\ OsqInit /\ Init

MCNext == /\ \/ part = "queue" /\ OsqNext /\ UNCHANGED vars
             \/ part = "stack" /\ Next /\ UNCHANGED osqVars
          /\ UNCHANGED part

(* Nothing that is fair is enabled in a part that stands still.            *)
MCSpec == /\ MCInit /\ [][MCNext]_<<part, osqVars, vars>>
          /\ WF_osqVars(Consume) /\ Fairness
=============================================================================
