----------------------------- MODULE MCGateway ------------------------------
(***************************************************************************)
(* A unit's commands from one gateway to the other, and the serial line    *)
(* they come by - one per part of the run.                                 *)
(***************************************************************************)
EXTENDS Gateway, SerialLine

VARIABLE part

all == <<part, vars, lineVars>>

MCInit == part \in {"commands", "line"} /\ Init /\ LineInit

MCNext == /\ \/ part = "commands" /\ Next /\ UNCHANGED lineVars
             \/ part = "line" /\ LineNext /\ UNCHANGED vars
          /\ UNCHANGED part

(* Gateway's fairness asks nothing of commands that stand still; the line   *)
(* has its own here.                                                        *)
InLine(step) == part = "line" /\ step /\ UNCHANGED <<part, vars>>

MCSpec == /\ MCInit /\ [][MCNext]_all /\ Fairness
          /\ WF_all(InLine(vdp_uart_sending_queue_task))
          /\ WF_all(InLine(ThreadStep)) /\ WF_all(InLine(Joined))
          /\ SF_all(InLine(Write /\ done' = Pieces))
=============================================================================
