----------------------------- MODULE FifoQueue -----------------------------
(***************************************************************************)
(* What a task queue of the gateway promises its users, with no word about *)
(* how it stores anything: the messages that were accepted come out whole, *)
(* once each and in the order they went in, and the one consumer holds the *)
(* oldest message for as long as it likes before it discards it.           *)
(* OSQ.tla shows that the ring buffer of os/OSQ.c keeps this promise.      *)
(***************************************************************************)
EXTENDS Sequences

CONSTANTS Messages,   \* everything a producer may put
          None        \* the consumer holds nothing

VARIABLES queue,      \* the accepted messages, oldest first
          held        \* the message in the consumer's hands, or None

fifoVars == <<queue, held>>

FifoInit == queue = <<>> /\ held = None

Accept(m) == queue' = Append(queue, m) /\ UNCHANGED held

Deliver == /\ held = None
           /\ queue # <<>>
           /\ held' = Head(queue)
           /\ UNCHANGED queue

Discard == /\ held # None
           /\ queue' = Tail(queue)
           /\ held' = None

FifoNext == \/ \E m \in Messages : Accept(m)
            \/ Deliver
            \/ Discard

SafeSpec == FifoInit /\ [][FifoNext]_fifoVars

(* The consumer never stops: what is accepted is delivered and discarded.  *)
Delivery == WF_fifoVars(Deliver) /\ WF_fifoVars(Discard)

Spec == SafeSpec /\ Delivery
=============================================================================
