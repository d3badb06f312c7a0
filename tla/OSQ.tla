-------------------------------- MODULE OSQ --------------------------------
(***************************************************************************)
(* os/OSQ.c: the byte ring buffer behind every task queue, with the        *)
(* wrapper push_vdp_common_queue of app/utility.c that the producers call. *)
(*                                                                         *)
(* The buffer is an array of 32-bit words (every queue is created with a   *)
(* multiple of four bytes in malloc'ed, hence aligned, memory).  A message *)
(* is one link word holding its length in bytes, then its data padded to   *)
(* words.  Messages are contiguous: one that does not fit behind the last  *)
(* goes to offset 0, and a link word of size 0 marks the unused tail.      *)
(* OS_Q_Put, OS_Q_GetPtr and OS_Q_Purge each run under Qmutex and are one  *)
(* step; OS_Q_GetPtrTimed returns pLink->Size after it has unlocked, so it *)
(* is two.  The consumer works on the message in place, without the lock.  *)
(***************************************************************************)
EXTENDS Integers, Sequences, FiniteSets

CONSTANTS Words,      \* OS_Q.Size in words
          Lens,       \* lengths in bytes that producers pass to push
          Tags,       \* what the data words of a message hold
          CharRange,  \* values of the unsigned char length parameter
          None

ASSUME WordsAssumption == Words \in Nat \ {0}
ASSUME LensAssumption  == Lens \subseteq Nat
ASSUME CharAssumption  == CharRange \in Nat \ {0}
ASSUME NoneAssumption  == None \notin Nat \cup [len : Nat, body : Seq(Nat \cup Tags)]

VARIABLES mem,        \* the buffer, words numbered from 0
          MsgCnt, offFirst, offLast, InUse,
          pLink,      \* link of the message the consumer got, or None
          size,       \* length it was told, or None before it has read it
          ret         \* last OS_Q_Put: the length, and whether it was stored

osqVars == <<mem, MsgCnt, offFirst, offLast, InUse, pLink, size, ret>>

DataWords(n)   == (n + 3) \div 4
StorageSize(n) == 1 + DataWords(n)
EndOf(off)     == off + StorageSize(mem[off])

OsqTypeOK == /\ mem \in [0 .. Words - 1 -> Nat \cup Tags]
             /\ MsgCnt \in 0 .. Words
             /\ offFirst \in 0 .. Words - 1
             /\ offLast \in 0 .. Words - 1
             /\ MsgCnt > 0 => mem[offFirst] \in Nat /\ EndOf(offLast) <= Words
             /\ InUse \in BOOLEAN
             /\ pLink \in 0 .. Words - 1 \cup {None}
             /\ size \in Nat \cup {None}
             /\ ret \in [len : Nat, ok : BOOLEAN]

OsqInit == /\ mem = [w \in 0 .. Words - 1 |-> 0]
           /\ MsgCnt = 0 /\ offFirst = 0 /\ offLast = 0
           /\ InUse = FALSE
           /\ pLink = None /\ size = None
           /\ ret = [len |-> 0, ok |-> TRUE]
-----------------------------------------------------------------------------
(* The message occupies its link and data words from off on.  For a buffer *)
(* that wrapped, m is the buffer with the end mark already in it.          *)
Store(m, off, n, tag) ==
    /\ mem' = [w \in DOMAIN m |->
                 IF w = off THEN n
                 ELSE IF w \in off + 1 .. off + DataWords(n) THEN tag
                 ELSE m[w]]
    /\ offLast' = off
    /\ MsgCnt' = MsgCnt + 1
    /\ ret' = [len |-> n, ok |-> TRUE]

NoSpace(n) == /\ ret' = [len |-> n, ok |-> FALSE]
              /\ UNCHANGED <<mem, MsgCnt, offLast>>

PutEmpty(n, tag) ==
    /\ MsgCnt = 0
    /\ offFirst' = 0
    /\ IF StorageSize(n) <= Words THEN Store(mem, 0, n, tag) ELSE NoSpace(n)

(* Not wrapped, and room behind the last message.                          *)
PutBehind(n, tag) ==
    /\ MsgCnt > 0
    /\ offFirst < EndOf(offLast)
    /\ Words - EndOf(offLast) >= StorageSize(n)
    /\ Store(mem, EndOf(offLast), n, tag)
    /\ UNCHANGED offFirst

(* Seeded fault: refuses instead of going back to the start.               *)
PutWrapNever(n, tag) ==
    /\ MsgCnt > 0
    /\ offFirst < EndOf(offLast)
    /\ Words - EndOf(offLast) < StorageSize(n)
    /\ NoSpace(n)
    /\ UNCHANGED offFirst

(* Not wrapped, no room behind the last message: go to the start, if the   *)
(* messages already consumed left room there.                              *)
PutWrap(n, tag) ==
    LET end    == EndOf(offLast)
        marked == IF Words - end > 1 THEN [mem EXCEPT ![end] = 0] ELSE mem
    IN  /\ MsgCnt > 0
        /\ offFirst < end
        /\ Words - end < StorageSize(n)
        /\ IF offFirst < StorageSize(n) THEN NoSpace(n) ELSE Store(marked, 0, n, tag)
        /\ UNCHANGED offFirst

(* Wrapped: only the gap up to the first message is free.                  *)
PutGap(n, tag) ==
    /\ MsgCnt > 0
    /\ offFirst >= EndOf(offLast)
    /\ IF offFirst - EndOf(offLast) < StorageSize(n)
       THEN NoSpace(n)
       ELSE Store(mem, EndOf(offLast), n, tag)
    /\ UNCHANGED offFirst

OS_Q_Put(n, tag) ==
    /\ \/ PutEmpty(n, tag) \/ PutBehind(n, tag)
       \/ PutWrap(n, tag)  \/ PutGap(n, tag)
    /\ UNCHANGED <<InUse, pLink, size>>

(* The length parameter is an unsigned char.                               *)
push_vdp_common_queue(n, tag) == OS_Q_Put(n % CharRange, tag)
-----------------------------------------------------------------------------
(* Seeded fault: a message no longer than its link counts as a timeout.    *)
UseLong(off, n) == IF n > 4 THEN pLink' = off /\ size' = n
                   ELSE pLink' = None /\ size' = None

(* The consumer loops drop a message of length 0 on the floor: they take   *)
(* it for a timeout and do not purge it.                                   *)
Use(off, n) == IF n > 0 THEN pLink' = off /\ size' = n
               ELSE pLink' = None /\ size' = None

OS_Q_GetPtr ==
    /\ pLink = None /\ MsgCnt > 0
    /\ InUse' = TRUE
    /\ Use(offFirst, mem[offFirst])
    /\ UNCHANGED <<mem, MsgCnt, offFirst, offLast, ret>>

OS_Q_GetPtrTimed ==
    /\ pLink = None /\ MsgCnt > 0
    /\ InUse' = TRUE
    /\ pLink' = offFirst
    /\ UNCHANGED <<mem, MsgCnt, offFirst, offLast, size, ret>>

GetPtrTimedReturn ==
    /\ pLink # None /\ size = None
    /\ Use(pLink, mem[pLink])
    /\ UNCHANGED <<mem, MsgCnt, offFirst, offLast, InUse, ret>>

(* Where the message after the one at off starts, if more than that one    *)
(* is queued.                                                              *)
Following(off, more) ==
    LET end == EndOf(off)
    IN  IF Words - end <= 1 \/ (more /\ mem[end] = 0) THEN 0 ELSE end

(* Seeded fault: walks into the end mark as if it were a message.          *)
OS_Q_PurgeUnmarked ==
    /\ size # None
    /\ MsgCnt' = MsgCnt - 1
    /\ offFirst' = IF Words - EndOf(offFirst) <= 1 THEN 0 ELSE EndOf(offFirst)
    /\ InUse' = FALSE
    /\ pLink' = None /\ size' = None
    /\ UNCHANGED <<mem, offLast, ret>>

OS_Q_Purge ==
    /\ size # None
    /\ MsgCnt' = MsgCnt - 1
    /\ offFirst' = Following(offFirst, MsgCnt' # 0)
    /\ InUse' = FALSE
    /\ pLink' = None /\ size' = None
    /\ UNCHANGED <<mem, offLast, ret>>

Consume == OS_Q_GetPtr \/ OS_Q_GetPtrTimed \/ GetPtrTimedReturn \/ OS_Q_Purge

OsqNext == \/ \E n \in Lens, tag \in Tags : push_vdp_common_queue(n, tag)
           \/ OS_Q_GetPtr \/ OS_Q_GetPtrTimed \/ GetPtrTimedReturn
           \/ OS_Q_Purge

(* The consumer task never leaves its loop; nothing obliges producers.     *)
OsqSpec == OsqInit /\ [][OsqNext]_osqVars /\ WF_osqVars(Consume)
-----------------------------------------------------------------------------
(* Refinement mapping: walk the links from offFirst as OS_Q_Purge does.    *)
Offset == LET f[i \in 1 .. MsgCnt] ==
                IF i = 1 THEN offFirst ELSE Following(f[i - 1], TRUE)
          IN  f

MessageAt(off) == [len  |-> mem[off],
                   body |-> [k \in 1 .. DataWords(mem[off]) |-> mem[off + k]]]

Contents == [i \in 1 .. MsgCnt |-> MessageAt(Offset[i])]

Message(n, tag) == [len |-> n, body |-> [k \in 1 .. DataWords(n) |-> tag]]

Fifo == INSTANCE FifoQueue
          WITH Messages <- {Message(n, tag) : n \in Lens, tag \in Tags},
               queue    <- Contents,
               held     <- IF size = None THEN None ELSE MessageAt(pLink)

(* The ring buffer is a FIFO queue: no message is lost, repeated, torn or  *)
(* overtaken by the wrap at the end of the buffer, and the message the     *)
(* consumer is working on in place is never overwritten by a producer.     *)
(* And the links stay inside the buffer.                                   *)
FifoRefinement == []OsqTypeOK /\ Fifo!SafeSpec

(* Every stored message is delivered, and every one delivered discarded.   *)
FifoDelivers == Fifo!Delivery

Free == {w \in 0 .. Words - 1 :
           \A i \in 1 .. MsgCnt : w \notin Offset[i] .. EndOf(Offset[i]) - 1}

(* OS_Q_Put turns a message away only when the buffer is nearly full.  The *)
(* wrap may split the free words into two pieces; one is too small for the *)
(* message, the other too small for it or, if it was left behind by a wrap *)
(* before, for one in the queue.  An empty queue takes all that fits.      *)
RefusesOnlyWhenTight ==
    [][ret' # ret /\ ~ret'.ok =>
         LET need == StorageSize(ret'.len)
         IN  IF MsgCnt = 0 THEN need > Words
             ELSE \E other \in {need} \cup {StorageSize(mem[Offset[i]]) : i \in 1 .. MsgCnt} :
                    Cardinality(Free) < need + other]_osqVars
=============================================================================
