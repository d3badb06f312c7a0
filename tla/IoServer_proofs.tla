--------------------------- MODULE IoServer_proofs ---------------------------
(***************************************************************************)
(* What the parameter server promises, for any number of parameters,       *)
(* values, requests, operations and crashes.  The invariant has four       *)
(* parts:                                                                  *)
(*                                                                         *)
(*   TypeOK   types and the queue's length;                                *)
(*   AtWork   what thread io works on at each of its steps: a write that   *)
(*            is about to be answered is in the table, and outside the     *)
(*            start-up a save stands at the head of the queue;             *)
(*   Saved    what the file and the disk hold at each step of io;          *)
(*   Served   while nothing disturbed the calls, one is going at a time:   *)
(*            its request is the only one in the queue or its answer the   *)
(*            only one, and what it has read or written so far is in the   *)
(*            table.                                                       *)
(***************************************************************************)
EXTENDS IoServer, SequenceTheorems, TLAPS

(* Parts of TypeOK, by whom they belong to.                                *)
QueueTyped == requests \in Seq(Requests) /\ Len(requests) <= QMax /\ answers \in Seq(Answers)
TableTyped == table \in UNION {[1 .. k -> Vals] : k \in 0 .. Params}
FileTyped  == file \in Contents /\ disk \subseteq Contents /\ file \in disk
Callings   == [op : {"none", "load", "adjust"}, at : {"none", "call", "wait"},
               p : 1 .. Params, ok : BOOLEAN, want : Image, got : Image, ticket : Nat]
CallerTyped == caller \in [Callers -> Callings] /\ image \in Image /\ calls \in Nat
IoTyped    == /\ io \in {"load", "copy", "reload", "idle", "arm", "start", "save", "open",
                         "write", "clear", "disarm", "stop", "sync"}
              /\ {booting, corrected, mustSave} \subseteq BOOLEAN
RestTyped  == disturbed \in BOOLEAN /\ orphan \in BOOLEAN /\ {ops, mishaps} \subseteq Nat

LEMMA TypeParts ==
  TypeOK <=> /\ TimerTypeOK /\ QueueTyped /\ TableTyped /\ FileTyped /\ CallerTyped /\ IoTyped
             /\ RestTyped
BY DEF TypeOK, QueueTyped, TableTyped, FileTyped, Callings, CallerTyped, IoTyped, RestTyped

(* Where io is, and the message it works on.                               *)
AtWork ==
  /\ io \in {"load", "copy", "reload", "save"} => booting
  /\ io \in {"idle", "arm", "start"} => ~ booting
  /\ io \in {"arm", "start"} =>
       /\ requests # <<>> /\ Head(requests).type = "WRITE"
       /\ Found(Head(requests)) /\ table[Head(requests).p] = Head(requests).v
  /\ io \in {"open", "write", "clear", "disarm", "stop", "sync"} /\ ~ booting
       => requests # <<>> /\ Head(requests).type = "SAVE"
-----------------------------------------------------------------------------
(* Constants and the values that are never written.                        *)
LEMMA Constant ==
  /\ Params \in Nat \ {0} /\ Top \in Nat /\ QMax \in Nat \ {0} /\ Interval \in Nat \ {0}
  /\ Torn \notin Nat /\ 0 \in Vals /\ 1 \in 1 .. Params
BY IoAssumption DEF Vals

LEMMA DefaultTyped ==
  /\ Default \in Image /\ Default \in [1 .. Params -> Vals] /\ Default # <<>>
  /\ Params \in 0 .. Params
<1>1. Default \in [1 .. Params -> Vals] /\ Params \in 0 .. Params
  BY Constant DEF Default
<1>2. DOMAIN Default = 1 .. Params /\ 1 \in 1 .. Params
  BY Constant DEF Default
<1>3. DOMAIN <<>> = 1 .. 0
  OBVIOUS
<1>4. 1 \notin 1 .. 0
  OBVIOUS
<1> QED
  BY <1>1, <1>2, <1>3, <1>4 DEF Image

(* A table is a sequence of values, of at most Params.                     *)
LEMMA TableIsSeq ==
  ASSUME NEW S, NEW t \in UNION {[1 .. k -> S] : k \in 0 .. Params}
  PROVE  t \in Seq(S) /\ Len(t) \in 0 .. Params /\ t \in [1 .. Len(t) -> S]
<1>1. PICK k \in 0 .. Params : t \in [1 .. k -> S]
  OBVIOUS
<1>2. k \in Nat
  BY Constant
<1>3. t \in Seq(S)
  BY <1>1, <1>2, SeqDef
<1>4. Len(t) = k
  BY <1>1, <1>2, <1>3, LenProperties
<1> QED
  BY <1>1, <1>3, <1>4

LEMMA SeqIsTable ==
  ASSUME NEW S, NEW t \in Seq(S), Len(t) <= Params
  PROVE  t \in UNION {[1 .. k -> S] : k \in 0 .. Params}
<1>1. Len(t) \in 0 .. Params /\ t \in [1 .. Len(t) -> S]
  BY LenProperties, Constant
<1> QED
  BY <1>1

(* What a power failure may leave of a table that is being written.        *)
LEMMA PrefixesTyped ==
  ASSUME NEW t \in UNION {[1 .. k -> Vals] : k \in 0 .. Params}
  PROVE  t \in Contents /\ Prefixes(t) \subseteq Contents
<1> DEFINE S == Vals \cup {Torn}
<1>1. t \in Seq(S) /\ Len(t) \in 0 .. Params
  <2>1. t \in Seq(Vals) /\ Len(t) \in 0 .. Params
    BY TableIsSeq
  <2> QED
    BY <2>1, SeqMonotonic
<1>2. \A s \in Seq(S) : Len(s) <= Params => s \in Contents
  BY SeqIsTable DEF Contents
<1>3. ASSUME NEW k \in 0 .. Len(t)
      PROVE  SubSeq(t, 1, k) \in Seq(S) /\ Len(SubSeq(t, 1, k)) = k
  <2>1. \A i \in 1 .. k : t[i] \in S
    BY <1>1, ElementOfSeq
  <2>2. k \in Int /\ 1 \in Int
    BY <1>1, Constant
  <2>3. /\ SubSeq(t, 1, k) \in Seq(S)
        /\ Len(SubSeq(t, 1, k)) = IF 1 <= k THEN k - 1 + 1 ELSE 0
    BY <2>1, <2>2, SubSeqProperties
  <2> QED
    BY <2>3, <1>1, Constant
<1>4. ASSUME NEW k \in 0 .. Len(t) - 1
      PROVE  /\ Append(SubSeq(t, 1, k), Torn) \in Seq(S)
             /\ Len(Append(SubSeq(t, 1, k), Torn)) = k + 1
  <2>1. k \in 0 .. Len(t) /\ Torn \in S
    BY <1>1, Constant
  <2> HIDE DEF S
  <2> QED
    BY <1>3, <2>1, AppendProperties
<1>5. \A k \in 0 .. Len(t) : SubSeq(t, 1, k) \in Contents
  <2> TAKE k \in 0 .. Len(t)
  <2>1. k <= Params
    BY <1>1, Constant
  <2> QED
    BY <1>2, <1>3, <2>1
<1>6. \A k \in 0 .. Len(t) - 1 : Append(SubSeq(t, 1, k), Torn) \in Contents
  <2> TAKE k \in 0 .. Len(t) - 1
  <2>1. k + 1 <= Params
    BY <1>1, Constant
  <2> QED
    BY <1>2, <1>4, <2>1
<1>7. t \in Contents
  BY <1>1, <1>2, Constant
<1> QED
  BY <1>5, <1>6, <1>7 DEF Prefixes

LEMMA ParsedTyped ==
  ASSUME NEW c \in Contents, Loadable(c)
  PROVE  /\ Parsed(c) \in UNION {[1 .. k -> Vals] : k \in 0 .. Params}
         /\ Parsed(c) # <<>> /\ DOMAIN Parsed(c) = DOMAIN c
<1>1. PICK k \in 0 .. Params : c \in [1 .. k -> Vals \cup {Torn}]
  BY DEF Contents, Loadable
<1>2. Parsed(c) \in [1 .. k -> Vals] /\ DOMAIN Parsed(c) = DOMAIN c /\ DOMAIN c = 1 .. k
  BY <1>1, Constant DEF Parsed
<1>3. k # 0
  <2>1. ASSUME k = 0 PROVE FALSE
    <3>1. c \in Seq(Vals \cup {Torn}) /\ Len(c) = 0
      BY <1>1, <2>1, TableIsSeq, SeqDef, LenProperties
    <3> QED
      BY <3>1, EmptySeq DEF Loadable, Faulty
  <2> QED
    BY <2>1
<1>4. 1 \in DOMAIN Parsed(c) /\ DOMAIN <<>> = 1 .. 0 /\ 1 \notin 1 .. 0
  BY <1>2, <1>3
<1> QED
  BY <1>2, <1>4

(* A table without a torn record reads as what it is.                      *)
LEMMA ParsedTable ==
  ASSUME NEW t \in UNION {[1 .. k -> Vals] : k \in 0 .. Params}, t # <<>>
  PROVE  Loadable(t) /\ Parsed(t) = t
<1>1. PICK k \in 0 .. Params : t \in [1 .. k -> Vals]
  OBVIOUS
<1>2. \A i \in 1 .. k : t[i] # Torn
  BY <1>1, Constant DEF Vals
<1>3. Parsed(t) = t
  BY <1>1, <1>2 DEF Parsed
<1>4. t # Absent
  <2>1. t \in Seq(Vals)
    BY TableIsSeq
  <2>2. Vals \subseteq Nat \cup {Torn}
    BY Constant DEF Vals
  <2>3. t \in Seq(Nat \cup {Torn})
    BY <2>1, <2>2, SeqMonotonic
  <2> QED
    BY <2>3, IoAssumption
<1> QED
  BY <1>3, <1>4 DEF Loadable, Faulty
-----------------------------------------------------------------------------
(* Types.                                                                  *)
LEMMA MessageTyped ==
  ASSUME TypeOK, requests # <<>>
  PROVE  /\ Msg \in Requests /\ Tail(requests) \in Seq(Requests)
         /\ Len(Tail(requests)) <= QMax
         /\ Msg.type # "SAVE" =>
              /\ Msg.type \in {"READ", "WRITE"} /\ Msg.p \in 1 .. Params /\ Msg.v \in Vals
              /\ Msg.ticket \in Nat
<1>1. requests \in Seq(Requests) /\ Len(requests) <= QMax
  BY DEF TypeOK
<1>2. /\ Head(requests) \in Requests /\ Tail(requests) \in Seq(Requests)
      /\ Len(Tail(requests)) = Len(requests) - 1
  BY <1>1, HeadTailProperties
<1>3. Len(requests) \in Nat
  BY <1>1, LenProperties
<1>4. Len(Tail(requests)) <= QMax
  BY <1>1, <1>2, <1>3, Constant
<1> QED
  BY <1>2, <1>4 DEF Msg, Requests

LEMMA PushTyped ==
  ASSUME TypeOK, NEW m \in Requests, Push(m)
  PROVE  requests' \in Seq(Requests) /\ Len(requests') <= QMax
<1>1. requests \in Seq(Requests) /\ Len(requests) <= QMax /\ Len(requests) \in Nat
  BY LenProperties DEF TypeOK
<1>2. Append(requests, m) \in Seq(Requests) /\ Len(Append(requests, m)) = Len(requests) + 1
  BY <1>1, AppendProperties
<1> QED
  BY <1>1, <1>2, Constant DEF Push

Timers == [1 .. TimerCnt -> [state : BOOLEAN, counter : Nat, interval : Nat \ {0},
                             locked : BOOLEAN]]

LEMMA TimerTyped ==
  ASSUME TimerTypeOK, NEW i \in 1 .. TimerCnt
  PROVE  /\ start_a_timer(i) \/ stop_a_timer(i) \/ Lock(i) \/ Unlock(i) => timer' \in Timers
         /\ \A at : TickGoes(at, i) \/ TickGoes(at, i + 1)
               => tick'.i \in 1 .. TimerCnt /\ tick'.seen \in Nat
<1>1. start_a_timer(i) \/ stop_a_timer(i) \/ Lock(i) \/ Unlock(i) => timer' \in Timers
  <2>1. CASE start_a_timer(i)
    BY <2>1 DEF TimerTypeOK, Timers, start_a_timer
  <2>2. CASE stop_a_timer(i)
    BY <2>2 DEF TimerTypeOK, Timers, stop_a_timer
  <2>3. CASE Lock(i)
    BY <2>3 DEF TimerTypeOK, Timers, Lock
  <2>4. CASE Unlock(i)
    BY <2>4 DEF TimerTypeOK, Timers, Unlock
  <2> QED
    BY <2>1, <2>2, <2>3, <2>4
<1>2. ASSUME NEW at, NEW j \in {i, i + 1}, TickGoes(at, j)
      PROVE  tick'.i \in 1 .. TimerCnt /\ tick'.seen \in Nat
  <2>1. CASE j > TimerCnt
    <3>1. tick' = [at |-> "scan", i |-> 1, seen |-> 0]
      BY <1>2, <2>1 DEF TickGoes, TickWaits, At
    <3> QED
      BY <3>1, TimerCntAssumption
  <2>2. CASE ~ (j > TimerCnt)
    <3>1. tick'.i = j /\ tick'.seen = 0
      BY <1>2, <2>2 DEF TickGoes, At
    <3> QED
      BY <3>1, <2>2, TimerCntAssumption
  <2> QED
    BY <2>1, <2>2
<1> QED
  BY <1>1, <1>2

LEMMA FirstTimer == SaveTimer \in 1 .. TimerCnt
BY TimerCntAssumption DEF SaveTimer

LEMMA AnswerTyped ==
  ASSUME TypeOK, requests # <<>>, Msg.type # "SAVE"
  PROVE  Answer(Msg) \in Answers
<1>1. /\ Msg.type \in {"READ", "WRITE"} /\ Msg.p \in 1 .. Params /\ Msg.v \in Vals
      /\ Msg.ticket \in Nat
  BY MessageTyped
<1>2. Found(Msg) => table[Msg.p] \in Vals
  <2>1. PICK k \in 0 .. Params : table \in [1 .. k -> Vals]
    BY DEF TypeOK
  <2> QED
    BY <2>1 DEF Found
<1> QED
  BY <1>1, <1>2, Constant DEF Answer, Answers

LEMMA ResponseTyped ==
  ASSUME TypeOK, requests # <<>>, Msg.type # "SAVE", ReadWritelocalResponse
  PROVE  QueueTyped'
<1>1. requests' = Tail(requests) /\ answers' = Append(answers, Answer(Msg))
  BY DEF ReadWritelocalResponse, Finish
<1>2. Append(answers, Answer(Msg)) \in Seq(Answers)
  BY AnswerTyped, AppendProperties DEF TypeOK
<1> QED
  BY <1>1, <1>2, MessageTyped DEF QueueTyped

LEMMA IoTypes ==
  ASSUME TypeOK, AtWork, IoStep
  PROVE  TypeOK'
<1>0. TimerTypeOK /\ QueueTyped /\ TableTyped /\ FileTyped /\ CallerTyped /\ IoTyped /\ RestTyped
  BY TypeParts
<1> USE <1>0 DEF timerVars, queueVars, userVars, bootVars, fileVars
<1>1. CallerTyped'
  <2>1. UNCHANGED userVars
    BY DEF IoStep, LoadTable, LoadFails, CopyDefault, Reload, InnerRead, InnerWrite, LockTimer,
       InnerWriteArms, InnerWriteFails, RenameOld, OpenNew, save_vtk_table_file_buffer, ClearFlag,
       StopSaveTimer, SaveEnds, IoGoes
  <2> QED
    BY <2>1 DEF CallerTyped
<1>2. RestTyped'
  <2>1. UNCHANGED <<disturbed, ops>> /\ orphan' \in {orphan, FALSE} /\ mishaps' \in {mishaps, mishaps + 1}
    BY DEF IoStep, LoadTable, LoadFails, CopyDefault, Reload, InnerRead, InnerWrite, LockTimer,
       InnerWriteArms, InnerWriteFails, RenameOld, OpenNew, save_vtk_table_file_buffer, ClearFlag,
       StopSaveTimer, SaveEnds, IoGoes, Mishap
  <2>2. ops \in Nat /\ mishaps \in Nat /\ disturbed \in BOOLEAN /\ orphan \in BOOLEAN
    BY DEF RestTyped
  <2>3. ops' \in Nat /\ mishaps' \in Nat /\ disturbed' \in BOOLEAN /\ orphan' \in BOOLEAN
    <3>1. ops' \in Nat /\ mishaps' \in Nat
      BY <2>1, <2>2
    <3>2. disturbed' \in BOOLEAN /\ orphan' \in BOOLEAN
      BY <2>1, <2>2, Zenon
    <3> QED
      BY <3>1, <3>2
  <2> QED
    BY <2>3 DEF RestTyped
<1>3. TimerTypeOK'
  <2>1. CASE LockTimer \/ InnerWriteArms \/ StopSaveTimer
    <3>1. UNCHANGED tick
      BY <2>1 DEF LockTimer, InnerWriteArms, StopSaveTimer
    <3>2. timer' \in Timers
      BY <2>1, TimerTyped, FirstTimer DEF LockTimer, InnerWriteArms, StopSaveTimer
    <3> QED
      BY <3>1, <3>2 DEF TimerTypeOK, Timers
  <2>2. CASE UNCHANGED timerVars
    BY <2>2 DEF TimerTypeOK
  <2> QED
    BY <2>1, <2>2 DEF IoStep, LoadTable, LoadFails, CopyDefault, Reload, InnerRead, InnerWrite,
       InnerWriteFails, RenameOld, OpenNew, save_vtk_table_file_buffer, ClearFlag, SaveEnds, IoGoes
<1>4. IoTyped'
  <2>1. io' \in {"load", "copy", "reload", "idle", "arm", "start", "save", "open", "write", "clear",
                 "disarm", "stop", "sync"}
    BY DEF IoStep, LoadTable, LoadFails, CopyDefault, Reload, InnerRead, InnerWrite, LockTimer,
       InnerWriteArms, InnerWriteFails, RenameOld, OpenNew, save_vtk_table_file_buffer, ClearFlag,
       StopSaveTimer, SaveEnds, IoGoes, ReadWritelocalResponse, Finish
  <2>2. mustSave' \in BOOLEAN
    BY DEF IoTyped, IoStep, LoadTable, LoadFails, CopyDefault, Reload, InnerRead, InnerWrite,
       LockTimer, InnerWriteArms, InnerWriteFails, RenameOld, OpenNew, save_vtk_table_file_buffer,
       ClearFlag, StopSaveTimer, SaveEnds
  <2>3. booting' \in BOOLEAN /\ corrected' \in BOOLEAN
    <3>1. CASE LoadTable
      BY <2>2, <3>1 DEF LoadTable, IoTyped
    <3>2. CASE SaveEnds \/ Reload
      BY <3>2 DEF SaveEnds, Reload, IoTyped
    <3>3. CASE UNCHANGED bootVars
      BY <3>3 DEF IoTyped
    <3> QED
      BY <3>1, <3>2, <3>3 DEF IoStep, LoadFails, CopyDefault, InnerRead, InnerWrite, LockTimer,
         InnerWriteArms, InnerWriteFails, RenameOld, OpenNew, save_vtk_table_file_buffer, ClearFlag,
         StopSaveTimer, IoGoes
  <2> QED
    BY <2>1, <2>2, <2>3 DEF IoTyped
<1>5. QueueTyped'
  <2>1. CASE InnerRead \/ InnerWriteArms \/ InnerWriteFails
    <3>1. requests # <<>> /\ Msg.type # "SAVE" /\ ReadWritelocalResponse
      BY <2>1 DEF InnerRead, LockTimer, InnerWriteArms, InnerWriteFails, AtWork, Msg
    <3> QED
      BY <3>1, ResponseTyped
  <2>2. CASE SaveEnds
    BY <2>2, MessageTyped DEF SaveEnds, AtWork, QueueTyped
  <2>3. CASE UNCHANGED queueVars
    BY <2>3 DEF QueueTyped
  <2> QED
    BY <2>1, <2>2, <2>3 DEF IoStep, LockTimer, LoadTable, LoadFails, CopyDefault, Reload,
       InnerWrite, RenameOld, OpenNew, save_vtk_table_file_buffer, ClearFlag, StopSaveTimer, IoGoes
<1>6. TableTyped'
  <2>1. CASE LoadTable
    BY <2>1, ParsedTyped DEF LoadTable, TableTyped, FileTyped
  <2>2. CASE Reload
    BY <2>2, DefaultTyped DEF Reload, TableTyped
  <2>3. CASE InnerWrite
    <3>1. Msg.v \in Vals /\ Msg.p \in DOMAIN table /\ table' = [table EXCEPT ![Msg.p] = Msg.v]
      BY <2>3, MessageTyped DEF InnerWrite, Found
    <3>2. PICK k \in 0 .. Params : table \in [1 .. k -> Vals]
      BY DEF TableTyped
    <3> QED
      BY <3>1, <3>2 DEF TableTyped
  <2>4. CASE UNCHANGED table
    BY <2>4 DEF TableTyped
  <2> QED
    BY <2>1, <2>2, <2>3, <2>4 DEF IoStep, LoadFails, CopyDefault, InnerRead, LockTimer,
       InnerWriteArms, InnerWriteFails, RenameOld, OpenNew, save_vtk_table_file_buffer, ClearFlag,
       StopSaveTimer, SaveEnds, IoGoes
<1>7. FileTyped'
  <2>1. CASE CopyDefault \/ save_vtk_table_file_buffer
    <3>1. \E t \in {Default, table} : Written(t)
      BY <2>1 DEF CopyDefault, save_vtk_table_file_buffer
    <3>2. \A t \in {Default, table} : t \in Contents /\ Prefixes(t) \subseteq Contents
      BY PrefixesTyped, DefaultTyped DEF TableTyped
    <3>3. \A t \in {Default, table} : t \in Prefixes(t)
      <4>1. ASSUME NEW t \in UNION {[1 .. k -> Vals] : k \in 0 .. Params} PROVE t \in Prefixes(t)
        <5>1. t \in Seq(Vals) /\ Len(t) \in 0 .. Len(t)
          BY TableIsSeq, LenProperties
        <5>2. SubSeq(t, 1, Len(t)) = t
          BY <5>1, SubSeqFull
        <5> QED
          BY <5>1, <5>2 DEF Prefixes
      <4> QED
        BY <4>1, DefaultTyped DEF TableTyped
    <3> QED
      BY <3>1, <3>2, <3>3 DEF Written, FileTyped
  <2>2. CASE RenameOld \/ OpenNew
    <3>1. {Absent, <<>>} \subseteq Contents
      <4>1. <<>> \in [1 .. 0 -> Vals \cup {Torn}] /\ 0 \in 0 .. Params
        BY Constant
      <4> QED
        BY <4>1 DEF Contents
    <3> QED
      BY <2>2, <3>1 DEF RenameOld, OpenNew, Becomes, FileTyped
  <2>3. CASE Reload \/ SaveEnds
    BY <2>3 DEF Reload, SaveEnds, Sync, FileTyped
  <2>4. CASE UNCHANGED fileVars
    BY <2>4 DEF FileTyped
  <2> QED
    BY <2>1, <2>2, <2>3, <2>4 DEF IoStep, LoadTable, LoadFails, InnerRead, InnerWrite,
       LockTimer, InnerWriteArms, InnerWriteFails, ClearFlag, StopSaveTimer
<1>8. (TimerTypeOK /\ QueueTyped /\ TableTyped /\ FileTyped /\ CallerTyped /\ IoTyped /\ RestTyped)'
  BY <1>1, <1>2, <1>3, <1>4, <1>5, <1>6, <1>7
<1> QED
  BY <1>8 DEF TypeOK, QueueTyped, TableTyped, FileTyped, Callings, CallerTyped, IoTyped, RestTyped

LEMMA TickTypes ==
  ASSUME TypeOK, TickStep
  PROVE  TypeOK'
<1>0. TimerTypeOK /\ QueueTyped /\ TableTyped /\ FileTyped /\ CallerTyped /\ IoTyped /\ RestTyped
  BY TypeParts
<1> USE <1>0 DEF timerVars, queueVars, userVars, bootVars, fileVars
<1>1. tick.i \in 1 .. TimerCnt
  BY DEF TimerTypeOK
<1>2. (TableTyped /\ FileTyped /\ CallerTyped /\ IoTyped)'
  <2>1. UNCHANGED <<userVars, io, bootVars, table, mustSave, fileVars>>
    BY DEF TickStep, Ticks, SaveIoDataTimerCallback, CallbackLocks, CallbackEnds
  <2> QED
    BY <2>1 DEF TableTyped, FileTyped, CallerTyped, IoTyped
<1>3. RestTyped'
  <2>1. UNCHANGED <<disturbed, ops, mishaps>> /\ (UNCHANGED orphan \/ orphan' = mustSave)
    BY DEF TickStep, Ticks, SaveIoDataTimerCallback, CallbackLocks, CallbackEnds
  <2>2. orphan \in BOOLEAN /\ mustSave \in BOOLEAN
    BY DEF RestTyped, IoTyped
  <2>3. orphan' \in BOOLEAN
    BY <2>1, <2>2, Zenon
  <2> QED
    BY <2>1, <2>3 DEF RestTyped
<1>4. QueueTyped'
  <2>1. UNCHANGED queueVars \/ (Push([type |-> "SAVE"]) /\ UNCHANGED answers)
    BY DEF TickStep, Ticks, SaveIoDataTimerCallback, CallbackLocks, CallbackEnds
  <2>2. [type |-> "SAVE"] \in Requests
    BY DEF Requests
  <2> QED
    BY <2>1, <2>2, PushTyped DEF QueueTyped
<1>5. TimerTypeOK'
  <2>1. CASE Look(tick.i)
    <3>1. timer' \in Timers
      BY <1>1, <2>1, TimerTyped DEF Look
    <3>2. tick'.i = tick.i /\ tick'.seen \in {0, timer[tick.i].counter}
      BY <2>1 DEF Look, At
    <3>3. timer[tick.i].counter \in Nat
      BY <1>1 DEF TimerTypeOK
    <3> QED
      BY <1>1, <3>1, <3>2, <3>3 DEF TimerTypeOK, Timers
  <2>2. CASE Count(tick.i)
    <3>1. tick.seen + 1 \in Nat
      BY DEF TimerTypeOK
    <3>2. timer' \in Timers
      BY <1>1, <2>2, <3>1 DEF TimerTypeOK, Timers, Count
    <3> QED
      BY <1>1, <2>2, <3>2, TimerTyped DEF TimerTypeOK, Timers, Count
  <2>3. CASE SaveIoDataTimerCallback \/ CallbackLocks \/ CallbackEnds
             \/ Expire(tick.i) \/ Unlocks(tick.i)
    <3>1. UNCHANGED timer \/ start_a_timer(tick.i) \/ stop_a_timer(tick.i) \/ Lock(tick.i)
            \/ Unlock(tick.i)
      BY <2>3 DEF SaveIoDataTimerCallback, CallbackLocks, CallbackEnds, Expire, Unlocks
    <3>2. \E at : TickGoes(at, tick.i) \/ TickGoes(at, tick.i + 1)
      BY <2>3 DEF SaveIoDataTimerCallback, CallbackLocks, CallbackEnds, Expire, Unlocks,
         CallbackReturns
    <3>3. timer' \in Timers
      BY <1>1, <3>1, TimerTyped DEF TimerTypeOK, Timers
    <3> QED
      BY <1>1, <3>2, <3>3, TimerTyped DEF TimerTypeOK, Timers
  <2> QED
    BY <2>1, <2>2, <2>3 DEF TickStep, Ticks, signal_func
<1>6. (TimerTypeOK /\ QueueTyped /\ TableTyped /\ FileTyped /\ CallerTyped /\ IoTyped /\ RestTyped)'
  BY <1>2, <1>3, <1>4, <1>5
<1> QED
  BY <1>6 DEF TypeOK, QueueTyped, TableTyped, FileTyped, Callings, CallerTyped, IoTyped, RestTyped

LEMMA Remainder == ASSUME NEW a \in Nat, NEW b \in Nat \ {0} PROVE a % b \in 0 .. b - 1
OBVIOUS

(* Both ways a value goes round at the ends of its range.                  *)
LEMMA SteppedTyped ==
  ASSUME NEW v \in Vals, NEW up \in BOOLEAN
  PROVE  Stepped(v, up) \in Vals
<1> DEFINE m == Top + 1
<1>1. v + 1 \in Nat /\ v + Top \in Nat /\ m \in Nat \ {0} /\ 0 .. m - 1 = Vals
  BY Constant DEF Vals
<1> HIDE DEF m
<1>2. ASSUME NEW a \in Nat PROVE a % m \in Vals
  <2>1. a % m \in 0 .. m - 1
    BY <1>1, Remainder
  <2> QED
    BY <1>1, <2>1
<1>3. (v + 1) % m \in Vals /\ (v + Top) % m \in Vals
  BY <1>1, <1>2
<1> QED
  BY <1>3 DEF Stepped, m

LEMMA IdleTyped ==
  Idle \in Callings /\ \A op \in {"load", "adjust"}, at \in {"none", "call", "wait"} :
      [Idle EXCEPT !.op = op, !.at = at] \in Callings
<1>1. Idle \in Callings
  BY DefaultTyped, Constant DEF Idle, Callings
<1> QED
  BY <1>1 DEF Callings

(* What a call that ends makes of its thread.                              *)
LEMMA GoesTyped ==
  ASSUME CallerTyped, NEW c \in Callers, NEW ok \in BOOLEAN, NEW v \in Vals, Goes(c, ok, v)
  PROVE  caller' \in [Callers -> Callings] /\ image' \in Image
<1> DEFINE k == caller[c]
           got == [k.got EXCEPT ![k.p] = v]
           good == k.ok /\ ok
<1>1. k \in Callings /\ k.p \in 1 .. Params /\ k.ok \in BOOLEAN
  BY DEF CallerTyped, Callings
<1>2. got \in Image
  BY <1>1 DEF Callings, Image
<1>3. good \in BOOLEAN
  BY <1>1
<1>4. CASE k.p < Params
  <2>1. k.p + 1 \in 1 .. Params
    BY <1>1, <1>4, Constant
  <2>2. [k EXCEPT !.at = "call", !.p = k.p + 1, !.ok = good, !.got = got] \in Callings
    <3> HIDE DEF k, got, good
    <3> QED
      BY <1>1, <1>2, <1>3, <2>1 DEF Callings
  <2>3. /\ caller' = [caller EXCEPT ![c] =
                        [k EXCEPT !.at = "call", !.p = k.p + 1, !.ok = good, !.got = got]]
        /\ UNCHANGED image
    BY <1>4 DEF Goes
  <2> HIDE DEF k, got, good
  <2> QED
    BY <2>2, <2>3 DEF CallerTyped
<1>5. CASE ~ (k.p < Params)
  <2>1. caller' = [caller EXCEPT ![c] = Idle] /\ image' \in {got, Default, image}
    BY <1>5 DEF Goes
  <2> HIDE DEF k, got, good
  <2> QED
    BY <1>2, <2>1, IdleTyped, DefaultTyped DEF CallerTyped
<1> QED
  BY <1>4, <1>5

LEMMA CallerTypes ==
  ASSUME TypeOK, CallerStep
  PROVE  TypeOK'
<1>0. TimerTypeOK /\ QueueTyped /\ TableTyped /\ FileTyped /\ CallerTyped /\ IoTyped /\ RestTyped
  BY TypeParts
<1> USE <1>0 DEF timerVars, queueVars, userVars, bootVars, fileVars, UserUnchanged
<1>1. (TimerTypeOK /\ TableTyped /\ FileTyped /\ IoTyped)'
  <2>1. UNCHANGED <<timerVars, io, bootVars, table, mustSave, fileVars>>
    BY DEF CallerStep, API_LoadImagePara, ScreenAdjust, Call, TakeAnswer, WaitTimesOut
  <2> QED
    BY <2>1 DEF TimerTypeOK, TableTyped, FileTyped, IoTyped
<1>2. RestTyped'
  <2>1. UNCHANGED orphan /\ ops' \in {ops, ops + 1} /\ mishaps' \in {mishaps, mishaps + 1}
    BY DEF CallerStep, API_LoadImagePara, ScreenAdjust, Call, TakeAnswer, WaitTimesOut, Mishap
  <2>2. disturbed' \in BOOLEAN
    BY DEF CallerStep, API_LoadImagePara, ScreenAdjust, Call, TakeAnswer, WaitTimesOut, Begins,
       RestTyped
  <2>3. ops \in Nat /\ mishaps \in Nat /\ orphan \in BOOLEAN
    BY DEF RestTyped
  <2>4. ops' \in Nat /\ mishaps' \in Nat
    BY <2>1, <2>3
  <2> QED
    BY <2>1, <2>2, <2>3, <2>4 DEF RestTyped
<1>3. QueueTyped' /\ CallerTyped'
  <2>1. CASE API_LoadImagePara
    BY <2>1, IdleTyped DEF API_LoadImagePara, QueueTyped, CallerTyped
  <2>2. ASSUME NEW p \in 1 .. Params, NEW up \in BOOLEAN, ScreenAdjust(p, up)
        PROVE  QueueTyped' /\ CallerTyped'
    <3>1. image' \in Image
      BY <2>2, SteppedTyped DEF ScreenAdjust, CallerTyped, Image
    <3>2. ASSUME NEW i \in Image
          PROVE  [Idle EXCEPT !.op = "adjust", !.at = "call", !.want = i] \in Callings
      BY IdleTyped DEF Callings
    <3> QED
      BY <2>2, <3>1, <3>2 DEF ScreenAdjust, QueueTyped, CallerTyped
  <2>3. ASSUME NEW c \in Callers, Call(c)
        PROVE  QueueTyped' /\ CallerTyped'
    <3>1. caller[c] \in Callings /\ calls + 1 \in Nat
      BY DEF CallerTyped
    <3>2. caller[c].p \in 1 .. Params /\ caller[c].want[caller[c].p] \in Vals
      BY <3>1 DEF Callings, Image
    <3>3. Request(c) \in Requests
      BY <3>1, <3>2, Constant DEF Request, Requests
    <3>4. [caller[c] EXCEPT !.at = "wait", !.ticket = calls + 1] \in Callings
      BY <3>1 DEF Callings
    <3>5. caller' = [caller EXCEPT ![c] = [caller[c] EXCEPT !.at = "wait", !.ticket = calls + 1]]
      BY <2>3 DEF Call, CallerTyped
    <3> QED
      BY <2>3, <3>1, <3>3, <3>4, <3>5, PushTyped DEF Call, QueueTyped, CallerTyped
  <2>4. ASSUME NEW c \in Callers, TakeAnswer(c)
        PROVE  QueueTyped' /\ CallerTyped'
    <3>1. Head(answers) \in Answers /\ Tail(answers) \in Seq(Answers)
      BY <2>4, HeadTailProperties DEF TakeAnswer, QueueTyped
    <3>2. Head(answers).v \in Vals
      BY <3>1 DEF Answers
    <3>3. (Matches(c) /\ Head(answers).result = 0) \in BOOLEAN
      OBVIOUS
    <3>4. Goes(c, Matches(c) /\ Head(answers).result = 0, Head(answers).v)
      BY <2>4 DEF TakeAnswer
    <3>5. caller' \in [Callers -> Callings] /\ image' \in Image
      BY <3>2, <3>3, <3>4, GoesTyped
    <3> QED
      BY <2>4, <3>1, <3>5 DEF TakeAnswer, QueueTyped, CallerTyped
  <2>5. ASSUME NEW c \in Callers, WaitTimesOut(c)
        PROVE  QueueTyped' /\ CallerTyped'
    <3>1. caller' \in [Callers -> Callings] /\ image' \in Image
      BY <2>5, GoesTyped, Constant DEF WaitTimesOut
    <3> QED
      BY <2>5, <3>1 DEF WaitTimesOut, QueueTyped, CallerTyped
  <2> QED
    BY <2>1, <2>2, <2>3, <2>4, <2>5 DEF CallerStep
<1>4. (TimerTypeOK /\ QueueTyped /\ TableTyped /\ FileTyped /\ CallerTyped /\ IoTyped /\ RestTyped)'
  BY <1>1, <1>2, <1>3
<1> QED
  BY <1>4 DEF TypeOK, QueueTyped, TableTyped, FileTyped, Callings, CallerTyped, IoTyped, RestTyped

(* After power-on.                                                         *)
LEMMA VolatileTyped ==
  ASSUME Volatile
  PROVE  TimerTypeOK /\ QueueTyped /\ TableTyped /\ IoTyped
           /\ caller \in [Callers -> Callings] /\ image \in Image
<1> USE DEF Volatile
<1>1. TimerTypeOK
  BY IoAssumption, TimerCntAssumption DEF TimerTypeOK, add_a_timer, init_mul_timer, TickWaits, At
<1>2. QueueTyped
  <2>1. <<>> \in Seq(Requests)
    OBVIOUS
  <2>2. <<>> \in Seq(Answers)
    OBVIOUS
  <2>3. Len(<<>>) = 0 /\ 0 <= QMax
    BY Constant
  <2> QED
    BY <2>1, <2>2, <2>3 DEF QueueTyped
<1>3. TableTyped
  <2>1. <<>> \in [1 .. 0 -> Vals] /\ 0 \in 0 .. Params
    BY Constant
  <2> QED
    BY <2>1 DEF TableTyped
<1>4. IoTyped /\ caller \in [Callers -> Callings] /\ image \in Image
  BY IdleTyped, DefaultTyped DEF IoTyped
<1> QED
  BY <1>1, <1>2, <1>3, <1>4

LEMMA InitTyped == Init => TypeOK
<1> SUFFICES ASSUME Init PROVE TypeOK
  OBVIOUS
<1>1. TimerTypeOK /\ QueueTyped /\ TableTyped /\ IoTyped /\ CallerTyped
  BY VolatileTyped DEF Init, CallerTyped
<1>2. FileTyped
  BY DEF Init, FileTyped, Contents
<1>3. RestTyped
  <2>1. ops \in Nat /\ mishaps \in Nat /\ disturbed \in BOOLEAN /\ orphan \in BOOLEAN
    BY DEF Init, Volatile
  <2> QED
    BY <2>1 DEF RestTyped
<1> QED
  BY <1>1, <1>2, <1>3, TypeParts

LEMMA CrashTypes ==
  ASSUME TypeOK, Crash
  PROVE  TypeOK'
<1>0. FileTyped /\ CallerTyped /\ RestTyped
  BY TypeParts
<1>1. Volatile'
  BY DEF Crash, Volatile, init_mul_timer, TickWaits, At, add_a_timer
<1>2. (TimerTypeOK /\ QueueTyped /\ TableTyped /\ IoTyped
           /\ caller \in [Callers -> Callings] /\ image \in Image)'
  BY <1>1, VolatileTyped, PTL
<1>3. FileTyped' /\ CallerTyped'
  BY <1>0, <1>2 DEF Crash, FileTyped, CallerTyped
<1>4. RestTyped'
  <2>1. ops' = ops /\ mishaps' = mishaps + 1 /\ disturbed' = FALSE /\ orphan' = FALSE
    BY DEF Crash, Mishap
  <2>2. ops \in Nat /\ mishaps \in Nat
    BY <1>0 DEF RestTyped
  <2>3. ops' \in Nat /\ mishaps' \in Nat
    BY <2>1, <2>2
  <2> QED
    BY <2>1, <2>3 DEF RestTyped
<1> QED
  BY <1>2, <1>3, <1>4 DEF TypeOK, QueueTyped, TableTyped, FileTyped, Callings, CallerTyped, IoTyped,
     RestTyped
-----------------------------------------------------------------------------
(* A message that is pushed leaves the head where it is.                   *)
LEMMA HeadStays ==
  ASSUME TypeOK, requests # <<>>, NEW m \in Requests, Push(m)
  PROVE  requests' # <<>> /\ Head(requests') = Head(requests)
<1>1. requests \in Seq(Requests)
  BY DEF TypeOK
<1>2. Append(requests, m) # <<>> /\ Head(Append(requests, m)) = Head(requests)
  BY <1>1, AppendProperties, HeadTailAppend
<1> QED
  BY <1>2 DEF Push

LEMMA RequestTyped ==
  ASSUME TypeOK, NEW c \in Callers
  PROVE  Request(c) \in Requests
<1>1. caller[c] \in Callings /\ calls + 1 \in Nat
  BY DEF TypeOK, Callings
<1>2. caller[c].p \in 1 .. Params /\ caller[c].want[caller[c].p] \in Vals
  BY <1>1 DEF Callings, Image
<1> QED
  BY <1>1, <1>2, Constant DEF Request, Requests

(* What the other threads leave of io's work.                              *)
LEMMA OthersPush ==
  ASSUME TypeOK, TickStep \/ CallerStep
  PROVE  /\ UNCHANGED <<io, bootVars, table, mustSave, fileVars>>
         /\ UNCHANGED requests \/ \E m \in Requests : Push(m)
<1> USE DEF userVars, queueVars, UserUnchanged
<1>1. CASE TickStep
  <2>1. [type |-> "SAVE"] \in Requests
    BY DEF Requests
  <2> QED
    BY <1>1, <2>1 DEF TickStep, Ticks, SaveIoDataTimerCallback, CallbackLocks, CallbackEnds
<1>2. CASE CallerStep
  <2>1. UNCHANGED requests \/ \E c \in Callers : Call(c)
    BY <1>2 DEF CallerStep, API_LoadImagePara, ScreenAdjust, TakeAnswer, WaitTimesOut
  <2>2. UNCHANGED <<io, bootVars, table, mustSave, fileVars>>
    BY <1>2 DEF CallerStep, API_LoadImagePara, ScreenAdjust, Call, TakeAnswer, WaitTimesOut
  <2> QED
    BY <2>1, <2>2, RequestTyped DEF Call
<1> QED
  BY <1>1, <1>2

LEMMA WorkKept ==
  ASSUME TypeOK, AtWork, [Next]_vars
  PROVE  AtWork'
<1> USE DEF timerVars, queueVars, userVars, bootVars, fileVars
<1>1. CASE LoadTable \/ LoadFails \/ CopyDefault \/ Reload
  BY <1>1 DEF AtWork, LoadTable, LoadFails, CopyDefault, Reload
<1>2. CASE InnerRead \/ InnerWriteArms \/ InnerWriteFails
  BY <1>2 DEF AtWork, InnerRead, InnerWriteArms, InnerWriteFails, ReadWritelocalResponse, Finish
<1>3. CASE InnerWrite
  <2>1. PICK k \in 0 .. Params : table \in [1 .. k -> Vals]
    BY DEF TypeOK
  <2>2. /\ io' = "arm" /\ requests # <<>> /\ UNCHANGED <<requests, booting>> /\ ~ booting
        /\ Head(requests).type = "WRITE" /\ Head(requests).p \in DOMAIN table
        /\ table' = [table EXCEPT ![Head(requests).p] = Head(requests).v]
    BY <1>3 DEF InnerWrite, AtWork, Msg, Found
  <2> QED
    BY <2>1, <2>2 DEF AtWork, Found
<1>4. CASE LockTimer \/ RenameOld \/ OpenNew \/ save_vtk_table_file_buffer \/ ClearFlag
             \/ StopSaveTimer
  BY <1>4 DEF AtWork, LockTimer, Found, RenameOld, OpenNew, save_vtk_table_file_buffer, ClearFlag,
     StopSaveTimer, IoGoes, SaveAtHand, Msg
<1>5. CASE SaveEnds
  BY <1>5 DEF AtWork, SaveEnds
<1>6. CASE TickStep \/ CallerStep
  <2>1. /\ UNCHANGED <<io, booting, table>>
        /\ requests # <<>> => (requests' # <<>> /\ Head(requests') = Head(requests))
    BY <1>6, OthersPush, HeadStays
  <2> QED
    BY <2>1 DEF AtWork, Found
<1>7. CASE Crash
  BY <1>7 DEF AtWork, Crash
<1>8. CASE UNCHANGED vars
  BY <1>8 DEF vars, AtWork, Found
<1> QED
  BY <1>1, <1>2, <1>3, <1>4, <1>5, <1>6, <1>7, <1>8 DEF Next, IoStep
-----------------------------------------------------------------------------
(* What the disk holds at every point of io.                               *)
AsTable == Loadable(file) /\ Parsed(file) = table
Synced  == disk = {file}

Saved ==
  /\ io = "load" => ~ mustSave /\ ~ corrected /\ Synced
  /\ io \in {"copy", "reload"} => ~ mustSave /\ ~ corrected
  /\ io = "reload" => file = Default
  /\ io \notin {"load", "copy", "reload"} => table # <<>>
  /\ io = "save" => AsTable /\ Synced /\ (corrected <=> mustSave)
  /\ io \in {"arm", "start"} => mustSave
  /\ io \in {"open", "write"} => mustSave /\ (booting => corrected)
  /\ io \in {"clear", "disarm", "stop"} => AsTable /\ (booting => corrected \/ Synced)
  /\ io \in {"disarm", "stop"} => ~ mustSave
  /\ io = "sync" /\ ~ mustSave => AsTable /\ (booting => corrected \/ Synced)
  /\ io = "idle" /\ ~ mustSave => AsTable /\ (corrected \/ Synced)

LEMMA SavedKept ==
  ASSUME TypeOK, AtWork, Saved, [Next]_vars
  PROVE  Saved'
<1> USE DEF timerVars, queueVars, userVars, bootVars, fileVars, Synced
<1>0. TableTyped /\ file \in Contents
  BY DEF TypeOK, TableTyped
<1>1. CASE LoadTable
  <2>1. /\ io = "load" /\ io' = "save" /\ Loadable(file) /\ table' = Parsed(file)
        /\ corrected' = mustSave' /\ UNCHANGED fileVars
    BY <1>1 DEF LoadTable
  <2>2. table' # <<>> /\ AsTable' /\ Synced'
    BY <1>0, <2>1, ParsedTyped DEF AsTable, Saved, Loadable, Faulty, Parsed
  <2> QED
    BY <2>1, <2>2 DEF Saved
<1>2. CASE LoadFails \/ CopyDefault
  BY <1>2 DEF LoadFails, CopyDefault, Saved, Written
<1>3. CASE Reload
  <2>1. /\ io = "reload" /\ io' = "idle" /\ UNCHANGED file /\ Synced' /\ table' = Default
        /\ file = Default
    BY <1>3 DEF Reload, Sync, Saved
  <2>2. Loadable(Default) /\ Parsed(Default) = Default /\ Default # <<>>
    BY DefaultTyped, ParsedTable
  <2>3. AsTable'
    BY <2>1, <2>2 DEF AsTable, Loadable, Faulty, Parsed
  <2> QED
    BY <2>1, <2>2, <2>3 DEF Saved
<1>4. CASE InnerRead \/ InnerWriteFails
  <2>1. io = "idle" /\ io' = "idle" /\ UNCHANGED <<table, mustSave, corrected, fileVars>>
    BY <1>4 DEF InnerRead, InnerWriteFails, ReadWritelocalResponse, Finish
  <2> QED
    BY <2>1 DEF Saved, AsTable, Loadable, Faulty, Parsed
<1>5. CASE InnerWrite
  <2>1. io = "idle" /\ io' = "arm" /\ mustSave' = TRUE /\ table' = [table EXCEPT ![Msg.p] = Msg.v]
    BY <1>5 DEF InnerWrite
  <2>2. table # <<>> /\ table' # <<>>
    <3>1. table # <<>>
      BY <2>1 DEF Saved
    <3>2. DOMAIN table' = DOMAIN table /\ Msg.p \in DOMAIN table /\ DOMAIN <<>> = 1 .. 0
      BY <1>5, <2>1 DEF InnerWrite, Found
    <3>3. Msg.p \notin 1 .. 0
      <4>1. Msg.p \in 1 .. Params
        BY <1>5, MessageTyped DEF InnerWrite
      <4> QED
        BY <4>1, Constant
    <3> QED
      BY <3>1, <3>2, <3>3
  <2> QED
    BY <2>1, <2>2 DEF Saved
<1>6. CASE InnerWriteArms
  <2>1. io = "start" /\ io' = "idle" /\ mustSave /\ UNCHANGED <<table, mustSave>>
    BY <1>6 DEF LockTimer, InnerWriteArms, ReadWritelocalResponse, Finish, Saved
  <2> QED
    BY <2>1 DEF Saved
<1>7. CASE RenameOld
  <2>1. /\ io \in {"save", "idle"} /\ UNCHANGED <<table, mustSave, bootVars>> /\ table # <<>>
        /\ io = "idle" => ~ booting
    BY <1>7 DEF RenameOld, SaveAtHand, Saved, IoGoes, AtWork
  <2>2. CASE ~ mustSave
    <3>1. io' = "clear" /\ UNCHANGED fileVars /\ AsTable /\ (booting => Synced)
      BY <1>7, <2>1, <2>2 DEF RenameOld, IoGoes, Saved
    <3> QED
      BY <2>1, <3>1 DEF Saved, AsTable, Loadable, Faulty, Parsed
  <2>3. CASE mustSave
    <3>1. io' \in {"sync", "open"} /\ (booting => corrected)
      BY <1>7, <2>1, <2>3 DEF RenameOld, IoGoes, Saved
    <3> QED
      BY <2>1, <2>3, <3>1 DEF Saved
  <2> QED
    BY <2>2, <2>3
<1>8. CASE OpenNew
  <2>1. /\ io = "open" /\ io' \in {"write", "sync"} /\ UNCHANGED <<table, mustSave, bootVars>>
    BY <1>8 DEF OpenNew, IoGoes
  <2> QED
    BY <2>1 DEF Saved
<1>9. CASE save_vtk_table_file_buffer
  <2>1. /\ io = "write" /\ io' = "clear" /\ UNCHANGED <<table, mustSave, bootVars>> /\ table # <<>>
        /\ file' = table
    BY <1>9 DEF save_vtk_table_file_buffer, IoGoes, Written, Saved
  <2>2. Loadable(table) /\ Parsed(table) = table
    BY <1>0, <2>1, ParsedTable DEF TableTyped
  <2>3. AsTable'
    BY <2>1, <2>2 DEF AsTable, Loadable, Faulty, Parsed
  <2> QED
    BY <2>1, <2>3 DEF Saved
<1>10. CASE LockTimer \/ ClearFlag \/ StopSaveTimer
  <2>1. /\ \/ io = "clear" /\ io' = "disarm" /\ mustSave' = FALSE
           \/ io = "arm" /\ io' = "start" /\ UNCHANGED mustSave
           \/ io = "disarm" /\ io' = "stop" /\ UNCHANGED mustSave
           \/ io = "stop" /\ io' = "sync" /\ UNCHANGED mustSave
        /\ UNCHANGED <<table, bootVars, fileVars>>
    BY <1>10 DEF LockTimer, ClearFlag, StopSaveTimer, IoGoes
  <2> QED
    BY <2>1 DEF Saved, AsTable, Loadable, Faulty, Parsed
<1>11. CASE SaveEnds
  <2>1. /\ io = "sync" /\ io' = "idle" /\ UNCHANGED <<table, mustSave, file>>
        /\ ~ booting => Synced'
        /\ booting => UNCHANGED fileVars /\ (corrected' <=> corrected)
    BY <1>11 DEF SaveEnds, Sync
  <2> QED
    BY <2>1 DEF Saved, AsTable, Loadable, Faulty, Parsed
<1>12. CASE TickStep \/ CallerStep
  <2>1. UNCHANGED <<io, bootVars, table, mustSave, fileVars>>
    BY <1>12, OthersPush
  <2> QED
    BY <2>1 DEF Saved, AsTable, Loadable, Faulty, Parsed
<1>13. CASE Crash
  BY <1>13 DEF Saved, Crash
<1>14. CASE UNCHANGED vars
  BY <1>14 DEF vars, Saved, AsTable, Loadable, Faulty, Parsed
<1> QED
  BY <1>1, <1>2, <1>3, <1>4, <1>5, <1>6, <1>7, <1>8, <1>9, <1>10, <1>11, <1>12, <1>13, <1>14
     DEF Next, IoStep
-----------------------------------------------------------------------------
(* The requests and answers of calls that nothing disturbed: one call is   *)
(* made at a time, its request is the only one in the queue, or its answer *)
(* the only one, and what it has done so far is what the table says.       *)
OnlySaves(s) == \A k \in 1 .. Len(s) : s[k].type = "SAVE"
OneAsked(s)  == \A j, k \in 1 .. Len(s) : s[j].type # "SAVE" /\ s[k].type # "SAVE" => j = k

Kind(c) == IF caller[c].op = "load" THEN "READ" ELSE "WRITE"

Asks(c, m) == /\ caller[c].at = "wait" /\ m.ticket = caller[c].ticket
              /\ m.type = Kind(c) /\ m.p = caller[c].p
              /\ caller[c].op = "adjust" => m.v = caller[c].want[caller[c].p]

Told(c, a) ==
  /\ caller[c].at = "wait" /\ a.ticket = caller[c].ticket /\ a.type = Kind(c)
  /\ caller[c].op = "load" /\ a.result = 0
       => caller[c].p \in DOMAIN table /\ a.v = table[caller[c].p]
  /\ caller[c].op = "adjust" /\ caller[c].p \in DOMAIN table
       => table[caller[c].p] = caller[c].want[caller[c].p]

RequestsOwned == /\ OneAsked(requests)
                 /\ \A k \in 1 .. Len(requests) :
                      requests[k].type # "SAVE" => \E c \in Callers : Asks(c, requests[k])

AnswerOwned == answers # <<>> => /\ OnlySaves(requests) /\ Len(answers) = 1
                                 /\ \E c \in Callers : Told(c, Head(answers))

(* How far c has come.                                                     *)
Going(c) ==
  /\ caller[c].op = "none" <=> caller[c].at = "none"
  /\ caller[c].op = "load" /\ caller[c].ok
       => \A q \in 1 .. Params : q < caller[c].p => q \in DOMAIN table /\ caller[c].got[q] = table[q]
  /\ caller[c].op = "adjust"
       => /\ caller[c].want = image
          /\ \A q \in DOMAIN table : q < caller[c].p => table[q] = image[q]

OneCalls == \A c, d \in Callers : caller[c].op # "none" /\ caller[d].op # "none" => c = d

NoneAdjusts == \A c \in Callers : caller[c].op # "adjust"

(* Nothing is answered before the table is loaded.                         *)
Unanswered == booting => /\ answers = <<>>
                         /\ \A c \in Callers : caller[c].op # "none" => caller[c].p = 1
                         /\ NoneAdjusts => image = Default

Shows == NoneAdjusts => image = Default \/ \A p \in DOMAIN table : table[p] = image[p]

Orderly == /\ RequestsOwned /\ AnswerOwned /\ OneCalls /\ Unanswered /\ Shows
           /\ \A c \in Callers : Going(c)

Served == ~ disturbed => Orderly
-----------------------------------------------------------------------------
(* Queues of requests.                                                     *)
LEMMA TailOf ==
  ASSUME NEW s \in Seq(Requests), s # <<>>
  PROVE  \A k \in 1 .. Len(Tail(s)) : k + 1 \in 1 .. Len(s) /\ Tail(s)[k] = s[k + 1]
<1>1. Len(Tail(s)) = Len(s) - 1 /\ \A i \in 1 .. Len(Tail(s)) : Tail(s)[i] = s[i + 1]
  BY HeadTailProperties
<1>2. Len(s) \in Nat
  BY LenProperties
<1> QED
  BY <1>1, <1>2

LEMMA FirstOf ==
  ASSUME NEW s \in Seq(Requests), s # <<>>
  PROVE  1 \in 1 .. Len(s) /\ Head(s) = s[1]
<1>1. Len(s) \in Nat \ {0}
  BY EmptySeq
<1> QED
  BY <1>1

LEMMA TailOneAsked ==
  ASSUME NEW s \in Seq(Requests), s # <<>>, OneAsked(s)
  PROVE  OneAsked(Tail(s))
<1> SUFFICES ASSUME NEW j \in 1 .. Len(Tail(s)), NEW k \in 1 .. Len(Tail(s)),
                    Tail(s)[j].type # "SAVE", Tail(s)[k].type # "SAVE"
             PROVE  j = k
  BY DEF OneAsked
<1>1. j + 1 \in 1 .. Len(s) /\ Tail(s)[j] = s[j + 1] /\ k + 1 \in 1 .. Len(s) /\ Tail(s)[k] = s[k + 1]
  BY TailOf
<1>2. j + 1 = k + 1
  BY <1>1 DEF OneAsked
<1>3. Len(Tail(s)) \in Nat
  BY HeadTailProperties, LenProperties
<1> QED
  BY <1>2, <1>3

(* Without its request the queue holds only requests to save.              *)
LEMMA TailOnlySaves ==
  ASSUME NEW s \in Seq(Requests), s # <<>>, OneAsked(s), Head(s).type # "SAVE"
  PROVE  OnlySaves(Tail(s))
<1> SUFFICES ASSUME NEW k \in 1 .. Len(Tail(s)), Tail(s)[k].type # "SAVE" PROVE FALSE
  BY DEF OnlySaves
<1>1. k + 1 \in 1 .. Len(s) /\ Tail(s)[k] = s[k + 1] /\ 1 \in 1 .. Len(s) /\ Head(s) = s[1]
  BY TailOf, FirstOf
<1>2. k + 1 = 1
  BY <1>1 DEF OneAsked
<1>3. Len(Tail(s)) \in Nat
  BY HeadTailProperties, LenProperties
<1> QED
  BY <1>2, <1>3

LEMMA TailStillSaves ==
  ASSUME NEW s \in Seq(Requests), s # <<>>, OnlySaves(s)
  PROVE  OnlySaves(Tail(s))
BY TailOf DEF OnlySaves

LEMMA AppendOf ==
  ASSUME NEW s \in Seq(Requests), NEW m \in Requests
  PROVE  /\ Len(s) \in Nat /\ Len(Append(s, m)) = Len(s) + 1
         /\ \A k \in 1 .. Len(Append(s, m)) :
              Append(s, m)[k] = IF k = Len(s) + 1 THEN m ELSE s[k]
<1>1. /\ Len(s) \in Nat /\ Len(Append(s, m)) = Len(s) + 1
      /\ \A i \in 1 .. Len(s) : Append(s, m)[i] = s[i]
      /\ Append(s, m)[Len(s) + 1] = m
  BY LenProperties, AppendProperties
<1> QED
  BY <1>1

(* A request to save that is added changes nothing.                        *)
LEMMA SaveIsAdded ==
  ASSUME NEW s \in Seq(Requests), NEW m \in Requests, m.type = "SAVE"
  PROVE  /\ OnlySaves(s) => OnlySaves(Append(s, m))
         /\ OneAsked(s) => OneAsked(Append(s, m))
         /\ \A k \in 1 .. Len(Append(s, m)) :
              Append(s, m)[k].type # "SAVE" => k \in 1 .. Len(s) /\ Append(s, m)[k] = s[k]
<1>1. /\ Len(s) \in Nat /\ Len(Append(s, m)) = Len(s) + 1
      /\ \A k \in 1 .. Len(Append(s, m)) :
              Append(s, m)[k] = IF k = Len(s) + 1 THEN m ELSE s[k]
  BY AppendOf
<1>2. \A k \in 1 .. Len(Append(s, m)) :
        Append(s, m)[k].type # "SAVE" => k \in 1 .. Len(s) /\ Append(s, m)[k] = s[k]
  BY <1>1
<1>3. OnlySaves(s) => OnlySaves(Append(s, m))
  BY <1>2 DEF OnlySaves
<1>4. OneAsked(s) => OneAsked(Append(s, m))
  BY <1>2 DEF OneAsked
<1> QED
  BY <1>2, <1>3, <1>4

LEMMA RequestIsAdded ==
  ASSUME NEW s \in Seq(Requests), NEW m \in Requests, OnlySaves(s)
  PROVE  /\ OneAsked(Append(s, m))
         /\ \A k \in 1 .. Len(Append(s, m)) :
              Append(s, m)[k].type # "SAVE" => Append(s, m)[k] = m
<1>1. /\ Len(s) \in Nat /\ Len(Append(s, m)) = Len(s) + 1
      /\ \A k \in 1 .. Len(Append(s, m)) :
              Append(s, m)[k] = IF k = Len(s) + 1 THEN m ELSE s[k]
  BY AppendOf
<1>2. \A k \in 1 .. Len(Append(s, m)) : Append(s, m)[k].type # "SAVE" => k = Len(s) + 1
  BY <1>1 DEF OnlySaves
<1> QED
  BY <1>1, <1>2 DEF OneAsked
-----------------------------------------------------------------------------
(* io keeps the calls in order.                                            *)

LEMMA GoingStays ==
  ASSUME NEW c \in Callers, UNCHANGED <<caller, image, table>>, Going(c)
  PROVE  Going(c)'
BY DEF Going

(* The table is still being loaded.                                        *)
LEMMA LoadOrderly ==
  ASSUME TypeOK, AtWork, Orderly, LoadTable \/ Reload
  PROVE  Orderly'
<1> USE DEF queueVars, bootVars, fileVars
<1>1. booting /\ UNCHANGED <<userVars, requests, answers>>
  BY DEF LoadTable, Reload, AtWork
<1>2. PICK n \in 0 .. Params : table' \in [1 .. n -> Vals]
  <2>1. CASE LoadTable
    BY <2>1, ParsedTyped DEF LoadTable, TypeOK
  <2>2. CASE Reload
    BY <2>2, DefaultTyped DEF Reload
  <2> QED
    BY <2>1, <2>2
<1>3. /\ answers = <<>> /\ answers' = <<>> /\ UNCHANGED <<caller, image>>
      /\ \A c \in Callers : caller[c].op # "none" => caller[c].p = 1
      /\ NoneAdjusts => image = Default
  BY <1>1 DEF Orderly, Unanswered, userVars
<1>4. RequestsOwned'
  BY <1>1 DEF Orderly, RequestsOwned, userVars, OneAsked, Asks, Kind
<1>5. AnswerOwned' /\ OneCalls' /\ Unanswered' /\ Shows'
  BY <1>3 DEF AnswerOwned, Orderly, OneCalls, Unanswered, Shows, NoneAdjusts
<1>6. ASSUME NEW c \in Callers PROVE Going(c)'
  <2>1. Going(c)
    BY DEF Orderly
  <2>2. \A q \in 1 .. Params : ~ (q < 1)
    BY Constant
  <2>3. DOMAIN table' \subseteq 1 .. Params
    BY <1>2, Constant
  <2> QED
    BY <1>3, <2>1, <2>2, <2>3 DEF Going
<1> QED
  BY <1>4, <1>5, <1>6 DEF Orderly

(* io has taken a request from the queue, a save or one it has answered.   *)
LEMMA TakenOwned ==
  ASSUME TypeOK, RequestsOwned, requests # <<>>, requests' = Tail(requests), UNCHANGED userVars
  PROVE  RequestsOwned'
<1>1. requests \in Seq(Requests)
  BY DEF TypeOK
<1>2. OneAsked(requests)'
  BY <1>1, TailOneAsked DEF RequestsOwned, OneAsked
<1>3. ASSUME NEW k \in 1 .. Len(requests'), requests'[k].type # "SAVE"
      PROVE  \E c \in Callers : Asks(c, requests[k])'
  <2>1. k + 1 \in 1 .. Len(requests) /\ requests'[k] = requests[k + 1]
    BY <1>1, <1>3, TailOf
  <2>2. PICK c \in Callers : Asks(c, requests[k + 1])
    BY <1>3, <2>1 DEF RequestsOwned
  <2> QED
    BY <2>1, <2>2 DEF Asks, Kind, userVars
<1> QED
  BY <1>2, <1>3 DEF RequestsOwned

LEMMA SaveOrderly ==
  ASSUME TypeOK, AtWork, Orderly, SaveEnds
  PROVE  Orderly'
<1> USE DEF queueVars, bootVars, fileVars
<1>1. UNCHANGED <<userVars, table, answers>> /\ booting' = FALSE
  BY DEF SaveEnds
<1>2. UNCHANGED requests \/ (requests # <<>> /\ requests' = Tail(requests))
  BY DEF SaveEnds, AtWork
<1>3. RequestsOwned'
  <2>1. CASE UNCHANGED requests
    BY <1>1, <2>1 DEF Orderly, RequestsOwned, userVars, OneAsked, Asks, Kind
  <2> QED
    BY <1>1, <1>2, <2>1, TakenOwned DEF Orderly
<1>4. AnswerOwned'
  <2>1. OnlySaves(requests) => OnlySaves(requests)'
    BY <1>2, TailStillSaves DEF TypeOK, OnlySaves
  <2> QED
    BY <1>1, <2>1 DEF Orderly, AnswerOwned, Told, Kind, userVars
<1>5. (OneCalls /\ Unanswered /\ Shows)' /\ \A c \in Callers : Going(c)'
  BY <1>1, GoingStays DEF Orderly, OneCalls, Unanswered, Shows, NoneAdjusts, userVars
<1> QED
  BY <1>3, <1>4, <1>5 DEF Orderly

(* The request at the head is answered to the one who made it.             *)
LEMMA ResponseOrderly ==
  ASSUME TypeOK, AtWork, Orderly, InnerRead \/ InnerWriteArms \/ InnerWriteFails
  PROVE  Orderly'
<1> USE DEF queueVars, bootVars, fileVars
<1>1. /\ requests # <<>> /\ Msg.type # "SAVE" /\ ~ booting /\ UNCHANGED <<userVars, table, booting>>
      /\ requests' = Tail(requests) /\ answers' = Append(answers, Answer(Msg))
      /\ \/ Msg.type = "READ" \/ ~ Found(Msg)
         \/ table[Msg.p] = Msg.v
  BY DEF InnerRead, InnerWriteArms, InnerWriteFails, AtWork, Msg, ReadWritelocalResponse, Finish
<1>2. requests \in Seq(Requests) /\ answers \in Seq(Answers)
  BY DEF TypeOK
<1>3. 1 \in 1 .. Len(requests) /\ Msg = requests[1]
  BY <1>1, <1>2, FirstOf DEF Msg
<1>4. PICK c \in Callers : Asks(c, Msg)
  BY <1>1, <1>3 DEF Orderly, RequestsOwned
<1>5. answers = <<>>
  BY <1>1, <1>3 DEF Orderly, AnswerOwned, OnlySaves
<1>6. answers' = <<Answer(Msg)>> /\ Len(answers') = 1 /\ Head(answers') = Answer(Msg)
  BY <1>1, <1>5
<1>7. OnlySaves(requests)'
  BY <1>1, <1>2, TailOnlySaves DEF Orderly, RequestsOwned, Msg, OnlySaves
<1>8. Told(c, Answer(Msg))
  BY <1>1, <1>4 DEF Told, Asks, Answer, Found, Kind
<1>9. AnswerOwned'
  <2>1. Told(c, Answer(Msg)) => Told(c, Head(answers))'
    BY <1>1, <1>6 DEF Told, Kind, userVars
  <2> QED
    BY <1>6, <1>7, <1>8, <2>1 DEF AnswerOwned
<1>10. RequestsOwned'
  BY <1>1, TakenOwned DEF Orderly
<1>11. (OneCalls /\ Unanswered /\ Shows)' /\ \A d \in Callers : Going(d)'
  BY <1>1, GoingStays DEF Orderly, OneCalls, Unanswered, Shows, NoneAdjusts, userVars
<1> QED
  BY <1>9, <1>10, <1>11 DEF Orderly

(* A value is written for the thread that adjusts, whose turn it is.       *)
LEMMA WriteOrderly ==
  ASSUME TypeOK, AtWork, Orderly, InnerWrite
  PROVE  Orderly'
<1> USE DEF queueVars, bootVars, fileVars
<1>1. /\ requests # <<>> /\ Msg.type = "WRITE" /\ ~ booting /\ Found(Msg)
      /\ UNCHANGED <<userVars, requests, answers, booting>>
      /\ table' = [table EXCEPT ![Msg.p] = Msg.v]
  BY DEF InnerWrite, AtWork
<1>2. 1 \in 1 .. Len(requests) /\ Msg = requests[1]
  BY <1>1, FirstOf DEF Msg, TypeOK
<1>3. PICK c \in Callers : Asks(c, Msg)
  BY <1>1, <1>2 DEF Orderly, RequestsOwned
<1>4. answers = <<>>
  BY <1>1, <1>2 DEF Orderly, AnswerOwned, OnlySaves
<1>5. caller[c] \in Callings
  BY DEF TypeOK, Callings
<1>6. caller[c].op = "adjust" /\ Msg.p = caller[c].p
  BY <1>1, <1>3, <1>5 DEF Asks, Kind, Orderly, Going, Callings
<1>7. PICK n \in 0 .. Params : table \in [1 .. n -> Vals]
  BY DEF TypeOK
<1>8. DOMAIN table' = DOMAIN table /\ \A q \in DOMAIN table : q # Msg.p => table'[q] = table[q]
  BY <1>1, <1>7
<1>9. ASSUME NEW d \in Callers PROVE Going(d)'
  <2>1. Going(d)
    BY DEF Orderly
  <2>2. CASE d = c
    <3>1. caller[c].p \in 1 .. Params
      BY <1>5 DEF Callings
    <3>2. \A q \in DOMAIN table : q < caller[c].p => q # Msg.p
      BY <1>6, <1>7, <3>1, Constant
    <3> QED
      BY <1>1, <1>6, <1>8, <2>1, <2>2, <3>2 DEF Going, userVars
  <2>3. CASE d # c
    <3>1. caller[d].op = "none"
      BY <1>6, <2>3 DEF Orderly, OneCalls
    <3> QED
      BY <1>1, <2>1, <3>1 DEF Going, userVars
  <2> QED
    BY <2>2, <2>3
<1>10. RequestsOwned'
  BY <1>1 DEF Orderly, RequestsOwned, userVars, OneAsked, Asks, Kind
<1>11. (AnswerOwned /\ OneCalls /\ Unanswered /\ Shows)'
  BY <1>1, <1>4, <1>6 DEF Orderly, AnswerOwned, OneCalls, Unanswered, Shows, NoneAdjusts, userVars
<1> QED
  BY <1>9, <1>10, <1>11 DEF Orderly

(* Nothing the calls can see happens.                                      *)
LEMMA StillOrderly ==
  ASSUME Orderly, UNCHANGED <<userVars, requests, answers, table, booting>>
  PROVE  Orderly'
<1>1. RequestsOwned'
  BY DEF Orderly, RequestsOwned, userVars, OneAsked, Asks, Kind
<1>2. AnswerOwned'
  BY DEF Orderly, AnswerOwned, userVars, OnlySaves, Told, Kind
<1>3. (OneCalls /\ Unanswered /\ Shows)' /\ \A d \in Callers : Going(d)'
  BY GoingStays DEF Orderly, OneCalls, Unanswered, Shows, NoneAdjusts, userVars
<1> QED
  BY <1>1, <1>2, <1>3 DEF Orderly

LEMMA IoOrderly ==
  ASSUME TypeOK, AtWork, Orderly, IoStep
  PROVE  Orderly'
<1>1. CASE LoadFails \/ CopyDefault \/ RenameOld \/ OpenNew \/ save_vtk_table_file_buffer \/ ClearFlag
             \/ StopSaveTimer \/ LockTimer
  <2>1. UNCHANGED <<userVars, requests, answers, table, booting>>
    BY <1>1 DEF LockTimer, LoadFails, CopyDefault, RenameOld, OpenNew, save_vtk_table_file_buffer,
       ClearFlag, StopSaveTimer, IoGoes, queueVars, bootVars
  <2> QED
    BY <2>1, StillOrderly
<1> QED
  BY <1>1, LoadOrderly, SaveOrderly, ResponseOrderly, WriteOrderly DEF IoStep

(* The timer's request to save changes nothing for them.                   *)
LEMMA TickOrderly ==
  ASSUME TypeOK, Orderly, TickStep
  PROVE  Orderly'
<1> USE DEF queueVars, bootVars, fileVars
<1>1. UNCHANGED <<userVars, answers, table, booting>>
  BY DEF TickStep, Ticks, SaveIoDataTimerCallback, CallbackLocks, CallbackEnds
<1>2. UNCHANGED requests \/ requests' = Append(requests, [type |-> "SAVE"])
  BY DEF TickStep, Ticks, SaveIoDataTimerCallback, CallbackLocks, CallbackEnds, Push
<1>3. CASE UNCHANGED requests
  BY <1>1, <1>3, StillOrderly
<1>4. CASE requests' = Append(requests, [type |-> "SAVE"])
  <2>1. [type |-> "SAVE"] \in Requests /\ requests \in Seq(Requests)
    BY DEF Requests, TypeOK
  <2>2. /\ OnlySaves(requests) => OnlySaves(requests')
        /\ OneAsked(requests) => OneAsked(requests')
        /\ \A k \in 1 .. Len(requests') :
              requests'[k].type # "SAVE" => k \in 1 .. Len(requests) /\ requests'[k] = requests[k]
    BY <1>4, <2>1, SaveIsAdded
  <2>3. RequestsOwned'
    BY <1>1, <2>2 DEF Orderly, RequestsOwned, userVars, Asks, Kind
  <2>4. AnswerOwned'
    BY <1>1, <2>2 DEF Orderly, AnswerOwned, userVars, Told, Kind
  <2>5. (OneCalls /\ Unanswered /\ Shows)' /\ \A d \in Callers : Going(d)'
    BY <1>1, GoingStays DEF Orderly, OneCalls, Unanswered, Shows, NoneAdjusts, userVars
  <2> QED
    BY <2>3, <2>4, <2>5 DEF Orderly
<1> QED
  BY <1>2, <1>3, <1>4
-----------------------------------------------------------------------------
(* The threads keep them in order too.                                     *)

(* Nobody who is not waiting is asked for or answered.                     *)
LEMMA NobodyAsked ==
  ASSUME Orderly, \A c \in Callers : caller[c].at # "wait"
  PROVE  OnlySaves(requests) /\ answers = <<>>
BY DEF Orderly, RequestsOwned, AnswerOwned, OnlySaves, Asks, Told

(* Only one thread has a call going.                                       *)
LEMMA OnlyCaller ==
  ASSUME TypeOK, Orderly, NEW c \in Callers, caller[c].at # "none"
  PROVE  /\ caller[c].op \in {"load", "adjust"}
         /\ \A d \in Callers : d # c => caller[d].op = "none" /\ caller[d].at = "none"
<1>1. caller[c] \in Callings
  BY DEF TypeOK, Callings
<1>2. caller[c].op # "none"
  BY DEF Orderly, Going
<1>3. caller[c].op \in {"load", "adjust"}
  BY <1>1, <1>2 DEF Callings
<1> QED
  BY <1>2, <1>3 DEF Orderly, OneCalls, Going

(* A thread begins while no other has anything going.                      *)
LEMMA BeginsOrderly ==
  ASSUME TypeOK, Orderly, NEW c \in Callers, NEW n \in Callings,
         \A d \in Callers : caller[d].op = "none",
         n.op # "none", n.at = "call", n.p = 1,
         n.op = "adjust" => n.want = image', n.op # "adjust" => UNCHANGED image,
         caller' = [caller EXCEPT ![c] = n], UNCHANGED <<requests, answers, table, booting>>
  PROVE  Orderly'
<1>1. \A d \in Callers : caller[d].at = "none"
  BY DEF Orderly, Going
<1>2. OnlySaves(requests) /\ answers = <<>>
  BY <1>1, NobodyAsked
<1>3. caller'[c] = n /\ \A d \in Callers : d # c => caller'[d] = caller[d]
  BY DEF TypeOK
<1>4. RequestsOwned' /\ AnswerOwned'
  BY <1>2 DEF RequestsOwned, AnswerOwned, OnlySaves, OneAsked
<1>5. OneCalls'
  BY <1>3 DEF OneCalls
<1>6. NoneAdjusts /\ (NoneAdjusts' => UNCHANGED image)
  BY <1>3 DEF NoneAdjusts
<1>7. Unanswered' /\ Shows'
  BY <1>2, <1>3, <1>6 DEF Orderly, Unanswered, Shows
<1>8. ASSUME NEW d \in Callers PROVE Going(d)'
  <2>1. CASE d = c
    <3>1. \A q \in 1 .. Params : ~ (q < 1)
      BY Constant
    <3>2. PICK k \in 0 .. Params : table \in [1 .. k -> Vals]
      BY DEF TypeOK
    <3>3. \A q \in DOMAIN table : ~ (q < 1)
      BY <3>2
    <3> QED
      BY <1>3, <2>1, <3>1, <3>3 DEF Going
  <2>2. CASE d # c
    BY <1>1, <1>3, <2>2 DEF Going
  <2> QED
    BY <2>1, <2>2
<1> QED
  BY <1>4, <1>5, <1>7, <1>8 DEF Orderly

(* A call puts its request behind requests to save.                        *)
LEMMA CallOrderly ==
  ASSUME TypeOK, Orderly, NEW c \in Callers, Call(c), ~ disturbed'
  PROVE  Orderly'
<1> USE DEF UserUnchanged, bootVars
<1>1. /\ caller[c].at = "call" /\ UNCHANGED <<answers, image, table, booting>>
      /\ caller' = [caller EXCEPT ![c].at = "wait", ![c].ticket = calls + 1]
  BY DEF Call
<1>2. /\ caller[c].op \in {"load", "adjust"}
      /\ \A d \in Callers : d # c => caller[d].op = "none" /\ caller[d].at = "none"
  BY <1>1, OnlyCaller
<1>3. OnlySaves(requests) /\ answers = <<>>
  BY <1>1, <1>2, NobodyAsked
<1>4. requests \in Seq(Requests) /\ Request(c) \in Requests /\ Len(requests) \in Nat
  BY RequestTyped, LenProperties DEF TypeOK
<1>5. requests' = Append(requests, Request(c))
  <2>1. ~ (Len(requests) >= QMax) /\ Push(Request(c))
    BY Zenon DEF Call
  <2>2. Len(requests) < QMax
    BY <1>4, <2>1, Constant
  <2> QED
    BY <2>1, <2>2 DEF Push
<1>6. caller[c] \in Callings /\ caller \in [Callers -> Callings]
  BY DEF TypeOK, Callings
<1>7. /\ caller'[c].at = "wait" /\ caller'[c].ticket = calls + 1
      /\ caller'[c].op = caller[c].op /\ caller'[c].p = caller[c].p /\ caller'[c].ok = caller[c].ok
      /\ caller'[c].want = caller[c].want /\ caller'[c].got = caller[c].got
      /\ \A d \in Callers : d # c => caller'[d] = caller[d]
  BY <1>1, <1>6 DEF Callings
<1>8. PICK m \in Requests : m = Request(c)
  BY <1>4
<1>9. RequestsOwned'
  <2>1. /\ caller'[c].at = "wait" /\ m.ticket = caller'[c].ticket
        /\ m.type = Kind(c) /\ m.p = caller'[c].p
        /\ caller[c].op = "adjust" => m.v = caller'[c].want[caller'[c].p]
    BY <1>2, <1>7, <1>8 DEF Request, Kind
  <2>2. Asks(c, m)'
    BY <1>7, <2>1 DEF Asks, Kind
  <2>3. /\ OneAsked(requests')
        /\ \A k \in 1 .. Len(requests') : requests'[k].type # "SAVE" => requests'[k] = m
    BY <1>3, <1>4, <1>5, <1>8, RequestIsAdded
  <2> QED
    BY <2>2, <2>3 DEF RequestsOwned, OneAsked
<1>10. AnswerOwned' /\ OneCalls'
  <2>1. AnswerOwned'
    BY <1>1, <1>3 DEF AnswerOwned
  <2>2. \A d \in Callers : caller'[d].op = caller[d].op
    BY <1>7
  <2>3. OneCalls'
    BY <2>2 DEF Orderly, OneCalls
  <2> QED
    BY <2>1, <2>3
<1>11. Unanswered' /\ Shows'
  <2>1. \A d \in Callers : caller'[d].op = caller[d].op /\ caller'[d].p = caller[d].p
    BY <1>7
  <2>2. NoneAdjusts' <=> NoneAdjusts
    BY <2>1 DEF NoneAdjusts
  <2> QED
    BY <1>1, <2>1, <2>2 DEF Orderly, Unanswered, Shows
<1>12. ASSUME NEW d \in Callers PROVE Going(d)'
  <2>1. CASE d = c
    <3>1. Going(c)
      BY DEF Orderly
    <3>2. /\ caller[c].op = "adjust"
               => /\ caller'[c].want = image'
                  /\ \A q \in DOMAIN table' : q < caller'[c].p => table'[q] = image'[q]
          /\ caller[c].op = "load" /\ caller'[c].ok
               => \A q \in 1 .. Params :
                    q < caller'[c].p => q \in DOMAIN table' /\ caller'[c].got[q] = table'[q]
      BY <1>1, <1>7, <3>1 DEF Going
    <3>3. caller'[c].op # "none" /\ caller'[c].at # "none"
      BY <1>2, <1>7
    <3> QED
      BY <1>7, <2>1, <3>2, <3>3 DEF Going
  <2>2. CASE d # c
    BY <1>1, <1>2, <1>7, <2>2 DEF Going
  <2> QED
    BY <2>1, <2>2
<1> QED
  BY <1>9, <1>10, <1>11, <1>12 DEF Orderly

(* The answer taken is the thread's own; after the last the picture is     *)
(* what the table says.                                                    *)
LEMMA TakesOwn ==
  ASSUME TypeOK, Orderly, NEW c \in Callers, caller[c].at = "wait", answers # <<>>
  PROVE  /\ ~ booting /\ OnlySaves(requests) /\ Tail(answers) = <<>> /\ Told(c, Head(answers))
         /\ Matches(c)
<1>1. PICK d \in Callers : Told(d, Head(answers))
  BY DEF Orderly, AnswerOwned
<1>2. d = c
  BY <1>1, OnlyCaller DEF Told
<1>3. answers \in Seq(Answers) /\ Len(answers) = 1 /\ OnlySaves(requests)
  BY DEF TypeOK, Orderly, AnswerOwned
<1>4. Tail(answers) = <<>>
  <2>1. Tail(answers) \in Seq(Answers) /\ Len(Tail(answers)) = Len(answers) - 1
    BY <1>3, HeadTailProperties
  <2>2. Len(Tail(answers)) = 0
    BY <1>3, <2>1
  <2> QED
    BY <2>1, <2>2, EmptySeq
<1>5. ~ booting
  BY DEF Orderly, Unanswered
<1> QED
  BY <1>1, <1>2, <1>3, <1>4, <1>5 DEF Matches, Told, Kind

LEMMA AnswerOrderly ==
  ASSUME TypeOK, Orderly, NEW c \in Callers, TakeAnswer(c)
  PROVE  Orderly'
<1> DEFINE k == caller[c]
           a == Head(answers)
           got == [k.got EXCEPT ![k.p] = a.v]
           good == k.ok /\ (Matches(c) /\ a.result = 0)
<1> USE DEF UserUnchanged, bootVars
<1>1. /\ k.at = "wait" /\ answers # <<>> /\ answers' = Tail(answers)
      /\ UNCHANGED <<requests, table, booting>>
      /\ Goes(c, Matches(c) /\ a.result = 0, a.v)
  BY DEF TakeAnswer
<1>2. ~ booting /\ OnlySaves(requests) /\ answers' = <<>> /\ Told(c, a) /\ Matches(c)
  BY <1>1, TakesOwn
<1>3. /\ k.op \in {"load", "adjust"}
      /\ \A d \in Callers : d # c => caller[d].op = "none" /\ caller[d].at = "none"
  BY <1>1, OnlyCaller
<1>4. k \in Callings /\ k.p \in 1 .. Params /\ k.got \in Image /\ caller \in [Callers -> Callings]
  BY DEF TypeOK, Callings
<1>5. PICK n \in 0 .. Params : table \in [1 .. n -> Vals]
  BY DEF TypeOK
<1>6. DOMAIN table = 1 .. n /\ n \in Nat /\ n <= Params /\ Params \in Nat
  BY <1>5, Constant
<1>7. Going(c)
  BY DEF Orderly
<1>8. k.op = "load" /\ good => \A q \in 1 .. Params : q < k.p + 1 => q \in DOMAIN table /\ got[q] = table[q]
  <2> SUFFICES ASSUME k.op = "load", good, NEW q \in 1 .. Params, q < k.p + 1
               PROVE  q \in DOMAIN table /\ got[q] = table[q]
    OBVIOUS
  <2>1. CASE q = k.p
    <3>1. k.p \in DOMAIN table /\ a.v = table[k.p]
      BY <1>2 DEF Told
    <3> QED
      BY <1>4, <2>1, <3>1 DEF Image
  <2>2. CASE q # k.p
    <3>1. q < k.p
      BY <1>4, <2>2, <1>6
    <3>2. q \in DOMAIN table /\ k.got[q] = table[q]
      BY <1>7, <3>1 DEF Going
    <3> QED
      BY <1>4, <2>2, <3>2 DEF Image
  <2> QED
    BY <2>1, <2>2
<1>9. k.op = "adjust" => /\ k.want = image
                         /\ \A q \in DOMAIN table : q < k.p + 1 => table[q] = image[q]
  <2> SUFFICES ASSUME k.op = "adjust"
               PROVE  /\ k.want = image
                      /\ \A q \in DOMAIN table : q < k.p + 1 => table[q] = image[q]
    OBVIOUS
  <2>1. k.want = image /\ \A q \in DOMAIN table : q < k.p => table[q] = image[q]
    BY <1>7 DEF Going
  <2>2. k.p \in DOMAIN table => table[k.p] = image[k.p]
    BY <1>2, <2>1 DEF Told
  <2>3. \A q \in DOMAIN table : q < k.p + 1 => q < k.p \/ q = k.p
    BY <1>4, <1>6
  <2> QED
    BY <2>1, <2>2, <2>3
<1>10. RequestsOwned' /\ AnswerOwned'
  BY <1>1, <1>2 DEF RequestsOwned, AnswerOwned, OnlySaves, OneAsked
<1>11. CASE k.p < Params
  <2>1. /\ caller' = [caller EXCEPT ![c].at = "call", ![c].p = k.p + 1, ![c].ok = good,
                                    ![c].got = got]
        /\ UNCHANGED image
    BY <1>1, <1>11 DEF Goes
  <2>2. /\ caller'[c].at = "call" /\ caller'[c].p = k.p + 1 /\ caller'[c].got = got
        /\ caller'[c].op = k.op /\ caller'[c].want = k.want /\ caller'[c].ok = good
        /\ \A d \in Callers : d # c => caller'[d] = caller[d]
    <3> HIDE DEF got, good
    <3> QED
      BY <1>4, <2>1 DEF Callings
  <2> HIDE DEF got, good, a
  <2>4. \A d \in Callers : caller'[d].op = caller[d].op
    BY <2>2
  <2>5. OneCalls' /\ (NoneAdjusts' <=> NoneAdjusts)
    BY <2>4 DEF Orderly, OneCalls, NoneAdjusts
  <2>6. Unanswered' /\ Shows'
    BY <1>1, <1>2, <2>1, <2>5 DEF Orderly, Unanswered, Shows
  <2>7. Going(c)'
    <3>1. /\ caller[c].op = "adjust"
               => /\ caller'[c].want = image'
                  /\ \A q \in DOMAIN table' : q < caller'[c].p => table'[q] = image'[q]
          /\ caller[c].op = "load" /\ caller'[c].ok
               => \A q \in 1 .. Params :
                    q < caller'[c].p => q \in DOMAIN table' /\ caller'[c].got[q] = table'[q]
      BY <1>1, <1>8, <1>9, <2>1, <2>2
    <3>2. caller'[c].op # "none" /\ caller'[c].at # "none"
      BY <1>3, <2>2
    <3> QED
      BY <2>2, <3>1, <3>2 DEF Going
  <2>8. \A d \in Callers : d # c => Going(d)'
    BY <1>3, <2>2 DEF Going
  <2> QED
    BY <1>10, <2>5, <2>6, <2>7, <2>8 DEF Orderly
<1>12. CASE ~ (k.p < Params)
  <2>1. /\ caller' = [caller EXCEPT ![c] = Idle]
        /\ image' = IF k.op = "load" THEN (IF good THEN got ELSE Default) ELSE image
    BY <1>1, <1>12 DEF Goes
  <2>2. \A d \in Callers : caller'[d].op = "none" /\ caller'[d].at = "none"
    BY <1>3, <1>4, <2>1 DEF Idle
  <2>3. OneCalls' /\ NoneAdjusts' /\ \A d \in Callers : Going(d)'
    BY <2>2 DEF OneCalls, NoneAdjusts, Going
  <2>4. k.p = Params /\ \A q \in DOMAIN table : q \in 1 .. Params /\ q < k.p + 1
    BY <1>4, <1>6, <1>12
  <2>5. image' = Default \/ \A q \in DOMAIN table : table[q] = image'[q]
    <3>1. CASE k.op = "load"
      BY <1>8, <2>1, <2>4, <3>1
    <3>2. CASE k.op = "adjust"
      BY <1>9, <2>1, <2>4, <3>2
    <3> QED
      BY <1>3, <3>1, <3>2
  <2> HIDE DEF got, good, a, k
  <2>6. Unanswered' /\ Shows'
    BY <1>1, <1>2, <2>5 DEF Unanswered, Shows
  <2> QED
    BY <1>10, <2>3, <2>6 DEF Orderly
<1> QED
  BY <1>11, <1>12

(* Whatever disturbs the calls is noted.                                   *)
LEMMA CallerOrderly ==
  ASSUME TypeOK, Orderly, CallerStep, ~ disturbed'
  PROVE  Orderly'
<1> USE DEF UserUnchanged, bootVars, queueVars
<1>1. CASE API_LoadImagePara
  <2> DEFINE n == [Idle EXCEPT !.op = "load", !.at = "call"]
  <2>1. \A d \in Callers : caller[d].op = "none"
    BY <1>1, Zenon DEF API_LoadImagePara, Begins
  <2>2. /\ UNCHANGED <<requests, answers, table, booting, image>>
        /\ caller' = [caller EXCEPT ![Loader] = n] /\ Loader \in Callers
    BY <1>1 DEF API_LoadImagePara, Callers
  <2>3. n \in Callings /\ n.op = "load" /\ n.at = "call" /\ n.p = 1
    BY IdleTyped DEF Idle
  <2> HIDE DEF n
  <2> QED
    BY <2>1, <2>2, <2>3, BeginsOrderly
<1>2. ASSUME NEW p \in 1 .. Params, NEW up \in BOOLEAN, ScreenAdjust(p, up)
      PROVE  Orderly'
  <2> DEFINE n == [Idle EXCEPT !.op = "adjust", !.at = "call", !.want = image']
  <2>1. \A d \in Callers : caller[d].op = "none"
    BY <1>2, Zenon DEF ScreenAdjust, Begins
  <2>2. /\ UNCHANGED <<requests, answers, table, booting>>
        /\ caller' = [caller EXCEPT ![Adjuster] = n] /\ Adjuster \in Callers
    BY <1>2 DEF ScreenAdjust, Callers
  <2>3. image' \in Image
    BY <1>2, SteppedTyped DEF ScreenAdjust, TypeOK, Image
  <2>4. n \in Callings /\ n.op = "adjust" /\ n.at = "call" /\ n.p = 1 /\ n.want = image'
    <3>1. ASSUME NEW i \in Image
          PROVE  /\ [Idle EXCEPT !.op = "adjust", !.at = "call", !.want = i] \in Callings
                 /\ [Idle EXCEPT !.op = "adjust", !.at = "call", !.want = i].op = "adjust"
                 /\ [Idle EXCEPT !.op = "adjust", !.at = "call", !.want = i].at = "call"
                 /\ [Idle EXCEPT !.op = "adjust", !.at = "call", !.want = i].p = 1
                 /\ [Idle EXCEPT !.op = "adjust", !.at = "call", !.want = i].want = i
      <4>1. Idle \in Callings
        BY IdleTyped
      <4>2. [Idle EXCEPT !.op = "adjust", !.at = "call", !.want = i] \in Callings
        BY <4>1 DEF Callings
      <4> QED
        BY <4>2 DEF Idle
    <3> QED
      BY <2>3, <3>1
  <2> HIDE DEF n
  <2> QED
    BY <2>1, <2>2, <2>4, BeginsOrderly
<1>3. ASSUME NEW c \in Callers, WaitTimesOut(c)
      PROVE  FALSE
  BY <1>3 DEF WaitTimesOut
<1> QED
  BY <1>1, <1>2, <1>3, CallOrderly, AnswerOrderly DEF CallerStep

LEMMA FreshOrderly ==
  ASSUME Volatile
  PROVE  Orderly
<1>1. requests = <<>> /\ answers = <<>> /\ Len(requests) = 0 /\ image = Default
  BY DEF Volatile
<1>2. \A c \in Callers : caller[c].op = "none" /\ caller[c].at = "none"
  BY DEF Volatile, Idle
<1> QED
  BY <1>1, <1>2 DEF Orderly, RequestsOwned, AnswerOwned, OneAsked, OneCalls, Unanswered, Shows,
     NoneAdjusts, Going

LEMMA ServedKept ==
  ASSUME TypeOK, AtWork, Served, [Next]_vars
  PROVE  Served'
<1> SUFFICES ASSUME ~ disturbed' PROVE Orderly'
  BY DEF Served
<1>1. CASE IoStep \/ TickStep
  <2>1. UNCHANGED userVars
    BY <1>1 DEF IoStep, LoadTable, LoadFails, CopyDefault, Reload, InnerRead, InnerWrite, LockTimer,
       InnerWriteArms, InnerWriteFails, RenameOld, OpenNew, save_vtk_table_file_buffer, ClearFlag,
       StopSaveTimer, SaveEnds, IoGoes, TickStep, Ticks, SaveIoDataTimerCallback, CallbackLocks,
       CallbackEnds
  <2>2. Orderly
    BY <2>1 DEF Served, userVars
  <2> QED
    BY <1>1, <2>2, IoOrderly, TickOrderly
<1>2. CASE CallerStep
  <2>1. ~ disturbed
    <3>1. disturbed => disturbed'
      BY <1>2, Zenon DEF CallerStep, API_LoadImagePara, ScreenAdjust, Begins, Call, TakeAnswer,
         WaitTimesOut
    <3> QED
      BY <3>1
  <2> QED
    BY <1>2, <2>1, CallerOrderly DEF Served
<1>3. CASE Crash
  <2>1. Volatile'
    BY <1>3 DEF Crash, Volatile, init_mul_timer, TickWaits, At, add_a_timer
  <2> QED
    BY <2>1, FreshOrderly, PTL
<1>4. CASE UNCHANGED vars
  <2>1. UNCHANGED <<userVars, requests, answers, table, booting>> /\ Orderly
    BY <1>4 DEF vars, userVars, Served
  <2> QED
    BY <2>1, StillOrderly
<1> QED
  BY <1>1, <1>2, <1>3, <1>4 DEF Next
-----------------------------------------------------------------------------
(* The invariant, and what follows from it.                                *)
Inv == TypeOK /\ AtWork /\ Saved /\ Served

LEMMA Always == Spec => []Inv
<1>1. Init => Inv
  <2> SUFFICES ASSUME Init PROVE Inv
    OBVIOUS
  <2>1. TypeOK
    BY InitTyped
  <2>2. AtWork /\ Saved
    BY DEF Init, Volatile, AtWork, Saved, Synced
  <2>3. Served
    BY FreshOrderly DEF Init, Served
  <2> QED
    BY <2>1, <2>2, <2>3 DEF Inv
<1>2. Inv /\ [Next]_vars => Inv'
  <2> SUFFICES ASSUME Inv, [Next]_vars PROVE Inv'
    OBVIOUS
  <2>1. TypeOK'
    <3>1. CASE UNCHANGED vars
      BY <3>1 DEF Inv, vars, TypeOK, TimerTypeOK
    <3> QED
      BY <3>1, IoTypes, TickTypes, CallerTypes, CrashTypes DEF Inv, Next
  <2> QED
    BY <2>1, WorkKept, SavedKept, ServedKept DEF Inv
<1> QED
  BY <1>1, <1>2, PTL DEF Spec

(* Every queue, file and table holds what the code's types say, the        *)
(* server's queue never more than its length, and the file that the system *)
(* shows is always one of those a power failure may leave.                 *)
THEOREM IoTypeCorrect == Spec => []TypeOK
<1>1. Inv => TypeOK
  BY DEF Inv
<1> QED
  BY <1>1, Always, PTL

(* WaitForBusinessACK takes the oldest answer, whoever asked for it: as    *)
(* long as no wait has timed out and no two threads used the server at     *)
(* once, that is the answer to the call that takes it.                     *)
THEOREM AnswersAreOwn == Spec => []OwnAnswer
<1>1. Inv => OwnAnswer
  <2> SUFFICES ASSUME Inv, NEW c \in Callers, ~ disturbed, caller[c].at = "wait", answers # <<>>
               PROVE  Head(answers).ticket = caller[c].ticket /\ Matches(c)
    BY DEF OwnAnswer
  <2>1. Told(c, Head(answers)) /\ Matches(c)
    BY TakesOwn DEF Inv, Served
  <2> QED
    BY <2>1 DEF Told
<1> QED
  BY <1>1, Always, PTL

(* With the flag clear and no save at work, whatever the disk may hold     *)
(* loads as the table in memory: SaveIoDataTable clears mustSaveFlag only  *)
(* after the new file is written, and the dispatcher syncs before it takes *)
(* the next message.  The save of load_io_data_table is not synced: until  *)
(* the next one only the file the system shows can be relied on.           *)
THEOREM SavedIsDurable == Spec => []SavedMeansDurable
<1>1. Inv => SavedMeansDurable
  <2> SUFFICES ASSUME Inv, io = "idle", ~ mustSave
               PROVE  \A c \in IF corrected THEN {file} ELSE disk : Loadable(c) /\ Parsed(c) = table
    BY DEF SavedMeansDurable, Inv
  <2>1. AsTable /\ (corrected \/ Synced)
    BY DEF Inv, Saved
  <2> QED
    BY <2>1 DEF AsTable, Synced
<1> QED
  BY <1>1, Always, PTL

(* Between operations that nothing disturbed the picture (imagePara) is as *)
(* the server's table says, unless it is as it was after power-on.         *)
THEOREM PictureAgrees == Spec => []ImageAgrees
<1>1. Inv => ImageAgrees
  <2> SUFFICES ASSUME Inv, ~ disturbed, \A c \in Callers : caller[c].op = "none", image # Default
               PROVE  \A p \in DOMAIN table : table[p] = image[p]
    BY DEF ImageAgrees
  <2>1. Shows
    BY DEF Inv, Served, Orderly
  <2> QED
    BY <2>1 DEF Shows, NoneAdjusts
<1> QED
  BY <1>1, Always, PTL
=============================================================================
