----------------------------- MODULE IoServer -----------------------------
(***************************************************************************)
(* The parameter server (task_IoServer.c, vdp_IoServer_State.c) with its   *)
(* table file (obj_TableProcess.c), its save timer, and the threads that   *)
(* use it for the picture's parameters (obj_adjust.c).                     *)
(*                                                                         *)
(*   io      vdp_io_server_task: one message at a time from its queue; it  *)
(*           owns the table and does every file operation.                 *)
(*   tick    the timer thread, in SaveIoDataTimerCallback.                 *)
(*   caller  a thread that loads or adjusts the picture: it pushes a       *)
(*           request and waits for the answer.  All of them name the       *)
(*           debug unit as source, so they share its synchronous queue.    *)
(*                                                                         *)
(* A file is the sequence of its records; one that was cut off may end in  *)
(* a Torn record.  `disk` is the set of contents that the parameter file   *)
(* may turn out to have when the power fails now: sync() makes it the one  *)
(* the system shows (`file`).  The backup file is written, never read.     *)
(***************************************************************************)
EXTENDS MulTimer, Sequences

CONSTANTS Loader,      \* the encoder's thread, which loads the picture
          Adjuster,    \* the thread that adjusts it
          Params,      \* 1 .. number of picture parameters
          Top,         \* largest value of a parameter (9 in the code)
          Torn, Absent,
          QMax,        \* requests the server's queue holds
          Interval,    \* ticks of the save timer
          MaxOps,      \* operations of the callers
          MaxMishaps   \* crashes, time-outs and files that do not open

ASSUME IoAssumption == /\ Params \in Nat \ {0} /\ Top \in Nat
                       /\ Torn \notin Nat /\ Absent \notin Seq(Nat \cup {Torn})
                       /\ QMax \in Nat \ {0} /\ Interval \in Nat \ {0}
                       /\ {MaxOps, MaxMishaps} \subseteq Nat

VARIABLES
  requests,     \* vdp_io_server_mesg_queue; the head is in use while io works
  answers,      \* vdp_io_server_sync_queue of the debug unit
  io,           \* thread io: where it is
  booting,      \* io is in load_io_data_table
  corrected,    \* the last save was load_io_data_table's
  table,        \* ioProperty.pTable, the values in the file's order
  mustSave,     \* ioProperty.mustSaveFlag
  file, disk,
  caller,       \* threads: [op, at, p, ok, want, got, ticket]
  image,        \* imagePara
  calls,        \* tickets handed out
  disturbed,    \* a wait timed out or found no room, or two operations met
  orphan,       \* the callback has stopped the timer of an unsaved write
  ops, mishaps  \* how much of each bound is used

fileVars   == <<file, disk>>
bootVars   == <<booting, corrected>>
queueVars  == <<requests, answers>>
userVars   == <<caller, image, calls, disturbed, ops>>
vars == <<timer, tick, requests, answers, io, booting, corrected, table, mustSave, file, disk,
          caller, image, calls, disturbed, orphan, ops, mishaps>>

Callers   == {Loader, Adjuster}
SaveTimer == 1
Vals      == 0 .. Top
Image     == [1 .. Params -> Vals]
Default   == [p \in 1 .. Params |-> 0]
Contents  == {Absent} \cup UNION {[1 .. k -> Vals \cup {Torn}] : k \in 0 .. Params}

Requests == [type : {"READ", "WRITE"}, p : 1 .. Params, v : Vals, ticket : Nat]
              \cup [type : {"SAVE"}]
Answers  == [type : {"READ", "WRITE"}, result : {0, -1}, v : Vals, ticket : Nat]

(* Between two operations a thread is at "none".                           *)
Idle == [op |-> "none", at |-> "none", p |-> 1, ok |-> TRUE, want |-> Default,
         got |-> Default, ticket |-> 0]

TypeOK == /\ TimerTypeOK
          /\ requests \in Seq(Requests) /\ Len(requests) <= QMax
          /\ answers \in Seq(Answers)
          /\ io \in {"load", "copy", "reload", "idle", "arm", "start", "save", "open",
                     "write", "clear", "disarm", "stop", "sync"}
          /\ {booting, corrected, mustSave} \subseteq BOOLEAN
          /\ table \in UNION {[1 .. k -> Vals] : k \in 0 .. Params}
          /\ file \in Contents /\ disk \subseteq Contents /\ file \in disk
          /\ caller \in [Callers -> [op : {"none", "load", "adjust"},
                                     at : {"none", "call", "wait"},
                                     p : 1 .. Params, ok : BOOLEAN,
                                     want : Image, got : Image, ticket : Nat]]
          /\ image \in Image /\ calls \in Nat
          /\ disturbed \in BOOLEAN /\ orphan \in BOOLEAN
          /\ {ops, mishaps} \subseteq Nat

Volatile == /\ requests = <<>> /\ answers = <<>>
            /\ io = "load" /\ booting = TRUE /\ corrected = FALSE
            /\ table = <<>>
            /\ mustSave = FALSE
            /\ timer = [i \in 1 .. TimerCnt |-> add_a_timer(Interval)]
            /\ init_mul_timer
            /\ caller = [c \in Callers |-> Idle]
            /\ image = Default
            /\ disturbed = FALSE /\ orphan = FALSE

(* A factory-fresh gateway: there is no parameter file yet.                *)
Init == /\ Volatile
        /\ file = Absent /\ disk = {Absent}
        /\ calls = 0 /\ ops = 0 /\ mishaps = 0

Mishap == mishaps < MaxMishaps /\ mishaps' = mishaps + 1

(* A push to a full queue is refused, and nobody looks at the result.      *)
Push(m) == requests' = IF Len(requests) < QMax THEN Append(requests, m) ELSE requests
-----------------------------------------------------------------------------
(* The disk.  What a file that is being written may hold after a power     *)
(* failure: its first records, the next one perhaps torn.                  *)
Prefixes(t) == {SubSeq(t, 1, k) : k \in 0 .. Len(t)}
                 \cup {Append(SubSeq(t, 1, k), Torn) : k \in 0 .. Len(t) - 1}

Becomes(c)  == file' = c /\ disk' = disk \cup {c}
Written(t)  == file' = t /\ disk' = disk \cup Prefixes(t)
Sync        == disk' = {file} /\ UNCHANGED file

(* load_vtk_table_file fails on a file without a record.                   *)
Faulty(c)   == c = <<>>
Loadable(c) == c # Absent /\ ~ Faulty(c)

(* A torn hexadecimal number reads as 0, or has no value field left.       *)
Parsed(c)   == [k \in DOMAIN c |-> IF c[k] = Torn THEN 0 ELSE c[k]]
IsTorn(c)   == \E k \in DOMAIN c : c[k] = Torn
-----------------------------------------------------------------------------
(* Thread io, starting.  A record without a value gets its default and is  *)
(* saved at once, without a sync.                                          *)
LoadTable ==
    /\ io = "load" /\ Loadable(file)
    /\ table' = Parsed(file)
    /\ mustSave' \in IF IsTorn(file) THEN BOOLEAN ELSE {FALSE}
    /\ corrected' = mustSave'
    /\ io' = "save"
    /\ UNCHANGED <<timerVars, queueVars, userVars, booting, fileVars, orphan, mishaps>>

LoadFails ==
    /\ io = "load" /\ ~ Loadable(file)
    /\ io' = "copy"
    /\ UNCHANGED <<timerVars, queueVars, userVars, bootVars, table, mustSave, fileVars,
                   orphan, mishaps>>

(* cp of the table of defaults, which nobody ever writes; then sync.       *)
CopyDefault ==
    /\ io = "copy"
    /\ Written(Default)
    /\ io' = "reload"
    /\ UNCHANGED <<timerVars, queueVars, userVars, bootVars, table, mustSave, orphan, mishaps>>

Reload ==
    /\ io = "reload"
    /\ Sync
    /\ table' = Default
    /\ booting' = FALSE
    /\ io' = "idle"
    /\ UNCHANGED <<timerVars, queueVars, userVars, corrected, mustSave, orphan, mishaps>>

(* The message loop.  The message stays in the queue until it is purged.   *)
Msg      == Head(requests)
Finish   == requests' = Tail(requests) /\ io' = "idle"
Found(m) == m.p \in DOMAIN table
Answer(m) == [type |-> m.type, ticket |-> m.ticket,
              result |-> IF Found(m) THEN 0 ELSE -1,
              v |-> IF Found(m) THEN table[m.p] ELSE 0]

(* Seeded fault: the answer is queued twice.                               *)
RespondTwice == /\ answers' = answers \o <<Answer(Msg), Answer(Msg)>>
                /\ Finish

ReadWritelocalResponse == /\ answers' = Append(answers, Answer(Msg))
                          /\ Finish

InnerRead ==
    /\ io = "idle" /\ requests # <<>> /\ Msg.type = "READ"
    /\ ReadWritelocalResponse
    /\ UNCHANGED <<timerVars, userVars, bootVars, table, mustSave, fileVars, orphan, mishaps>>

InnerWrite ==
    /\ io = "idle" /\ requests # <<>> /\ Msg.type = "WRITE" /\ Found(Msg)
    /\ table' = [table EXCEPT ![Msg.p] = Msg.v]
    /\ mustSave' = TRUE
    /\ io' = "arm"
    /\ UNCHANGED <<timerVars, queueVars, userVars, bootVars, fileVars, orphan, mishaps>>

(* io takes the lock of the timer that it starts or stops next.            *)
LockTimer ==
    /\ io \in {"arm", "disarm"}
    /\ Lock(SaveTimer)
    /\ io' = IF io = "arm" THEN "start" ELSE "stop"
    /\ UNCHANGED <<tick, queueVars, userVars, bootVars, table, mustSave, fileVars, orphan,
                   mishaps>>

InnerWriteArms ==
    /\ io = "start"
    /\ start_a_timer(SaveTimer)
    /\ orphan' = FALSE
    /\ ReadWritelocalResponse
    /\ UNCHANGED <<tick, userVars, bootVars, table, mustSave, fileVars, mishaps>>

InnerWriteFails ==
    /\ io = "idle" /\ requests # <<>> /\ Msg.type = "WRITE" /\ ~ Found(Msg)
    /\ ReadWritelocalResponse
    /\ UNCHANGED <<timerVars, userVars, bootVars, table, mustSave, fileVars, orphan, mishaps>>
-----------------------------------------------------------------------------
(* SaveIoDataTable: rename the old file away, write the new one, clear the *)
(* flag, stop the timer.                                                   *)
IoGoes(to) == /\ io' = to
              /\ UNCHANGED <<timerVars, queueVars, userVars, bootVars, table, orphan>>

SaveAtHand == \/ io = "save"
              \/ io = "idle" /\ requests # <<>> /\ Msg.type = "SAVE"

RenameOld ==
    /\ SaveAtHand
    /\ IF ~ mustSave THEN IoGoes("clear") /\ UNCHANGED fileVars
       ELSE IF file = Absent THEN IoGoes("sync") /\ UNCHANGED fileVars
       ELSE IoGoes("open") /\ Becomes(Absent)
    /\ UNCHANGED <<mustSave, mishaps>>

OpenNew ==
    /\ io = "open"
    /\ \/ IoGoes("write") /\ Becomes(<<>>) /\ UNCHANGED mishaps
       \/ /\ Mishap
          /\ IoGoes("sync")
          /\ UNCHANGED fileVars
    /\ UNCHANGED mustSave

save_vtk_table_file_buffer ==
    /\ io = "write"
    /\ Written(table)
    /\ IoGoes("clear")
    /\ UNCHANGED <<mustSave, mishaps>>

ClearFlag ==
    /\ io = "clear"
    /\ mustSave' = FALSE
    /\ IoGoes("disarm")
    /\ UNCHANGED <<fileVars, mishaps>>

StopSaveTimer ==
    /\ io = "stop"
    /\ stop_a_timer(SaveTimer)
    /\ io' = "sync"
    /\ UNCHANGED <<tick, queueVars, userVars, bootVars, table, mustSave, fileVars, orphan,
                   mishaps>>

(* Seeded fault: the dispatcher does not sync.                             *)
SaveUnsynced ==
    /\ io = "sync"
    /\ requests' = IF booting THEN requests ELSE Tail(requests)
    /\ booting' = FALSE
    /\ corrected' = (corrected /\ booting)
    /\ io' = "idle"
    /\ UNCHANGED <<timerVars, answers, userVars, table, mustSave, fileVars, orphan, mishaps>>

(* The dispatcher syncs after a save that a message asked for, and         *)
(* load_io_data_table does not.                                            *)
SaveEnds ==
    /\ io = "sync"
    /\ IF booting THEN UNCHANGED <<requests, fileVars>>
       ELSE requests' = Tail(requests) /\ Sync
    /\ booting' = FALSE
    /\ corrected' = (corrected /\ booting)
    /\ io' = "idle"
    /\ UNCHANGED <<timerVars, answers, userVars, table, mustSave, orphan, mishaps>>

IoStep == \/ LoadTable \/ LoadFails \/ CopyDefault \/ Reload
          \/ InnerRead \/ InnerWrite \/ LockTimer \/ InnerWriteArms \/ InnerWriteFails
          \/ RenameOld \/ OpenNew \/ save_vtk_table_file_buffer
          \/ ClearFlag \/ StopSaveTimer \/ SaveEnds
-----------------------------------------------------------------------------
(* Thread tick.  The callback reads the flag, and acts on it a step later. *)
Ticks == /\ signal_func
         /\ UNCHANGED <<queueVars, userVars, io, bootVars, table, mustSave, fileVars,
                        orphan, mishaps>>

(* Seeded fault: the timer is not started again: one attempt to save.      *)
CallbackOnce ==
    /\ tick.at = "callback"
    /\ IF mustSave THEN Push([type |-> "SAVE"]) /\ CallbackReturns
       ELSE TickGoes("stop", tick.i) /\ UNCHANGED requests
    /\ UNCHANGED <<timer, answers, userVars, io, bootVars, table, mustSave, fileVars,
                   orphan, mishaps>>

SaveIoDataTimerCallback ==
    /\ tick.at = "callback"
    /\ IF mustSave THEN Push([type |-> "SAVE"]) /\ TickGoes("again", tick.i)
       ELSE TickGoes("stop", tick.i) /\ UNCHANGED requests
    /\ UNCHANGED <<timer, answers, userVars, io, bootVars, table, mustSave, fileVars,
                   orphan, mishaps>>

CallbackLocks ==
    /\ \/ tick.at = "again" /\ TickGoes("starts", tick.i)
       \/ tick.at = "stop"  /\ TickGoes("stops", tick.i)
    /\ Lock(tick.i)
    /\ UNCHANGED <<queueVars, userVars, io, bootVars, table, mustSave, fileVars, orphan,
                   mishaps>>

CallbackEnds ==
    /\ \/ tick.at = "starts" /\ start_a_timer(tick.i) /\ UNCHANGED orphan
       \/ tick.at = "stops"  /\ stop_a_timer(tick.i) /\ orphan' = mustSave
    /\ CallbackReturns
    /\ UNCHANGED <<queueVars, userVars, io, bootVars, table, mustSave, fileVars, mishaps>>

TickStep == Ticks \/ SaveIoDataTimerCallback \/ CallbackLocks \/ CallbackEnds
-----------------------------------------------------------------------------
(* The threads that use the server.  A load reads every parameter and, if  *)
(* all answers are good, takes them over; if not, it takes the defaults.   *)
(* An adjustment steps one parameter, up or down and round at the ends,    *)
(* and writes them all as they were then.                                  *)
UserUnchanged == UNCHANGED <<timerVars, io, bootVars, table, mustSave, fileVars, orphan,
                             mishaps>>

Begins == disturbed' = (disturbed \/ \E d \in Callers : caller[d].op # "none")

API_LoadImagePara ==
    /\ caller[Loader].op = "none" /\ ops < MaxOps
    /\ ops' = ops + 1
    /\ caller' = [caller EXCEPT ![Loader] = [Idle EXCEPT !.op = "load", !.at = "call"]]
    /\ Begins
    /\ UNCHANGED <<queueVars, image, calls>>
    /\ UserUnchanged

Stepped(v, up) == (IF up THEN v + 1 ELSE v + Top) % (Top + 1)

(* Seeded fault: the values are taken before the step.                     *)
ScreenAdjustLate(p, up) ==
    /\ caller[Adjuster].op = "none" /\ ops < MaxOps
    /\ ops' = ops + 1
    /\ image' = [image EXCEPT ![p] = Stepped(@, up)]
    /\ caller' = [caller EXCEPT ![Adjuster] = [Idle EXCEPT !.op = "adjust", !.at = "call",
                                                           !.want = image]]
    /\ Begins
    /\ UNCHANGED <<queueVars, calls>>
    /\ UserUnchanged

ScreenAdjust(p, up) ==
    /\ caller[Adjuster].op = "none" /\ ops < MaxOps
    /\ ops' = ops + 1
    /\ image' = [image EXCEPT ![p] = Stepped(@, up)]
    /\ caller' = [caller EXCEPT ![Adjuster] = [Idle EXCEPT !.op = "adjust", !.at = "call",
                                                           !.want = image']]
    /\ Begins
    /\ UNCHANGED <<queueVars, calls>>
    /\ UserUnchanged

Request(c) == IF caller[c].op = "load"
              THEN [type |-> "READ", p |-> caller[c].p, v |-> 0, ticket |-> calls + 1]
              ELSE [type |-> "WRITE", p |-> caller[c].p, v |-> caller[c].want[caller[c].p],
                    ticket |-> calls + 1]

(* API_io_server_read_local and API_io_server_write_local: the result of   *)
(* the push is not looked at.                                              *)
Call(c) ==
    /\ caller[c].at = "call"
    /\ calls' = calls + 1
    /\ Push(Request(c))
    /\ caller' = [caller EXCEPT ![c].at = "wait", ![c].ticket = calls + 1]
    /\ disturbed' = (disturbed \/ Len(requests) >= QMax)
    /\ UNCHANGED <<answers, image, ops>>
    /\ UserUnchanged

(* The end of one call with value v and result ok.                         *)
Goes(c, ok, v) ==
    LET k    == caller[c]
        good == k.ok /\ ok
        got  == [k.got EXCEPT ![k.p] = v]
    IN  IF k.p < Params
        THEN /\ caller' = [caller EXCEPT ![c].at = "call", ![c].p = k.p + 1,
                                         ![c].ok = good, ![c].got = got]
             /\ UNCHANGED image
        ELSE /\ caller' = [caller EXCEPT ![c] = Idle]
             /\ image' = IF k.op = "load" THEN (IF good THEN got ELSE Default) ELSE image

(* WaitForBusinessACK takes the oldest answer, whoever asked for it; one   *)
(* of the other type is thrown away.                                       *)
Matches(c) == Head(answers).type = (IF caller[c].op = "load" THEN "READ" ELSE "WRITE")

TakeAnswer(c) ==
    /\ caller[c].at = "wait" /\ answers # <<>>
    /\ answers' = Tail(answers)
    /\ Goes(c, Matches(c) /\ Head(answers).result = 0, Head(answers).v)
    /\ UNCHANGED <<requests, calls, disturbed, ops>>
    /\ UserUnchanged

WaitTimesOut(c) ==
    /\ caller[c].at = "wait" /\ answers = <<>>
    /\ Mishap
    /\ disturbed' = TRUE
    /\ Goes(c, FALSE, 0)
    /\ UNCHANGED <<queueVars, calls, ops, timerVars, io, bootVars, table, mustSave, fileVars,
                   orphan>>

CallerStep == \/ API_LoadImagePara
              \/ \E p \in 1 .. Params, up \in BOOLEAN : ScreenAdjust(p, up)
              \/ \E c \in Callers : Call(c) \/ TakeAnswer(c) \/ WaitTimesOut(c)
-----------------------------------------------------------------------------
(* The power fails, and the gateway starts again.                          *)
Crash == /\ Mishap
         /\ file' \in disk
         /\ disk' = {file'}
         /\ requests' = <<>> /\ answers' = <<>>
         /\ io' = "load" /\ booting' = TRUE /\ corrected' = FALSE
         /\ table' = <<>> /\ mustSave' = FALSE
         /\ timer' = [i \in 1 .. TimerCnt |-> add_a_timer(Interval)]
         /\ tick' = TickWaits
         /\ caller' = [c \in Callers |-> Idle]
         /\ image' = Default
         /\ disturbed' = FALSE /\ orphan' = FALSE
         /\ UNCHANGED <<calls, ops>>

Next == IoStep \/ TickStep \/ Crash \/ CallerStep

(* The server's task and the timer thread never stop.  The timer thread    *)
(* has a timer's lock for a moment every 25 ms, so io gets it.             *)
Spec == Init /\ [][Next]_vars /\ SF_vars(IoStep) /\ WF_vars(TickStep)
-----------------------------------------------------------------------------
(* As long as no wait has timed out, no request was refused and no two     *)
(* threads used the server at once, every answer goes to the call it       *)
(* answers: WaitForBusinessACK (task_survey.c:94) tells answers apart by   *)
(* nothing but their type.                                                 *)
OwnAnswer ==
    \A c \in Callers :
       ~ disturbed /\ caller[c].at = "wait" /\ answers # <<>>
         => /\ Head(answers).ticket = caller[c].ticket
            /\ Matches(c)

(* With the flag clear and no save at work, a power failure loses nothing: *)
(* whatever the disk may hold then loads as the table in memory.  The save *)
(* of load_io_data_table itself is not synced, and only the system's view  *)
(* of the file can be relied on.                                           *)
SavedMeansDurable ==
    /\ TypeOK
    /\ io = "idle" /\ ~ mustSave =>
         \A c \in IF corrected THEN {file} ELSE disk : Loadable(c) /\ Parsed(c) = table

(* Between operations that met no disturbance the picture is adjusted as   *)
(* the server's table says, unless it is as it was after power-on.         *)
ImageAgrees ==
    ~ disturbed /\ (\A c \in Callers : caller[c].op = "none") /\ image # Default
      => \A p \in DOMAIN table : table[p] = image[p]

(* A value that was written is saved, although the timer's second unlock   *)
(* may undo its start (mul_timer.c:160), unless the callback stopped the   *)
(* timer behind the write's back or the old file is gone and no new one    *)
(* could be opened: then every later rename fails.                         *)
SavedUnlessLost ==
    mustSave ~> (~ mustSave \/ orphan \/ file = Absent)
=============================================================================
