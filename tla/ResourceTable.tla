--------------------------- MODULE ResourceTable ---------------------------
(***************************************************************************)
(* The table of downloaded resources (obj_ResourceTable.c), its file       *)
(* (obj_TableProcess.c), and the update that fills it (sys_msg_process.c,  *)
(* UpdateResourceTable in utility.c).                                      *)
(*                                                                         *)
(*   io      the parameter server's task loads and verifies the table when *)
(*           it starts.                                                    *)
(*   tick    the timer thread polls: what was modified long ago is saved.  *)
(*   survey  handles the update tool's messages, one after the other.      *)
(*                                                                         *)
(* A snapshot is the table file and the set of resource files; `disk` is   *)
(* the set of snapshots that a power failure may leave.                    *)
(***************************************************************************)
EXTENDS Integers, SequencesExt

CONSTANTS Offers,      \* <<rid, file>>: what the tool may send
          Firmware,    \* RID0000_FIRMWIRE
          Absent,
          ListMax,     \* files of one update
          MaxMsgs,     \* messages of the tool
          MaxMishaps   \* power failures and file operations that fail

Rids  == {o[1] : o \in Offers} \cup {Firmware}
Files == {o[2] : o \in Offers}

Records == [rid : Rids, file : Files, result : {0, 1}]

(* A table file: its header, its whole records in their order, and how it  *)
(* ends: with a line break, with a record that has all its fields but no   *)
(* line break, or with one that has not.                                   *)
OnFile == [header : BOOLEAN, recs : Seq(Records), end : {"line", "open", "torn"}]
Tables == {Absent} \cup OnFile

(* No file belongs to two resources.                                       *)
ASSUME ResourceAssumption ==
    /\ \A o, p \in Offers : o[2] = p[2] => o[1] = p[1]
    /\ Absent \notin OnFile
    /\ {ListMax, MaxMsgs, MaxMishaps} \subseteq Nat

VARIABLES
  loaded,    \* presource_table # NULL
  mem,       \* presource_table->precord
  add, pre,  \* modified_add_cnt, modified_pre_cnt
  aged,      \* the last modification is longer ago than RESOURCETB_FLUSH_TIME
  lock,      \* ResourceTb_Run.lock: its owner
  at,        \* where each thread is
  i,         \* the record that API_ResourceTb_Verify looks at
  now,       \* the snapshot the system shows: [table, here]
  disk,
  tftp,      \* files in the download directory
  list,      \* Updater_Run.resource_record
  item, old, \* survey's place in the list, prefilepath
  failed,    \* resources whose new file could not be moved in
  damaged,   \* an append went wrong, or behind a last line without its break
  early,     \* an update ran before io was done with loading and saving
  msgs, mishaps

tableVars  == <<loaded, mem, add, pre, aged>>
fileVars   == <<now, disk>>
updateVars == <<tftp, list, item, old, failed, early>>
boundVars  == <<msgs, mishaps>>
vars == <<loaded, mem, add, pre, aged, lock, at, i, now, disk, tftp, list, item, old, failed,
          damaged, early, msgs, mishaps>>

Threads == {"io", "tick", "survey"}

Whole(recs)  == [header |-> TRUE, recs |-> recs, end |-> "line"]
OpenAt(recs) == [header |-> TRUE, recs |-> recs, end |-> "open"]
TornAt(recs) == [header |-> TRUE, recs |-> recs, end |-> "torn"]
NoHeader     == [header |-> FALSE, recs |-> <<>>, end |-> "line"]

Nobody  == "nobody"

TypeOK == /\ {loaded, aged, damaged, early} \subseteq BOOLEAN
          /\ mem \in Seq(Records) /\ {add, pre} \subseteq Nat
          /\ lock \in Threads \cup {Nobody}
          /\ at \in [Threads -> {"load", "verify", "run", "flush", "append", "drop", "save",
                                 "end", "idle", "add", "remove", "move", "check", "firmware"}]
          /\ i \in Nat
          /\ now.table \in Tables /\ now.here \subseteq Files /\ now \in disk
          /\ tftp \subseteq Files /\ list \in Seq(Offers) /\ item \in Nat
          /\ old \in Files \cup {Absent} /\ failed \subseteq Rids
          /\ {msgs, mishaps} \subseteq Nat

Init == /\ loaded = FALSE /\ mem = <<>> /\ add = 0 /\ pre = 0 /\ aged = TRUE
        /\ lock = Nobody
        /\ at = [t \in Threads |-> IF t = "io" THEN "load" ELSE "idle"]
        /\ i = 1
        /\ now = [table |-> Absent, here |-> {}] /\ disk = {now}
        /\ tftp = {} /\ list = <<>> /\ item = 1 /\ old = Absent /\ failed = {}
        /\ damaged = FALSE /\ early = FALSE /\ msgs = 0 /\ mishaps = 0

Goes(t, to) == at' = [at EXCEPT ![t] = to]
Mishap      == mishaps < MaxMishaps /\ mishaps' = mishaps + 1 /\ UNCHANGED msgs
-----------------------------------------------------------------------------
(* The files.  Writing a table may stop anywhere: in its header, behind k  *)
(* records, just before the line break of the k-th, or in the next one.    *)
Becomes(n) == now' = n /\ disk' = disk \cup {n}
Sync       == disk' = {now} /\ UNCHANGED now

Cut(recs, new) ==
    {Whole(recs \o SubSeq(new, 1, k)) : k \in 0 .. Len(new)}
      \cup {OpenAt(recs \o SubSeq(new, 1, k)) : k \in 1 .. Len(new)}
      \cup {TornAt(recs \o SubSeq(new, 1, k)) : k \in 0 .. Len(new) - 1}

(* Records are appended to the last line, complete or not, and a line with *)
(* more fields than a record has is skipped like one with less: the first  *)
(* new record is usually lost behind a torn one, and behind an open one    *)
(* both are.                                                               *)
Behind(t, new) ==
    CASE t.end = "line" -> {[keeps |-> t.recs, adds |-> new]}
      [] t.end = "open" -> {[keeps |-> Front(t.recs), adds |-> Tail(new)]}
      [] t.end = "torn" -> {[keeps |-> t.recs, adds |-> w] : w \in {new, Tail(new)}}

(* save_vtk_table_file_buffer, when the file opens: a new file gets its    *)
(* header.  Behind a header that is not whole nothing is ever read.        *)
save_vtk_table_file_buffer(new) ==
    LET t == now.table
        Snap(x) == [now EXCEPT !.table = x]
    IN  IF t = Absent
        THEN /\ now' = Snap(Whole(new))
             /\ disk' = disk \cup {Snap(x) : x \in {NoHeader} \cup Cut(<<>>, new)}
        ELSE IF ~ t.header THEN UNCHANGED fileVars
        ELSE \E b \in Behind(t, new) :
               /\ now' = Snap(Whole(b.keeps \o b.adds))
               /\ disk' = disk \cup {Snap(x) : x \in Cut(b.keeps, b.adds)}

(* load_vtk_table_file skips a line that has not all its fields, and       *)
(* refuses a file without a record.                                        *)
Loaded(t) == IF t = Absent THEN <<>> ELSE t.recs
-----------------------------------------------------------------------------
(* Thread io, when it starts.                                              *)
API_Load_ResourceTable ==
    /\ at["io"] = "load"
    /\ loaded' = TRUE
    /\ mem' = Loaded(now.table)
    /\ add' = 0 /\ pre' = 0
    /\ Goes("io", IF mem' = <<>> THEN "run" ELSE "verify")
    /\ i' = 1
    /\ UNCHANGED <<aged, lock, fileVars, updateVars, damaged, boundVars>>

(* Seeded fault: the record behind a dropped one is not looked at.         *)
VerifySkips ==
    /\ at["io"] = "verify" /\ lock \in {Nobody, "io"}
    /\ IF i <= Len(mem)
       THEN /\ lock' = "io"
            /\ IF mem[i].file \in now.here
               THEN i' = i + 1 /\ UNCHANGED <<mem, pre>>
               ELSE /\ mem' = RemoveAt(mem, i)
                    /\ pre' = pre + 1
                    /\ i' = i + 1
            /\ UNCHANGED at
       ELSE /\ lock' = Nobody
            /\ Goes("io", IF pre > 0 THEN "flush" ELSE "run")
            /\ UNCHANGED <<mem, pre, i>>
    /\ UNCHANGED <<loaded, add, aged, fileVars, updateVars, damaged, boundVars>>

(* The whole of it happens under the lock.  A record whose file is missing *)
(* is dropped, and the table is saved at once.                             *)
API_ResourceTb_Verify ==
    /\ at["io"] = "verify" /\ lock \in {Nobody, "io"}
    /\ IF i <= Len(mem)
       THEN /\ lock' = "io"
            /\ IF mem[i].file \in now.here
               THEN i' = i + 1 /\ UNCHANGED <<mem, pre>>
               ELSE /\ mem' = RemoveAt(mem, i)
                    /\ pre' = pre + 1
                    /\ UNCHANGED i
            /\ UNCHANGED at
       ELSE /\ lock' = Nobody
            /\ Goes("io", IF pre > 0 THEN "flush" ELSE "run")
            /\ UNCHANGED <<mem, pre, i>>
    /\ UNCHANGED <<loaded, add, aged, fileVars, updateVars, damaged, boundVars>>
-----------------------------------------------------------------------------
(* API_ResourceTb_Flush_Process, by any of the threads.  It holds the lock *)
(* to its end; survey saves before and after it has looked at the records. *)
Returns(t) == CASE t = "io"   -> "run"
                [] t = "tick" -> "idle"
                [] t = "survey" -> IF item > Len(list) THEN "check" ELSE "firmware"

Unlocked(t) == lock' = Nobody /\ Goes(t, Returns(t))
InFlush     == UNCHANGED <<loaded, mem, aged, i, updateVars>>

(* Seeded fault: only changed records are a reason to save.                *)
FlushChangedOnly(t) ==
    /\ at[t] = "flush" /\ lock = Nobody
    /\ IF pre > 0 /\ (t # "tick" \/ aged)
       THEN /\ lock' = t
            /\ Goes(t, IF add > 0 /\ pre = 0 THEN "append" ELSE "drop")
       ELSE Unlocked(t)
    /\ InFlush
    /\ UNCHANGED <<add, pre, fileVars, damaged, boundVars>>

Flush(t) ==
    /\ at[t] = "flush" /\ lock = Nobody
    /\ IF add + pre > 0 /\ (t # "tick" \/ aged)
       THEN /\ lock' = t
            /\ Goes(t, IF add > 0 /\ pre = 0 THEN "append" ELSE "drop")
       ELSE Unlocked(t)
    /\ InFlush
    /\ UNCHANGED <<add, pre, fileVars, damaged, boundVars>>

(* Only additions: they are appended, and nobody looks at the result.      *)
Spoilt(t) == t # Absent /\ (t.header => t.end # "line")

FlushAppend(t) ==
    /\ at[t] = "append"
    /\ \/ /\ save_vtk_table_file_buffer(SubSeq(mem, Len(mem) - add + 1, Len(mem)))
          /\ damaged' = (damaged \/ Spoilt(now.table))
          /\ UNCHANGED boundVars
       \/ Mishap /\ damaged' = TRUE /\ UNCHANGED fileVars
    /\ Goes(t, "end")
    /\ InFlush
    /\ UNCHANGED <<add, pre, lock>>

(* Anything else: the file is removed and written again.                   *)
FlushDrop(t) ==
    /\ at[t] = "drop"
    /\ \/ /\ Becomes([now EXCEPT !.table = Absent])
          /\ Goes(t, "save")
          /\ UNCHANGED <<lock, boundVars>>
       \/ /\ now.table # Absent
          /\ Mishap
          /\ Unlocked(t)
          /\ UNCHANGED fileVars
    /\ InFlush
    /\ UNCHANGED <<add, pre, damaged>>

(* Seeded fault: the counts are reset although the file did not open.      *)
FlushSaveForgets(t) ==
    /\ at[t] = "save"
    /\ \/ /\ save_vtk_table_file_buffer(mem)
          /\ damaged' = FALSE
          /\ Goes(t, "end")
          /\ UNCHANGED <<add, pre, lock, boundVars>>
       \/ /\ Mishap
          /\ Unlocked(t)
          /\ add' = 0 /\ pre' = 0
          /\ UNCHANGED <<fileVars, damaged>>
    /\ InFlush

FlushSave(t) ==
    /\ at[t] = "save"
    /\ \/ /\ save_vtk_table_file_buffer(mem)
          /\ damaged' = FALSE
          /\ Goes(t, "end")
          /\ UNCHANGED <<lock, boundVars>>
       \/ /\ Mishap
          /\ Unlocked(t)
          /\ UNCHANGED <<fileVars, damaged>>
    /\ InFlush
    /\ UNCHANGED <<add, pre>>

(* Seeded fault: no sync.                                                  *)
FlushEndUnsynced(t) ==
    /\ at[t] = "end"
    /\ add' = 0 /\ pre' = 0
    /\ Unlocked(t)
    /\ InFlush
    /\ UNCHANGED <<fileVars, damaged, boundVars>>

FlushEnd(t) ==
    /\ at[t] = "end"
    /\ add' = 0 /\ pre' = 0
    /\ Sync
    /\ Unlocked(t)
    /\ InFlush
    /\ UNCHANGED <<damaged, boundVars>>

API_ResourceTb_Flush_Process(t) == \/ Flush(t) \/ FlushAppend(t) \/ FlushDrop(t)
                                   \/ FlushSave(t) \/ FlushEnd(t)

(* The timer thread polls.                                                 *)
ResourceTable_AutoSave_Timer_Callback ==
    /\ at["tick"] = "idle" /\ loaded
    /\ add + pre > 0 /\ aged    \* otherwise the poll changes nothing
    /\ Goes("tick", "flush")
    /\ UNCHANGED <<tableVars, lock, i, fileVars, updateVars, damaged, boundVars>>

(* An update takes far less than the ten minutes.                          *)
Age == /\ ~ aged /\ at["survey"] = "idle" /\ aged' = TRUE
       /\ UNCHANGED <<loaded, mem, add, pre, lock, at, i, fileVars, updateVars, damaged,
                      boundVars>>
-----------------------------------------------------------------------------
(* The operations on one record, each under the lock.                      *)
Index(rid) == SelectInSeq(mem, LAMBDA r : r.rid = rid)     \* 0 when there is none

Changed == pre' = pre + 1 /\ aged' = FALSE /\ UNCHANGED add

API_ResourceTb_AddOneRecord(rid, f) ==
    LET k == Index(rid)
        r == [rid |-> rid, file |-> f, result |-> 0]
    IN  IF k # 0
        THEN mem' = [mem EXCEPT ![k] = r] /\ Changed
        ELSE mem' = Append(mem, r) /\ add' = add + 1 /\ aged' = FALSE /\ UNCHANGED pre

API_Resource_HaveUpdated(rid) ==
    /\ Index(rid) # 0
    /\ mem' = [mem EXCEPT ![Index(rid)].result = 1]
    /\ Changed

API_ResourceTb_DelOneRecord(rid) ==
    /\ Index(rid) # 0
    /\ mem' = RemoveAt(mem, Index(rid))
    /\ Changed
-----------------------------------------------------------------------------
(* Thread survey: the messages of the tool.                                *)
Message == /\ at["survey"] = "idle" /\ msgs < MaxMsgs
           /\ msgs' = msgs + 1
           /\ UNCHANGED <<lock, i, fileVars, damaged, mishaps>>

DeviceVersion ==
    /\ Message
    /\ list' = <<>> /\ tftp' = {}
    /\ UNCHANGED <<tableVars, at, item, old, failed, early>>

(* A file that was not received is on the list all the same.               *)
DownloadStart(o) ==
    /\ Message
    /\ Len(list) < ListMax
    /\ list' = Append(list, o)
    /\ tftp' \in {tftp, tftp \cup {o[2]}}
    /\ UNCHANGED <<tableVars, at, item, old, failed, early>>

UpdateStart ==
    /\ Message
    /\ item' = 1
    /\ Goes("survey", IF list = <<>> THEN "flush" ELSE "add")
    /\ UNCHANGED <<tableVars, tftp, list, old, failed, early>>

(* Nothing in the gateway calls these two; they are part of the table.     *)
RecordUpdated(rid) ==
    /\ Message /\ loaded /\ lock = Nobody
    /\ \/ API_Resource_HaveUpdated(rid)
       \/ API_ResourceTb_DelOneRecord(rid)
    /\ UNCHANGED <<loaded, at, updateVars>>

(* UpdateResourceTable, for one file of the list after the other: the      *)
(* record, the old file, the new file.                                     *)
Here == list[item]

UpdateAdd ==
    /\ at["survey"] = "add" /\ lock = Nobody
    /\ IF loaded
       THEN /\ API_ResourceTb_AddOneRecord(Here[1], Here[2])
            /\ old' = IF Index(Here[1]) = 0 THEN Absent ELSE mem[Index(Here[1])].file
            /\ Goes("survey", "remove")
       ELSE Goes("survey", "idle") /\ UNCHANGED <<mem, add, pre, aged, old>>
    /\ early' = (early \/ at["io"] # "run")
    /\ UNCHANGED <<loaded, lock, i, fileVars, tftp, list, item, failed, damaged, boundVars>>

UpdateRemove ==
    /\ at["survey"] = "remove"
    /\ IF old = Absent THEN UNCHANGED fileVars
       ELSE Becomes([now EXCEPT !.here = @ \ {old}])
    /\ Goes("survey", "move")
    /\ UNCHANGED <<tableVars, lock, i, updateVars, damaged, boundVars>>

NextItem == /\ item' = item + 1
            /\ Goes("survey", IF item < Len(list) THEN "add" ELSE "flush")

UpdateMove ==
    /\ at["survey"] = "move"
    /\ IF Here[2] \in tftp
       THEN /\ Becomes([now EXCEPT !.here = @ \cup {Here[2]}])
            /\ tftp' = tftp \ {Here[2]}
            /\ failed' = failed \ {Here[1]}
            /\ NextItem
       ELSE /\ failed' = failed \cup {Here[1]}
            /\ Goes("survey", "idle")
            /\ UNCHANGED <<fileVars, tftp, item>>
    /\ UNCHANGED <<tableVars, lock, i, list, old, early, damaged, boundVars>>

(* UpdateFwAndResource: every resource must have a record; then a second   *)
(* flush.                                                                  *)
UpdateCheck ==
    /\ at["survey"] = "check" /\ lock = Nobody
    /\ \/ /\ \A k \in DOMAIN list : list[k][1] = Firmware \/ Index(list[k][1]) # 0
          /\ item' = 0
          /\ Goes("survey", "flush")
       \/ /\ \E k \in DOMAIN list : list[k][1] # Firmware /\ Index(list[k][1]) = 0
          /\ Goes("survey", "idle")
          /\ UNCHANGED item
    /\ UNCHANGED <<tableVars, lock, i, fileVars, tftp, list, old, failed, early, damaged,
                   boundVars>>

HasFirmware == Index(Firmware) # 0 /\ \E k \in DOMAIN list : list[k][1] = Firmware

(* The gateway starts again with the snapshot it finds.                    *)
Restart(snapshots) ==
    /\ now' \in snapshots /\ disk' = {now'}
    /\ loaded' = FALSE /\ mem' = <<>> /\ add' = 0 /\ pre' = 0 /\ aged' = TRUE
    /\ lock' = Nobody
    /\ at' = [t \in Threads |-> IF t = "io" THEN "load" ELSE "idle"]
    /\ i' = 1
    /\ list' = <<>> /\ item' = 1 /\ old' = Absent /\ failed' = {} /\ damaged' = FALSE
    /\ early' = FALSE
    /\ UNCHANGED tftp

(* start_updatefile_and_reboot unpacks the firmware and removes its file,  *)
(* whether it succeeds or not; only one that succeeds may reboot.          *)
WithoutFirmware == [now EXCEPT !.here = @ \ {mem[Index(Firmware)].file}]

UpdateFirmware ==
    /\ at["survey"] = "firmware" /\ lock = Nobody
    /\ \/ /\ IF HasFirmware THEN Becomes(WithoutFirmware) ELSE UNCHANGED fileVars
          /\ Goes("survey", "idle")
          /\ UNCHANGED <<tableVars, lock, i, updateVars, damaged>>
       \/ /\ HasFirmware /\ mem[Index(Firmware)].file \in now.here
          /\ Restart({WithoutFirmware})
    /\ UNCHANGED boundVars
-----------------------------------------------------------------------------
(* The power fails.                                                        *)
Crash == Mishap /\ Restart(disk)

IoStep     == API_Load_ResourceTable \/ API_ResourceTb_Verify
                \/ API_ResourceTb_Flush_Process("io")
TickStep   == ResourceTable_AutoSave_Timer_Callback \/ API_ResourceTb_Flush_Process("tick")
UpdateStep == \/ UpdateAdd \/ UpdateRemove \/ UpdateMove \/ UpdateCheck \/ UpdateFirmware
              \/ API_ResourceTb_Flush_Process("survey")
Messages   == \/ DeviceVersion \/ UpdateStart
              \/ \E o \in Offers : DownloadStart(o)
              \/ \E rid \in Rids : RecordUpdated(rid)

Next == IoStep \/ TickStep \/ UpdateStep \/ Age \/ Messages \/ Crash

(* The threads go on, and time does.                                       *)
Fairness == WF_vars(IoStep) /\ WF_vars(TickStep) /\ WF_vars(UpdateStep) /\ WF_vars(Age)

Spec == Init /\ [][Next]_vars /\ Fairness
-----------------------------------------------------------------------------
Loading == at["io"] \in {"load", "verify"}

(* While nobody is in a flush, and no append was spoilt, the records that  *)
(* are not counted as modified are in the file, in their order, whatever a *)
(* power failure makes of it (modified_add_cnt, modified_pre_cnt).         *)
TableOnDisk ==
    /\ TypeOK
    /\ lock = Nobody /\ ~ Loading /\ pre = 0 /\ ~ damaged =>
         \A d \in disk : Loaded(d.table) = SubSeq(mem, 1, Len(mem) - add)

(* Once an update is over, and the gateway did not just start, every       *)
(* record has its file, but for the firmware's and for those that the      *)
(* update could not move in.                                               *)
RecordsHaveFiles ==
    at["survey"] = "idle" /\ ~ Loading =>
      \A k \in DOMAIN mem : \/ mem[k].file \in now.here
                            \/ mem[k].rid \in failed \cup {Firmware}

(* When nothing waits to be saved and no update runs, a power failure      *)
(* loses no resource: record and file are both safe.  (An update that runs *)
(* while io still starts may have its record saved by io, before its file  *)
(* is there, and then finds nothing to save and to sync.)                  *)
CrashLosesNothing ==
    lock = Nobody /\ ~ Loading /\ ~ early /\ at["survey"] = "idle" /\ add + pre = 0 /\ ~ damaged =>
      \A d \in disk, k \in DOMAIN mem :
         mem[k].rid \notin failed \cup {Firmware} =>
           Contains(Loaded(d.table), mem[k]) /\ mem[k].file \in d.here

(* Whatever a power failure makes of the file, it loads as the table.      *)
AllSaved == add + pre = 0 /\ \A d \in disk : Loaded(d.table) = mem

(* What was modified is in the file in the end, and synced, without        *)
(* anybody asking and whatever saves failed before, unless the gateway     *)
(* starts again first.  With a record that was changed or removed the file *)
(* is written anew, which also mends a damaged one.  Records that were     *)
(* only added are appended, and the result is ignored: an append that      *)
(* fails, or meets a last line without its break, loses them, and no later *)
(* one knows (damaged).                                                    *)
ModifiedIsSaved == /\ (loaded /\ pre > 0) ~> (AllSaved \/ ~ loaded)
                   /\ (loaded /\ add > 0) ~> (AllSaved \/ damaged \/ ~ loaded)
=============================================================================
