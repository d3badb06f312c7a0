------------------------ MODULE ResourceTable_proofs ------------------------
(***************************************************************************)
(* Proofs about ResourceTable, for any offers, any number of messages and  *)
(* of mishaps: what the counts of modifications say about the file, that   *)
(* no record is without its resource, and what a power failure may take.   *)
(*                                                                         *)
(* Three threads share the table.  Places says where each can be and who   *)
(* owns the lock there.  Saved is what the counts promise: unless a record *)
(* was changed (pre), each snapshot that a power failure may leave has all *)
(* records but the last `add`; at the end of a save the file has them all, *)
(* although not yet on the disk.  That an append may follow needs Apart:   *)
(* no resource has two records, in memory or in a file, and those in the   *)
(* file are among the ones that were saved.                                *)
(*                                                                         *)
(* Kept says which records may be without their file: the one that survey  *)
(* works on, and those io has not yet verified.  Removing a file hurts no  *)
(* other record, since it belongs to one resource (Genuine).  Unless an    *)
(* update met io while it starts (early), survey moves files only while    *)
(* the table counts as modified and nobody can save it (Alone); so what is *)
(* saved was synced with its file (Safe).                                  *)
(***************************************************************************)
EXTENDS ResourceTable, SequenceTheorems, FiniteSetTheorems, TLAPS

Working   == {"append", "drop", "save", "end"}
Snapshots == [table : Tables, here : SUBSET Files]

(* Where the threads are.                                                  *)
Places ==
    /\ at["io"] \in {"load", "verify", "run", "flush"} \cup Working
    /\ at["tick"] \in {"idle", "flush"} \cup Working
    /\ at["survey"] \in {"idle", "add", "remove", "move", "check", "firmware", "flush"}
                          \cup Working
    /\ \A t \in Threads : at[t] \in Working => lock = t
    /\ lock \in Threads => at[lock] \in Working \/ (lock = "io" /\ at["io"] = "verify")
    /\ at["io"] = "verify" /\ lock # "io" => i = 1
    /\ at["io"] = "verify" => i \in Nat \ {0}
    /\ at["survey"] \in {"add", "remove", "move"} => item \in 1 .. Len(list)

(* Until the table is loaded.                                              *)
Fresh ==
    /\ loaded = (at["io"] # "load")
    /\ ~ loaded => /\ disk = {now} /\ mem = <<>> /\ add = 0 /\ pre = 0
                   /\ at["tick"] = "idle"
                   /\ at["survey"] \in {"idle", "add", "flush", "check", "firmware"}

(* What the places say about the counts and the file.                      *)
Counts ==
    /\ \A t \in Threads : /\ at[t] \in {"drop", "save"} => pre > 0
                          /\ at[t] = "save" => now.table = Absent
                          /\ at[t] = "append" => add > 0 /\ pre = 0
    /\ pre = 0 => add <= Len(mem)

Typed == TypeOK /\ disk \subseteq Snapshots /\ Places /\ Fresh /\ Counts

Ending == \E t \in Threads : at[t] = "end"
Saving == SubSeq(mem, 1, Len(mem) - add)

(* The file has what was not modified.                                     *)
Saved ==
    /\ loaded /\ pre = 0 /\ ~ damaged /\ ~ Ending => \A d \in disk : Loaded(d.table) = Saving
    /\ Ending /\ ~ damaged => Loaded(now.table) = mem

(* No resource has two records.                                            *)
Once(recs)      == \A j, k \in 1 .. Len(recs) : recs[j].rid = recs[k].rid => j = k
Within(recs, s) == \A j \in 1 .. Len(recs) : \E k \in 1 .. Len(s) : recs[j].rid = s[k].rid

Apart ==
    /\ Once(mem)
    /\ \A d \in disk : Once(Loaded(d.table))
    /\ loaded /\ pre = 0 /\ ~ Ending => Within(Loaded(now.table), Saving)
    /\ Ending => Within(Loaded(now.table), mem)

(* What a file is the file of.                                             *)
Of(rid, f)    == \E o \in Offers : o[1] = rid /\ o[2] = f
Offered(recs) == \A k \in 1 .. Len(recs) : Of(recs[k].rid, recs[k].file)

Genuine == Offered(mem) /\ \A d \in disk : Offered(Loaded(d.table))

Filed == Saved /\ Apart /\ Genuine

(* The record that survey works on, and those that io has to look at.      *)
Moving == at["survey"] \in {"remove", "move"}

Excused(r)  == r.rid \in failed \cup {Firmware}
Pending(k)  == \/ Moving /\ mem[k].rid = Here[1]
               \/ at["io"] = "verify" /\ k >= i

Kept ==
    /\ \A k \in 1 .. Len(mem) : mem[k].file \in now.here \/ Excused(mem[k]) \/ Pending(k)
    /\ Moving => \A k \in 1 .. Len(mem) : mem[k].rid = Here[1] => mem[k].file = Here[2]
    /\ at["survey"] = "remove" /\ old # Absent => Of(Here[1], old)

(* Files move while nobody saves.                                          *)
Alone ==
    ~ early => /\ Moving => at["io"] = "run" /\ lock = Nobody /\ ~ aged /\ add + pre > 0
               /\ Loading => \A d \in disk : d.here = now.here
               /\ at["io"] # "run" => at["survey"] \in {"idle", "add"} \/ list = <<>>

Safe ==
    ~ early /\ ~ Loading /\ add + pre = 0 =>
      \A k \in 1 .. Len(mem) : Excused(mem[k]) \/ \A d \in disk : mem[k].file \in d.here

Inv == Typed /\ Filed /\ Kept /\ Alone /\ Safe
-----------------------------------------------------------------------------
(* The sequences.                                                          *)

(* A set of natural numbers that is not empty has a least one: of its      *)
(* prefixes 1 .. n, which a strict subset orders, one has none below it.   *)
LEMMA LeastOf ==
  ASSUME NEW n \in Nat, NEW T \in SUBSET (1 .. n), T # {}
  PROVE  Min(T) \in T /\ \A k \in T : Min(T) <= k
<1> DEFINE Starts == {1 .. s : s \in T}
<1>1. Starts \subseteq FiniteSubsetsOf(1 .. n)
  BY FS_Interval DEF FiniteSubsetsOf
<1>2. PICK P \in Starts : \A Q \in Starts : ~(<<Q, P>> \in StrictSubsetOrdering(1 .. n))
  <2>1. Starts # {}
    OBVIOUS
  <2> HIDE DEF Starts
  <2> QED
    BY <1>1, <2>1, FS_Interval, FS_StrictSubsetOrderingWellFounded, WFMin
<1>3. PICK s \in T : P = 1 .. s
  OBVIOUS
<1>4. ASSUME NEW t \in T, t < s
      PROVE  FALSE
  <2>1. 1 .. t \in Starts /\ 1 .. t \subseteq 1 .. s /\ s \in 1 .. s /\ s \notin 1 .. t
    BY <1>4
  <2>2. <<1 .. t, 1 .. s>> \in StrictSubsetOrdering(1 .. n)
    BY <2>1, <1>1, <1>3 DEF StrictSubsetOrdering, FiniteSubsetsOf
  <2> QED
    BY <1>2, <1>3, <2>1, <2>2
<1>5. s \in T /\ \A t \in T : s <= t
  BY <1>4
<1> QED
  BY <1>5 DEF Min

(* The search for a resource finds the place of its record, or 0 when no   *)
(* record is of it.                                                        *)
LEMMA IndexFound ==
  ASSUME mem \in Seq(Records), NEW rid
  PROVE  /\ Index(rid) \in 0 .. Len(mem)
         /\ Index(rid) # 0 => mem[Index(rid)].rid = rid
         /\ Index(rid) = 0 => \A k \in 1 .. Len(mem) : mem[k].rid # rid
<1> DEFINE I == {k \in 1 .. Len(mem) : mem[k].rid = rid}
<1>1. Index(rid) = IF I # {} THEN Min(I) ELSE 0
  BY DEF Index, SelectInSeq
<1>2. Len(mem) \in Nat /\ I \in SUBSET (1 .. Len(mem))
  BY LenProperties
<1>3. I # {} => Min(I) \in I
  <2> HIDE DEF I
  <2> QED
    BY <1>2, LeastOf
<1> QED
  BY <1>1, <1>2, <1>3

(* What is left when one record is removed.                                *)
LEMMA Removed ==
  ASSUME NEW S, NEW s \in Seq(S), NEW n \in 1 .. Len(s)
  PROVE  /\ RemoveAt(s, n) \in Seq(S)
         /\ Len(RemoveAt(s, n)) = Len(s) - 1
         /\ \A k \in 1 .. Len(s) - 1 : RemoveAt(s, n)[k] = IF k < n THEN s[k] ELSE s[k + 1]
<1> DEFINE p == SubSeq(s, 1, n - 1)
           q == SubSeq(s, n + 1, Len(s))
<1>1. Len(s) \in Nat /\ \A k \in 1 .. Len(s) : s[k] \in S
  BY LenProperties, ElementOfSeq
<1>2. p \in Seq(S) /\ Len(p) = n - 1 /\ \A k \in 1 .. n - 1 : p[k] = s[k]
  <2>1. 1 \in Int /\ n - 1 \in Int /\ \A k \in 1 .. n - 1 : s[k] \in S
    BY <1>1
  <2> QED
    BY <2>1, SubSeqProperties
<1>3. q \in Seq(S) /\ Len(q) = Len(s) - n /\ \A k \in 1 .. Len(s) - n : q[k] = s[n + k]
  <2>1. n + 1 \in Int /\ Len(s) \in Int /\ \A k \in n + 1 .. Len(s) : s[k] \in S
    BY <1>1
  <2>2. /\ q \in Seq(S) /\ Len(q) = IF n + 1 <= Len(s) THEN Len(s) - (n + 1) + 1 ELSE 0
        /\ \A k \in 1 .. Len(s) - (n + 1) + 1 : q[k] = s[n + 1 + k - 1]
    BY <2>1, SubSeqProperties
  <2> QED
    BY <1>1, <2>2
<1>4. RemoveAt(s, n) = p \o q
  BY DEF RemoveAt
<1> HIDE DEF p, q
<1>5. /\ p \o q \in Seq(S) /\ Len(p \o q) = Len(p) + Len(q)
      /\ \A k \in 1 .. Len(p) + Len(q) : (p \o q)[k] = IF k <= Len(p) THEN p[k] ELSE q[k - Len(p)]
  BY <1>2, <1>3, ConcatProperties
<1> QED
  BY <1>1, <1>2, <1>3, <1>4, <1>5

(* The first n records, and the others.                                    *)
LEMMA Parts ==
  ASSUME NEW S, NEW s \in Seq(S), NEW n \in 0 .. Len(s)
  PROVE  /\ SubSeq(s, 1, n) \in Seq(S) /\ Len(SubSeq(s, 1, n)) = n
         /\ \A k \in 1 .. n : SubSeq(s, 1, n)[k] = s[k]
         /\ SubSeq(s, n + 1, Len(s)) \in Seq(S) /\ Len(SubSeq(s, n + 1, Len(s))) = Len(s) - n
         /\ \A k \in 1 .. Len(s) - n : SubSeq(s, n + 1, Len(s))[k] = s[n + k]
         /\ SubSeq(s, 1, n) \o SubSeq(s, n + 1, Len(s)) = s
<1>1. Len(s) \in Nat /\ \A k \in 1 .. Len(s) : s[k] \in S
  BY LenProperties, ElementOfSeq
<1>2. /\ SubSeq(s, 1, n) \in Seq(S) /\ Len(SubSeq(s, 1, n)) = n
      /\ \A k \in 1 .. n : SubSeq(s, 1, n)[k] = s[k]
  <2>1. 1 \in Int /\ n \in Int /\ \A k \in 1 .. n : s[k] \in S
    BY <1>1
  <2>2. /\ SubSeq(s, 1, n) \in Seq(S) /\ Len(SubSeq(s, 1, n)) = IF 1 <= n THEN n - 1 + 1 ELSE 0
        /\ \A k \in 1 .. n - 1 + 1 : SubSeq(s, 1, n)[k] = s[1 + k - 1]
    BY <2>1, SubSeqProperties
  <2> QED
    BY <1>1, <2>2
<1>3. /\ SubSeq(s, n + 1, Len(s)) \in Seq(S) /\ Len(SubSeq(s, n + 1, Len(s))) = Len(s) - n
      /\ \A k \in 1 .. Len(s) - n : SubSeq(s, n + 1, Len(s))[k] = s[n + k]
  <2>1. n + 1 \in Int /\ Len(s) \in Int /\ \A k \in n + 1 .. Len(s) : s[k] \in S
    BY <1>1
  <2> DEFINE q == SubSeq(s, n + 1, Len(s))
  <2>2. /\ q \in Seq(S) /\ Len(q) = IF n + 1 <= Len(s) THEN Len(s) - (n + 1) + 1 ELSE 0
        /\ \A k \in 1 .. Len(s) - (n + 1) + 1 : q[k] = s[n + 1 + k - 1]
    BY <2>1, SubSeqProperties
  <2> QED
    BY <1>1, <2>2
<1>4. SubSeq(s, 1, n) \o SubSeq(s, n + 1, Len(s)) = s
  <2>1. 1 \in 1 .. Len(s) + 1 /\ n \in 1 - 1 .. Len(s) /\ Len(s) \in n .. Len(s)
    BY <1>1
  <2> QED
    BY <2>1, ConcatAdjacentSubSeq, SubSeqFull
<1> QED
  BY <1>2, <1>3, <1>4

(* What a write that stopped has left of the records.                      *)
Start(p, s) == \E k \in 0 .. Len(s) : p = SubSeq(s, 1, k)

LEMMA StartOf ==
  ASSUME NEW S, NEW s \in Seq(S), NEW p, Start(p, s)
  PROVE  p \in Seq(S) /\ Len(p) \in 0 .. Len(s) /\ \A j \in 1 .. Len(p) : p[j] = s[j]
<1>1. PICK k \in 0 .. Len(s) : p = SubSeq(s, 1, k)
  BY DEF Start
<1> QED
  BY <1>1, Parts

LEMMA FrontIsStart ==
  ASSUME NEW S, NEW s \in Seq(S)
  PROVE  Front(s) \in Seq(S) /\ Start(Front(s), s)
<1>1. Len(s) \in Nat /\ Front(s) = SubSeq(s, 1, Len(s) - 1)
  BY LenProperties DEF Front
<1>2. CASE Len(s) = 0
  <2>1. SubSeq(s, 1, 0 - 1) = <<>> /\ SubSeq(s, 1, 0) = <<>>
    BY SubSeqEmpty
  <2> QED
    BY <1>1, <1>2, <2>1 DEF Start
<1>3. CASE Len(s) > 0
  <2>1. Len(s) - 1 \in 0 .. Len(s)
    BY <1>1, <1>3
  <2> QED
    BY <1>1, <2>1, Parts DEF Start
<1> QED
  BY <1>1, <1>2, <1>3

LEMMA StartOfConcat ==
  ASSUME NEW S, NEW s \in Seq(S), NEW w \in Seq(S), NEW k \in 0 .. Len(w)
  PROVE  Start(s \o SubSeq(w, 1, k), s \o w)
<1> DEFINE p == SubSeq(w, 1, k)
           a == s \o p
           b == SubSeq(s \o w, 1, Len(s) + k)
<1>1. p \in Seq(S) /\ Len(p) = k /\ \A j \in 1 .. k : p[j] = w[j]
  BY Parts
<1>2. Len(s) \in Nat /\ Len(w) \in Nat
  BY LenProperties
<1> HIDE DEF p
<1>3. /\ a \in Seq(S) /\ Len(a) = Len(s) + k
      /\ \A j \in 1 .. Len(s) + k : a[j] = IF j <= Len(s) THEN s[j] ELSE p[j - Len(s)]
  BY <1>1, ConcatProperties
<1>4. /\ s \o w \in Seq(S) /\ Len(s \o w) = Len(s) + Len(w)
      /\ \A j \in 1 .. Len(s) + Len(w) : (s \o w)[j] = IF j <= Len(s) THEN s[j] ELSE w[j - Len(s)]
  BY ConcatProperties
<1>5. Len(s) + k \in 0 .. Len(s \o w)
  BY <1>2, <1>4
<1>6. /\ b \in Seq(S) /\ Len(b) = Len(s) + k
      /\ \A j \in 1 .. Len(s) + k : b[j] = (s \o w)[j]
  BY <1>4, <1>5, Parts
<1> HIDE DEF a, b
<1>7. ASSUME NEW j \in 1 .. Len(s) + k
      PROVE  a[j] = b[j]
  <2>1. j \in 1 .. Len(s) + Len(w)
    BY <1>2
  <2>2. b[j] = IF j <= Len(s) THEN s[j] ELSE w[j - Len(s)]
    BY <1>4, <1>6, <2>1
  <2>3. j > Len(s) => j - Len(s) \in 1 .. k
    BY <1>2
  <2> QED
    BY <1>1, <1>2, <1>3, <2>2, <2>3
<1>8. a = b
  BY <1>3, <1>6, <1>7, SeqEqual
<1> QED
  BY <1>5, <1>8 DEF Start, a, b, p
-----------------------------------------------------------------------------
(* The operations.                                                         *)

(* What save_vtk_table_file_buffer makes of the file, and of the snapshots *)
(* that a power failure may leave: no resource file comes or goes, the new *)
(* table has the new records, or all but the first of them, behind its old *)
(* ones, or all but the last of those, and any other snapshot has a first  *)
(* part of it.                                                             *)
LEMMA WriteTable ==
  ASSUME now \in Snapshots, now \in disk, disk \subseteq Snapshots, NEW new \in Seq(Records),
         now.table = Absent \/ new # <<>>, save_vtk_table_file_buffer(new)
  PROVE  /\ now' \in Snapshots /\ disk' \subseteq Snapshots /\ now' \in disk'
         /\ now'.here = now.here
         /\ now'.table = Absent => now.table = Absent
         /\ \A d \in disk' : \/ d \in disk
                             \/ /\ d.here = now.here
                                /\ Start(Loaded(d.table), Loaded(now'.table))
         /\ now.table = Absent => Loaded(now'.table) = new
         /\ ~ Spoilt(now.table) => Loaded(now'.table) = Loaded(now.table) \o new
         /\ \/ now'.table = now.table
            \/ \E u \in {Loaded(now.table), Front(Loaded(now.table))}, w \in {new, Tail(new)} :
                 Loaded(now'.table) = u \o w
<1> DEFINE t == now.table
           Snap(x) == [now EXCEPT !.table = x]
<1>1. /\ t \in Tables /\ now.here \in SUBSET Files
      /\ \A x \in Tables : /\ Snap(x) \in Snapshots /\ Snap(x).here = now.here
                           /\ Snap(x).table = x
  BY DEF Snapshots
<1>2. ASSUME NEW s \in Seq(Records)
      PROVE  /\ {Whole(s), OpenAt(s), TornAt(s)} \subseteq OnFile
             /\ Loaded(Whole(s)) = s /\ Loaded(OpenAt(s)) = s /\ Loaded(TornAt(s)) = s
             /\ Whole(s) # Absent
  <2>1. {Whole(s), OpenAt(s), TornAt(s)} \subseteq OnFile
    BY DEF OnFile, Whole, OpenAt, TornAt
  <2>2. Whole(s) # Absent /\ OpenAt(s) # Absent /\ TornAt(s) # Absent
    BY <2>1, ResourceAssumption
  <2> QED
    BY <2>1, <2>2 DEF Whole, OpenAt, TornAt, Loaded
<1>3. <<>> \in Seq(Records)
  OBVIOUS
<1>4. NoHeader \in OnFile /\ Loaded(NoHeader) = <<>>
  BY <1>3, ResourceAssumption DEF OnFile, NoHeader, Loaded
<1>5. ASSUME NEW s \in Seq(Records), NEW w \in Seq(Records)
      PROVE  /\ s \o w \in Seq(Records)
             /\ \A x \in Cut(s, w) : x \in OnFile /\ Start(Loaded(x), s \o w)
             /\ s \o w = SubSeq(s \o w, 1, Len(s \o w))
  <2>1. s \o w \in Seq(Records) /\ Len(w) \in Nat
    BY ConcatProperties, LenProperties
  <2>2. ASSUME NEW k \in 0 .. Len(w)
        PROVE  /\ s \o SubSeq(w, 1, k) \in Seq(Records)
               /\ Start(s \o SubSeq(w, 1, k), s \o w)
    <3>1. SubSeq(w, 1, k) \in Seq(Records)
      BY Parts
    <3> QED
      BY <3>1, StartOfConcat, ConcatProperties
  <2>3. ASSUME NEW x \in Cut(s, w)
        PROVE  x \in OnFile /\ Start(Loaded(x), s \o w)
    <3>1. PICK k \in 0 .. Len(w) : x \in {Whole(s \o SubSeq(w, 1, k)), OpenAt(s \o SubSeq(w, 1, k)),
                                          TornAt(s \o SubSeq(w, 1, k))}
      BY <2>1 DEF Cut
    <3> QED
      BY <1>2, <2>2, <3>1
  <2>4. s \o w = SubSeq(s \o w, 1, Len(s \o w))
    BY <2>1, SubSeqFull
  <2> QED
    BY <2>1, <2>3, <2>4
<1>6. CASE t = Absent
  <2>1. /\ now' = Snap(Whole(new))
        /\ disk' = disk \cup {Snap(x) : x \in {NoHeader} \cup Cut(<<>>, new)}
    BY <1>6 DEF save_vtk_table_file_buffer
  <2>2. <<>> \o new = new
    BY ConcatEmptySeq
  <2>3. Start(<<>>, new)
    <3>1. Len(new) \in Nat /\ SubSeq(new, 1, 0) = <<>>
      BY LenProperties, SubSeqEmpty
    <3> QED
      BY <3>1 DEF Start
  <2>4. \A x \in {NoHeader} \cup Cut(<<>>, new) : x \in OnFile /\ Start(Loaded(x), new)
    BY <1>3, <1>4, <1>5, <2>2, <2>3
  <2>5. Whole(new) \in Cut(<<>>, new)
    <3>1. Len(new) \in 0 .. Len(new) /\ <<>> \o SubSeq(new, 1, Len(new)) = new
      BY <2>2, SubSeqFull, LenProperties
    <3> QED
      BY <3>1 DEF Cut
  <2>6. OnFile \subseteq Tables /\ Loaded(t) = <<>> /\ ~ (~ Spoilt(t) /\ t # Absent)
    BY <1>6 DEF Tables, Loaded
  <2> HIDE DEF Snap, t
  <2>7. /\ now' \in Snapshots /\ now'.here = now.here /\ now'.table = Whole(new)
        /\ Loaded(now'.table) = new /\ now' \in disk'
    BY <1>1, <1>2, <2>1, <2>5, <2>6
  <2>8. \A d \in disk' : d \in disk \/ (/\ d \in Snapshots /\ d.here = now.here
                                        /\ Start(Loaded(d.table), new))
    BY <1>1, <2>1, <2>4, <2>6
  <2> QED
    BY <1>2, <1>6, <2>2, <2>6, <2>7, <2>8 DEF t
<1>7. CASE t # Absent /\ ~ t.header
  <2>1. now' = now /\ disk' = disk
    BY <1>7 DEF save_vtk_table_file_buffer, fileVars
  <2>2. Spoilt(t)
    BY <1>7 DEF Spoilt
  <2> QED
    BY <1>7, <2>1, <2>2
<1>8. CASE t # Absent /\ t.header
  <2>1. PICK b \in Behind(t, new) :
          /\ now' = Snap(Whole(b.keeps \o b.adds))
          /\ disk' = disk \cup {Snap(x) : x \in Cut(b.keeps, b.adds)}
    BY <1>8 DEF save_vtk_table_file_buffer
  <2> DEFINE u == b.keeps
             w == b.adds
  <2>2. t.recs \in Seq(Records) /\ t.end \in {"line", "open", "torn"} /\ Loaded(t) = t.recs
    BY <1>1, <1>8 DEF Tables, OnFile, Loaded
  <2>3. /\ u \in {t.recs, Front(t.recs)} /\ w \in {new, Tail(new)}
        /\ ~ Spoilt(t) => u = t.recs /\ w = new
    BY <1>8, <2>2 DEF Behind, Spoilt
  <2>4. u \in Seq(Records) /\ w \in Seq(Records)
    <3>1. Front(t.recs) \in Seq(Records)
      BY <2>2, FrontIsStart
    <3> QED
      BY <1>8, <2>2, <2>3, <3>1, HeadTailProperties
  <2> HIDE DEF u, w
  <2>5. Whole(u \o w) \in Cut(u, w)
    <3>1. Len(w) \in 0 .. Len(w) /\ SubSeq(w, 1, Len(w)) = w
      BY <2>4, SubSeqFull, LenProperties
    <3> QED
      BY <3>1 DEF Cut
  <2>6. OnFile \subseteq Tables
    BY DEF Tables
  <2> HIDE DEF Snap, t
  <2>7. u \o w \in Seq(Records) /\ \A x \in Cut(u, w) : x \in OnFile /\ Start(Loaded(x), u \o w)
    BY <1>5, <2>4
  <2>8. now' = Snap(Whole(u \o w)) /\ disk' = disk \cup {Snap(x) : x \in Cut(u, w)}
    BY <2>1 DEF u, w
  <2>9. /\ now' \in Snapshots /\ now'.here = now.here /\ now'.table = Whole(u \o w)
        /\ Loaded(now'.table) = u \o w /\ now' \in disk'
    BY <1>1, <1>2, <2>5, <2>6, <2>7, <2>8
  <2>10. \A d \in disk' : d \in disk \/ (/\ d \in Snapshots /\ d.here = now.here
                                         /\ Start(Loaded(d.table), u \o w))
    BY <1>1, <2>6, <2>7, <2>8
  <2> QED
    BY <1>2, <1>8, <2>2, <2>3, <2>7, <2>9, <2>10 DEF t
<1> QED
  BY <1>6, <1>7, <1>8

(* The records that an update adds or replaces, and what is counted.       *)
LEMMA Added ==
  ASSUME mem \in Seq(Records), add \in Nat, pre \in Nat, NEW rid, NEW f, Of(rid, f),
         API_ResourceTb_AddOneRecord(rid, f)
  PROVE  /\ mem' \in Seq(Records) /\ add' \in Nat /\ pre' \in Nat /\ aged' = FALSE
         /\ add' + pre' > 0 /\ ~ (add' + pre' = 0)
         /\ \/ /\ Index(rid) = 0 /\ pre' = pre /\ add' = add + 1
               /\ Len(mem') = Len(mem) + 1
               /\ \A k \in 1 .. Len(mem) : mem'[k] = mem[k] /\ mem[k].rid # rid
               /\ mem'[Len(mem) + 1].rid = rid /\ mem'[Len(mem) + 1].file = f
            \/ /\ Index(rid) \in 1 .. Len(mem) /\ pre' = pre + 1 /\ add' = add
               /\ mem[Index(rid)].rid = rid /\ Len(mem') = Len(mem)
               /\ \A k \in 1 .. Len(mem) :
                    IF k = Index(rid) THEN mem'[k].rid = rid /\ mem'[k].file = f
                                      ELSE mem'[k] = mem[k]
<1> DEFINE r == [rid |-> rid, file |-> f, result |-> 0]
<1>1. r \in Records /\ r.rid = rid /\ r.file = f
  BY DEF Of, Records, Rids, Files
<1>2. /\ Index(rid) \in 0 .. Len(mem)
      /\ Index(rid) # 0 => mem[Index(rid)].rid = rid
      /\ Index(rid) = 0 => \A k \in 1 .. Len(mem) : mem[k].rid # rid
  BY IndexFound
<1>3. Len(mem) \in Nat
  BY LenProperties
<1>4. CASE Index(rid) = 0
  <2>1. mem' = Append(mem, r) /\ add' = add + 1 /\ aged' = FALSE /\ pre' = pre
    BY <1>4 DEF API_ResourceTb_AddOneRecord
  <2> HIDE DEF r
  <2>2. /\ mem' \in Seq(Records) /\ Len(mem') = Len(mem) + 1 /\ mem'[Len(mem) + 1] = r
        /\ \A k \in 1 .. Len(mem) : mem'[k] = mem[k]
    BY <1>1, <2>1, AppendProperties
  <2> QED
    BY <1>1, <1>2, <1>4, <2>1, <2>2
<1>5. CASE Index(rid) # 0
  <2>1. mem' = [mem EXCEPT ![Index(rid)] = r] /\ add' = add /\ aged' = FALSE /\ pre' = pre + 1
    BY <1>5 DEF API_ResourceTb_AddOneRecord, Changed
  <2> HIDE DEF r
  <2>2. Index(rid) \in 1 .. Len(mem)
    BY <1>2, <1>3, <1>5
  <2>3. /\ mem' \in Seq(Records) /\ Len(mem') = Len(mem)
        /\ \A k \in 1 .. Len(mem) : mem'[k] = IF k = Index(rid) THEN r ELSE mem[k]
    BY <1>1, <2>1, <2>2, ExceptSeq
  <2>4. \A k \in 1 .. Len(mem) :
          IF k = Index(rid) THEN mem'[k].rid = rid /\ mem'[k].file = f ELSE mem'[k] = mem[k]
    BY <1>1, <2>3
  <2>5. pre' \in Nat /\ add' \in Nat /\ add' + pre' > 0 /\ ~ (add' + pre' = 0)
    BY <2>1
  <2> QED
    BY <1>2, <1>5, <2>1, <2>2, <2>3, <2>4, <2>5
<1> QED
  BY <1>4, <1>5

(* Where the records of a table come from that was changed.                *)
LEMMA Updated ==
  ASSUME mem \in Seq(Records), add \in Nat, pre \in Nat, NEW rid,
         API_Resource_HaveUpdated(rid) \/ API_ResourceTb_DelOneRecord(rid)
  PROVE  /\ mem' \in Seq(Records) /\ pre' = pre + 1 /\ add' = add
         /\ \E h \in 0 .. Len(mem) :
              /\ Len(mem') \in {Len(mem), Len(mem) - 1}
              /\ \A k \in 1 .. Len(mem') :
                   LET j == IF Len(mem') = Len(mem) \/ k < h THEN k ELSE k + 1
                   IN  /\ j \in 1 .. Len(mem)
                       /\ mem'[k].rid = mem[j].rid /\ mem'[k].file = mem[j].file
<1>1. Len(mem) \in Nat /\ Index(rid) \in 0 .. Len(mem)
  BY IndexFound, LenProperties
<1>2. CASE API_Resource_HaveUpdated(rid)
  <2> DEFINE n == Index(rid)
             r == [mem[n] EXCEPT !.result = 1]
  <2>1. n \in 1 .. Len(mem) /\ mem' = [mem EXCEPT ![n] = r] /\ pre' = pre + 1 /\ add' = add
    BY <1>1, <1>2 DEF API_Resource_HaveUpdated, Changed
  <2>2. mem[n] \in Records
    BY <2>1, ElementOfSeq
  <2>3. r \in Records /\ r.rid = mem[n].rid /\ r.file = mem[n].file
    BY <2>2 DEF Records
  <2> HIDE DEF r, n
  <2>4. /\ mem' \in Seq(Records) /\ Len(mem') = Len(mem)
        /\ \A k \in 1 .. Len(mem) : mem'[k] = IF k = n THEN r ELSE mem[k]
    BY <2>1, <2>3, ExceptSeq
  <2> QED
    BY <1>1, <2>1, <2>3, <2>4
<1>3. CASE API_ResourceTb_DelOneRecord(rid)
  <2> DEFINE n == Index(rid)
  <2>1. n \in 1 .. Len(mem) /\ mem' = RemoveAt(mem, n) /\ pre' = pre + 1 /\ add' = add
    BY <1>1, <1>3 DEF API_ResourceTb_DelOneRecord, Changed
  <2> HIDE DEF n
  <2>2. /\ mem' \in Seq(Records) /\ Len(mem') = Len(mem) - 1
        /\ \A k \in 1 .. Len(mem) - 1 : mem'[k] = IF k < n THEN mem[k] ELSE mem[k + 1]
    BY <2>1, Removed
  <2>3. \A k \in 1 .. Len(mem') :
          LET j == IF Len(mem') = Len(mem) \/ k < n THEN k ELSE k + 1
          IN  j \in 1 .. Len(mem) /\ mem'[k] = mem[j]
    BY <1>1, <2>1, <2>2
  <2>4. n \in 0 .. Len(mem) /\ Len(mem') \in {Len(mem), Len(mem) - 1}
    BY <1>1, <2>1, <2>2
  <2> QED
    BY <2>1, <2>2, <2>3, <2>4
<1> QED
  BY <1>2, <1>3

(* What a snapshot is made of.                                             *)
LEMMA Snapshot ==
  ASSUME NEW n \in Snapshots
  PROVE  /\ n.table \in Tables /\ n.here \subseteq Files /\ Loaded(n.table) \in Seq(Records)
         /\ \A x \in Tables : /\ [n EXCEPT !.table = x] \in Snapshots
                              /\ [n EXCEPT !.table = x].table = x
                              /\ [n EXCEPT !.table = x].here = n.here
         /\ \A F \in SUBSET Files : /\ [n EXCEPT !.here = F] \in Snapshots
                                    /\ [n EXCEPT !.here = F].here = F
                                    /\ [n EXCEPT !.here = F].table = n.table
<1>1. n.table \in Tables /\ n.here \subseteq Files
  BY DEF Snapshots
<1>2. <<>> \in Seq(Records)
  OBVIOUS
<1>3. Loaded(n.table) \in Seq(Records)
  BY <1>1, <1>2 DEF Tables, OnFile, Loaded
<1>4. \A x \in Tables : /\ [n EXCEPT !.table = x] \in Snapshots
                        /\ [n EXCEPT !.table = x].table = x
                        /\ [n EXCEPT !.table = x].here = n.here
  BY DEF Snapshots
<1>5. \A F \in SUBSET Files : /\ [n EXCEPT !.here = F] \in Snapshots
                              /\ [n EXCEPT !.here = F].here = F
                              /\ [n EXCEPT !.here = F].table = n.table
  BY DEF Snapshots
<1> QED
  BY <1>1, <1>3, <1>4, <1>5

(* What the verification does to a record.                                 *)
LEMMA Verified ==
  ASSUME Typed, API_ResourceTb_Verify
  PROVE  /\ at["io"] = "verify" /\ lock \in {Nobody, "io"}
         /\ loaded' = loaded /\ add' = add /\ now' = now /\ disk' = disk
         /\ \/ /\ i \in 1 .. Len(mem) /\ mem[i].file \in now.here
               /\ lock' = "io" /\ at' = at /\ i' = i + 1 /\ mem' = mem /\ pre' = pre
            \/ /\ i \in 1 .. Len(mem) /\ mem[i].file \notin now.here
               /\ lock' = "io" /\ at' = at /\ i' = i /\ pre' = pre + 1
               /\ mem' \in Seq(Records) /\ Len(mem') = Len(mem) - 1
               /\ \A k \in 1 .. Len(mem) - 1 : mem'[k] = IF k < i THEN mem[k] ELSE mem[k + 1]
            \/ /\ i > Len(mem) /\ lock' = Nobody
               /\ at' = [at EXCEPT !["io"] = IF pre > 0 THEN "flush" ELSE "run"]
               /\ i' = i /\ mem' = mem /\ pre' = pre
<1>1. at["io"] = "verify" /\ i \in Nat \ {0} /\ mem \in Seq(Records) /\ Len(mem) \in Nat
  BY LenProperties DEF Typed, TypeOK, Places, API_ResourceTb_Verify
<1>2. i <= Len(mem) => /\ RemoveAt(mem, i) \in Seq(Records) /\ Len(RemoveAt(mem, i)) = Len(mem) - 1
                       /\ \A k \in 1 .. Len(mem) - 1 :
                            RemoveAt(mem, i)[k] = IF k < i THEN mem[k] ELSE mem[k + 1]
  BY <1>1, Removed
<1>3. i > Len(mem) <=> ~ (i <= Len(mem))
  BY <1>1
<1> QED
  BY <1>1, <1>2, <1>3 DEF API_ResourceTb_Verify, Goes, fileVars, tableVars

(* What an append writes: the records that were added.                     *)
LEMMA Appends ==
  ASSUME Typed, NEW t \in Threads, at[t] = "append"
  PROVE  /\ Len(mem) - add \in 0 .. Len(mem) /\ pre = 0 /\ add > 0
         /\ LET new == SubSeq(mem, Len(mem) - add + 1, Len(mem))
            IN  /\ new \in Seq(Records) /\ Len(new) = add /\ new # <<>>
                /\ \A k \in 1 .. add : new[k] = mem[Len(mem) - add + k]
                /\ Saving \o new = mem
<1>1. mem \in Seq(Records) /\ Len(mem) \in Nat /\ add \in Nat /\ add > 0 /\ pre = 0 /\ add <= Len(mem)
  BY LenProperties DEF Typed, TypeOK, Counts
<1>2. Len(mem) - add \in 0 .. Len(mem) /\ Len(mem) - (Len(mem) - add) = add
  BY <1>1
<1> DEFINE n == Len(mem) - add
           new == SubSeq(mem, n + 1, Len(mem))
<1> HIDE DEF n
<1>3. /\ new \in Seq(Records) /\ Len(new) = Len(mem) - n
      /\ \A k \in 1 .. Len(mem) - n : new[k] = mem[n + k]
      /\ SubSeq(mem, 1, n) \o new = mem
  BY <1>1, <1>2, Parts DEF n
<1>4. new # <<>>
  <2>1. Len(new) > 0
    BY <1>1, <1>2, <1>3 DEF n
  <2>2. Len(<<>>) = 0
    OBVIOUS
  <2> HIDE DEF new
  <2> QED
    BY <2>1, <2>2
<1> QED
  BY <1>1, <1>2, <1>3, <1>4 DEF Saving, n

(* What the writing steps of a flush do to the files.                      *)
LEMMA Wrote ==
  ASSUME Typed, NEW t \in Threads, FlushAppend(t) \/ FlushSave(t)
  PROVE  \/ now' = now /\ disk' = disk
         \/ /\ save_vtk_table_file_buffer(IF at[t] = "save" THEN mem
                                          ELSE SubSeq(mem, Len(mem) - add + 1, Len(mem)))
            /\ now' \in Snapshots /\ disk' \subseteq Snapshots /\ now' \in disk'
            /\ now'.here = now.here
<1>1. now \in Snapshots /\ disk \subseteq Snapshots /\ now \in disk /\ mem \in Seq(Records)
  BY DEF Typed, TypeOK
<1>2. CASE FlushAppend(t)
  <2>1. at[t] = "append"
    BY <1>2 DEF FlushAppend
  <2> DEFINE new == SubSeq(mem, Len(mem) - add + 1, Len(mem))
  <2>2. new \in Seq(Records) /\ new # <<>>
    BY <2>1, Appends
  <2>3. UNCHANGED fileVars \/ save_vtk_table_file_buffer(new)
    BY <1>2 DEF FlushAppend
  <2> HIDE DEF new
  <2>4. CASE save_vtk_table_file_buffer(new)
    <3>1. /\ now' \in Snapshots /\ disk' \subseteq Snapshots /\ now' \in disk'
          /\ now'.here = now.here
      BY <1>1, <2>2, <2>4, WriteTable
    <3> QED
      BY <2>1, <2>4, <3>1 DEF new
  <2> QED
    BY <2>3, <2>4 DEF fileVars
<1>3. CASE FlushSave(t)
  <2>1. at[t] = "save" /\ now.table = Absent
    BY <1>3 DEF FlushSave, Typed, Counts
  <2>2. UNCHANGED fileVars \/ save_vtk_table_file_buffer(mem)
    BY <1>3 DEF FlushSave
  <2>3. CASE save_vtk_table_file_buffer(mem)
    <3>1. /\ now' \in Snapshots /\ disk' \subseteq Snapshots /\ now' \in disk'
          /\ now'.here = now.here
      BY <1>1, <2>1, <2>3, WriteTable
    <3> QED
      BY <2>1, <2>3, <3>1
  <2> QED
    BY <2>2, <2>3 DEF fileVars
<1> QED
  BY <1>2, <1>3

(* A start of the gateway.                                                 *)
LEMMA Restarted ==
  ASSUME NEW snapshots, Restart(snapshots)
  PROVE  /\ now' \in snapshots /\ disk' = {now'}
         /\ at' = [t \in Threads |-> IF t = "io" THEN "load" ELSE "idle"]
         /\ loaded' = FALSE /\ mem' = <<>> /\ add' = 0 /\ pre' = 0 /\ lock' = Nobody
         /\ i' = 1 /\ list' = <<>> /\ item' = 1 /\ early' = FALSE /\ damaged' = FALSE
         /\ old' = Absent /\ failed' = {} /\ tftp' = tftp /\ aged' = TRUE
BY DEF Restart

(* What a firmware that is unpacked leaves.                                *)
LEMMA Unpacked ==
  ASSUME Typed, UpdateFirmware
  PROVE  /\ HasFirmware => loaded /\ list # <<>> /\ Index(Firmware) \in 1 .. Len(mem)
                           /\ mem[Index(Firmware)].rid = Firmware
         /\ WithoutFirmware \in Snapshots /\ WithoutFirmware.table = now.table
         /\ WithoutFirmware.here = now.here \ {mem[Index(Firmware)].file}
<1>1. /\ now \in Snapshots /\ mem \in Seq(Records) /\ Len(mem) \in Nat
  BY LenProperties DEF Typed, TypeOK
<1>2. /\ Index(Firmware) \in 0 .. Len(mem)
      /\ Index(Firmware) # 0 => mem[Index(Firmware)].rid = Firmware
  BY <1>1, IndexFound
<1>3. /\ WithoutFirmware \in Snapshots /\ WithoutFirmware.table = now.table
      /\ WithoutFirmware.here = now.here \ {mem[Index(Firmware)].file}
  <2>1. now.here \ {mem[Index(Firmware)].file} \in SUBSET Files
    BY <1>1, Snapshot
  <2> QED
    BY <1>1, <2>1, Snapshot DEF WithoutFirmware
<1>4. HasFirmware => Index(Firmware) \in 1 .. Len(mem) /\ list # <<>>
  BY <1>1, <1>2 DEF HasFirmware
<1>5. mem # <<>> => loaded
  BY DEF Typed, TypeOK, Fresh
<1>6. Index(Firmware) \in 1 .. Len(mem) => mem # <<>>
  BY <1>1
<1> QED
  BY <1>2, <1>3, <1>4, <1>5, <1>6

LEMMA SpoiltBoolean ==
  ASSUME TypeOK
  PROVE  (damaged \/ Spoilt(now.table)) \in BOOLEAN /\ TRUE \in BOOLEAN /\ FALSE \in BOOLEAN
OBVIOUS

(* The steps of an update that move files.                                 *)
LEMMA Moved ==
  ASSUME Typed, UpdateRemove \/ UpdateMove
  PROVE  /\ Here \in Offers /\ Here[1] \in Rids /\ Here[2] \in Files
         /\ now' \in Snapshots /\ disk' \subseteq Snapshots /\ now' \in disk'
         /\ now'.table = now.table /\ disk' \subseteq disk \cup {now'}
         /\ UpdateRemove => now'.here = IF old = Absent THEN now.here ELSE now.here \ {old}
         /\ UpdateMove => now'.here = IF Here[2] \in tftp THEN now.here \cup {Here[2]} ELSE now.here
<1>1. Here \in Offers
  BY ElementOfSeq DEF UpdateRemove, UpdateMove, Here, Typed, TypeOK, Places
<1>2. Here[1] \in Rids /\ Here[2] \in Files
  BY <1>1 DEF Rids, Files
<1>3. now \in Snapshots /\ now \in disk /\ disk \subseteq Snapshots /\ now.here \subseteq Files
  BY DEF Typed, TypeOK
<1>4. ASSUME NEW F \in SUBSET Files, Becomes([now EXCEPT !.here = F])
      PROVE  /\ now' \in Snapshots /\ disk' \subseteq Snapshots /\ now' \in disk'
             /\ now'.table = now.table /\ disk' \subseteq disk \cup {now'} /\ now'.here = F
  BY <1>3, <1>4, Snapshot DEF Becomes
<1>5. CASE UpdateRemove
  <2>1. CASE old = Absent
    BY <1>1, <1>2, <1>3, <1>5, <2>1 DEF UpdateRemove, UpdateMove, fileVars
  <2>2. CASE old # Absent
    <3>1. now.here \ {old} \in SUBSET Files /\ Becomes([now EXCEPT !.here = now.here \ {old}])
      BY <1>3, <1>5, <2>2 DEF UpdateRemove
    <3>2. ~ UpdateMove
      BY <1>5 DEF UpdateRemove, UpdateMove
    <3> QED
      BY <1>1, <1>2, <1>4, <2>2, <3>1, <3>2
  <2> QED
    BY <2>1, <2>2
<1>6. CASE UpdateMove
  <2>1. CASE Here[2] \notin tftp
    BY <1>1, <1>2, <1>3, <1>6, <2>1 DEF UpdateRemove, UpdateMove, fileVars
  <2>2. CASE Here[2] \in tftp
    <3>1. /\ now.here \cup {Here[2]} \in SUBSET Files
          /\ Becomes([now EXCEPT !.here = now.here \cup {Here[2]}])
      BY <1>2, <1>3, <1>6, <2>2 DEF UpdateMove
    <3>2. ~ UpdateRemove
      BY <1>6 DEF UpdateRemove, UpdateMove
    <3> QED
      BY <1>1, <1>2, <1>4, <2>2, <3>1, <3>2
  <2> QED
    BY <2>1, <2>2
<1> QED
  BY <1>5, <1>6

LEMMA StartTypes ==
  ASSUME Typed, NEW snapshots, Restart(snapshots), now' \in Snapshots,
         msgs' \in Nat, mishaps' \in Nat
  PROVE  TypeOK' /\ (disk \subseteq Snapshots)'
<1>1. now'.table \in Tables /\ now'.here \subseteq Files /\ now' \in disk' /\ disk' \subseteq Snapshots
  <2>1. PICK n \in Snapshots : n = now'
    OBVIOUS
  <2>2. n.table \in Tables /\ n.here \subseteq Files
    BY Snapshot
  <2>3. disk' = {n}
    BY <2>1, Restarted
  <2> QED
    BY <2>1, <2>2, <2>3
<1>2. <<>> \in Seq(Records)
  OBVIOUS
<1>3. <<>> \in Seq(Offers)
  OBVIOUS
<1>4. at' \in [Threads -> {"load", "verify", "run", "flush", "append", "drop", "save", "end", "idle",
                           "add", "remove", "move", "check", "firmware"}]
  BY Restarted
<1>5. mem' \in Seq(Records) /\ list' \in Seq(Offers)
  BY <1>2, <1>3, Restarted
<1>6. {loaded', aged', damaged', early'} \subseteq BOOLEAN
  BY Restarted
<1>7. add' \in Nat /\ pre' \in Nat /\ i' \in Nat /\ item' \in Nat
  <2>1. add' = 0 /\ pre' = 0 /\ i' = 1 /\ item' = 1
    BY Restarted
  <2> QED
    BY <2>1
<1>8. lock' \in Threads \cup {Nobody}
  BY Restarted
<1>9. tftp' \subseteq Files /\ old' \in Files \cup {Absent} /\ failed' \subseteq Rids
  BY Restarted DEF Typed, TypeOK
<1> QED
  BY <1>1, <1>4, <1>5, <1>6, <1>9, <1>7, <1>8 DEF TypeOK
-----------------------------------------------------------------------------
(* Every step keeps where the threads are, and what follows from it.       *)

(* The types.                                                              *)
LEMMA TypesStep ==
  ASSUME Typed, [Next]_vars
  PROVE  TypeOK' /\ (disk \subseteq Snapshots)'
<1>1. ASSUME API_Load_ResourceTable
      PROVE  TypeOK' /\ (disk \subseteq Snapshots)'
  <2>1. mem' \in Seq(Records)
    BY <1>1, Snapshot DEF API_Load_ResourceTable, Typed, TypeOK
  <2> QED
    BY <1>1, <2>1 DEF API_Load_ResourceTable, Goes, fileVars, updateVars, boundVars, Typed, TypeOK,
       Threads, Nobody
<1>2. ASSUME API_ResourceTb_Verify
      PROVE  TypeOK' /\ (disk \subseteq Snapshots)'
  <2>1. mem' \in Seq(Records) /\ pre' \in Nat /\ lock' \in Threads \cup {Nobody} /\ i' \in Nat
    BY <1>2, Verified DEF Typed, TypeOK, Threads
  <2> QED
    BY <1>2, <2>1 DEF API_ResourceTb_Verify, Goes, fileVars, updateVars, boundVars, Typed, TypeOK,
       Threads, Nobody
<1>3. ASSUME NEW t \in Threads, Flush(t)
      PROVE  TypeOK' /\ (disk \subseteq Snapshots)'
  BY <1>3 DEF Flush, Goes, Unlocked, Returns, InFlush, tableVars, fileVars, updateVars,
     boundVars, Typed, TypeOK, Snapshots, Threads, Nobody
<1>4. ASSUME NEW t \in Threads, FlushAppend(t)
      PROVE  TypeOK' /\ (disk \subseteq Snapshots)'
  <2>1. now' \in Snapshots /\ disk' \subseteq Snapshots /\ now' \in disk'
    BY <1>4, Wrote DEF Typed, TypeOK
  <2>2. now'.table \in Tables /\ now'.here \subseteq Files
    BY <2>1, Snapshot
  <2>3. damaged' \in BOOLEAN /\ {add', pre'} \subseteq Nat
    BY <1>4, SpoiltBoolean DEF FlushAppend, Typed, TypeOK
  <2>4. msgs' \in Nat /\ mishaps' \in Nat
    BY <1>4 DEF FlushAppend, FlushSave, Mishap, boundVars, Typed, TypeOK
  <2>5. lock' \in Threads \cup {Nobody} /\ InFlush
    BY <1>4 DEF FlushAppend, Unlocked, Typed, TypeOK
  <2>6. at' = [at EXCEPT ![t] = "end"] \/ at' = [at EXCEPT ![t] = Returns(t)]
    BY <1>4 DEF FlushAppend, Unlocked, Goes
  <2>7. Returns(t) \in {"run", "idle", "check", "firmware"}
    BY DEF Returns, Threads
  <2> QED
    BY <2>1, <2>2, <2>3, <2>5, <2>6, <2>7, <2>4 DEF InFlush, updateVars, Typed, TypeOK
<1>5. ASSUME NEW t \in Threads, FlushDrop(t)
      PROVE  TypeOK' /\ (disk \subseteq Snapshots)'
  <2>1. now \in Snapshots /\ Absent \in Tables
    BY DEF Typed, TypeOK, Tables
  <2>2. [now EXCEPT !.table = Absent] \in Snapshots
    BY <2>1, Snapshot
  <2>3. now' \in Snapshots /\ disk' \subseteq Snapshots /\ now' \in disk'
    BY <1>5, <2>1, <2>2 DEF FlushDrop, Becomes, fileVars, Typed, TypeOK
  <2>4. now'.table \in Tables /\ now'.here \subseteq Files
    BY <2>3, Snapshot
  <2> QED
    BY <1>5, <2>3, <2>4 DEF FlushDrop, Goes, Unlocked, Returns, InFlush, Mishap, updateVars,
       boundVars, Typed, TypeOK, Threads, Nobody
<1>6. ASSUME NEW t \in Threads, FlushSave(t)
      PROVE  TypeOK' /\ (disk \subseteq Snapshots)'
  <2>1. now' \in Snapshots /\ disk' \subseteq Snapshots /\ now' \in disk'
    BY <1>6, Wrote DEF Typed, TypeOK
  <2>2. now'.table \in Tables /\ now'.here \subseteq Files
    BY <2>1, Snapshot
  <2>3. damaged' \in BOOLEAN /\ {add', pre'} \subseteq Nat
    BY <1>6, SpoiltBoolean DEF FlushSave, Typed, TypeOK
  <2>4. msgs' \in Nat /\ mishaps' \in Nat
    BY <1>6 DEF FlushAppend, FlushSave, Mishap, boundVars, Typed, TypeOK
  <2>5. lock' \in Threads \cup {Nobody} /\ InFlush
    BY <1>6 DEF FlushSave, Unlocked, Typed, TypeOK
  <2>6. at' = [at EXCEPT ![t] = "end"] \/ at' = [at EXCEPT ![t] = Returns(t)]
    BY <1>6 DEF FlushSave, Unlocked, Goes
  <2>7. Returns(t) \in {"run", "idle", "check", "firmware"}
    BY DEF Returns, Threads
  <2> QED
    BY <2>1, <2>2, <2>3, <2>5, <2>6, <2>7, <2>4 DEF InFlush, updateVars, Typed, TypeOK
<1>7. ASSUME NEW t \in Threads, FlushEnd(t)
      PROVE  TypeOK' /\ (disk \subseteq Snapshots)'
  BY <1>7 DEF FlushEnd, Goes, Unlocked, Returns, InFlush, Sync, tableVars, fileVars,
     updateVars, boundVars, Typed, TypeOK, Snapshots, Threads, Nobody
<1>8. ASSUME ResourceTable_AutoSave_Timer_Callback
      PROVE  TypeOK' /\ (disk \subseteq Snapshots)'
  BY <1>8 DEF ResourceTable_AutoSave_Timer_Callback, Goes, tableVars, fileVars,
     updateVars, boundVars, Typed, TypeOK, Snapshots, Threads, Nobody
<1>9. ASSUME Age
      PROVE  TypeOK' /\ (disk \subseteq Snapshots)'
  BY <1>9 DEF Age, tableVars, fileVars, updateVars, boundVars, Typed, TypeOK, Snapshots,
     Threads, Nobody
<1>10. ASSUME DeviceVersion
      PROVE  TypeOK' /\ (disk \subseteq Snapshots)'
  BY <1>10 DEF DeviceVersion, Message, tableVars, fileVars, updateVars, boundVars, Typed,
     TypeOK, Snapshots, Threads, Nobody
<1>11. ASSUME NEW o \in Offers, DownloadStart(o)
      PROVE  TypeOK' /\ (disk \subseteq Snapshots)'
  <2>1. list' \in Seq(Offers) /\ tftp' \subseteq Files
    BY <1>11, AppendProperties DEF DownloadStart, Typed, TypeOK, Files
  <2> QED
    BY <1>11, <2>1 DEF DownloadStart, Message, tableVars, fileVars, Typed, TypeOK, Threads, Nobody
<1>12. ASSUME UpdateStart
      PROVE  TypeOK' /\ (disk \subseteq Snapshots)'
  BY <1>12 DEF UpdateStart, Message, Goes, tableVars, fileVars, updateVars, boundVars,
     Typed, TypeOK, Snapshots, Threads, Nobody
<1>13. ASSUME NEW rid \in Rids, RecordUpdated(rid)
      PROVE  TypeOK' /\ (disk \subseteq Snapshots)'
  <2>1. mem' \in Seq(Records) /\ pre' \in Nat /\ add' \in Nat
    BY <1>13, Updated DEF RecordUpdated, Typed, TypeOK
  <2>2. aged' \in BOOLEAN
    BY <1>13 DEF RecordUpdated, API_Resource_HaveUpdated, API_ResourceTb_DelOneRecord, Changed
  <2> QED
    BY <1>13, <2>1, <2>2 DEF RecordUpdated, Message, fileVars, updateVars, Typed, TypeOK, Threads,
       Nobody
<1>14. ASSUME UpdateAdd
      PROVE  TypeOK' /\ (disk \subseteq Snapshots)'
  <2>1. Here \in Offers
    BY <1>14, ElementOfSeq DEF UpdateAdd, Here, Typed, TypeOK, Places
  <2>2. Of(Here[1], Here[2]) /\ mem \in Seq(Records) /\ add \in Nat /\ pre \in Nat
    BY <2>1 DEF Of, Typed, TypeOK
  <2>3. CASE loaded
    <3>1. API_ResourceTb_AddOneRecord(Here[1], Here[2])
      BY <1>14, <2>3 DEF UpdateAdd
    <3>2. mem' \in Seq(Records) /\ add' \in Nat /\ pre' \in Nat /\ aged' = FALSE
      BY <2>2, <3>1, Added
    <3>3. Index(Here[1]) # 0 => mem[Index(Here[1])].file \in Files
      <4>1. Index(Here[1]) \in 0 .. Len(mem) /\ Len(mem) \in Nat
        BY <2>2, IndexFound, LenProperties
      <4>2. Index(Here[1]) # 0 => mem[Index(Here[1])] \in Records
        BY <2>2, <4>1, ElementOfSeq
      <4> QED
        BY <4>2 DEF Records
    <3>4. old' \in Files \cup {Absent}
      BY <1>14, <2>3, <3>3 DEF UpdateAdd
    <3> QED
      BY <1>14, <2>3, <3>2, <3>4 DEF UpdateAdd, Goes, fileVars, boundVars, Typed, TypeOK, Threads,
         Nobody
  <2> QED
    BY <1>14, <2>3 DEF UpdateAdd, Goes, fileVars, boundVars, Typed, TypeOK, Threads, Nobody
<1>15. ASSUME UpdateRemove
      PROVE  TypeOK' /\ (disk \subseteq Snapshots)'
  BY <1>15 DEF UpdateRemove, Goes, Becomes, tableVars, fileVars, updateVars, boundVars,
     Typed, TypeOK, Snapshots, Threads, Nobody
<1>16. ASSUME UpdateMove
      PROVE  TypeOK' /\ (disk \subseteq Snapshots)'
  <2>1. Here \in Offers
    BY <1>16, ElementOfSeq DEF UpdateMove, Here, Typed, TypeOK, Places
  <2>2. Here[1] \in Rids /\ Here[2] \in Files
    BY <2>1 DEF Rids, Files
  <2>3. now' \in Snapshots /\ disk' \subseteq Snapshots /\ now' \in disk'
    BY <1>16, Moved DEF Typed, TypeOK
  <2>4. now'.table \in Tables /\ now'.here \subseteq Files
    BY <2>3, Snapshot
  <2> QED
    BY <1>16, <2>2, <2>3, <2>4 DEF UpdateMove, NextItem, Goes, tableVars, boundVars, Typed, TypeOK,
       Threads, Nobody
<1>17. ASSUME UpdateCheck
      PROVE  TypeOK' /\ (disk \subseteq Snapshots)'
  BY <1>17 DEF UpdateCheck, Goes, tableVars, fileVars, updateVars, boundVars, Typed,
     TypeOK, Snapshots, Threads, Nobody
<1>18. ASSUME UpdateFirmware
      PROVE  TypeOK' /\ (disk \subseteq Snapshots)'
  <2>1. WithoutFirmware \in Snapshots
    BY <1>18, Unpacked
  <2>2. CASE Restart({WithoutFirmware})
    <3>1. now' \in Snapshots /\ disk' = {now'}
      BY <2>1, <2>2, Restarted
    <3>2. now'.table \in Tables /\ now'.here \subseteq Files /\ <<>> \in Seq(Records)
          /\ <<>> \in Seq(Offers)
      BY <3>1, Snapshot
    <3>3. UNCHANGED boundVars
      BY <1>18 DEF UpdateFirmware
    <3> QED
      BY <2>2, <3>1, <3>2, <3>3, StartTypes DEF boundVars, Typed, TypeOK
  <2>3. CASE ~ Restart({WithoutFirmware})
    <3>1. now' \in Snapshots /\ disk' \subseteq Snapshots /\ now' \in disk'
      BY <1>18, <2>1, <2>3 DEF UpdateFirmware, Becomes, fileVars, Typed, TypeOK
    <3>2. now'.table \in Tables /\ now'.here \subseteq Files
      BY <3>1, Snapshot
    <3> QED
      BY <1>18, <2>3, <3>1, <3>2 DEF UpdateFirmware, Goes, tableVars, updateVars, boundVars, Typed,
         TypeOK, Threads, Nobody
  <2> QED
    BY <2>2, <2>3
<1>19. ASSUME Crash
      PROVE  TypeOK' /\ (disk \subseteq Snapshots)'
  <2>1. Restart(disk) /\ disk \subseteq Snapshots
    BY <1>19 DEF Crash, Typed
  <2>2. now' \in Snapshots /\ disk' = {now'}
    BY <2>1, Restarted
  <2>3. now'.table \in Tables /\ now'.here \subseteq Files /\ <<>> \in Seq(Records)
        /\ <<>> \in Seq(Offers)
    BY <2>2, Snapshot
  <2>4. msgs' \in Nat /\ mishaps' \in Nat
    BY <1>19 DEF Crash, Mishap, Typed, TypeOK
  <2> QED
    BY <2>1, <2>2, <2>3, <2>4, StartTypes
<1>20. CASE UNCHANGED vars
  BY <1>20 DEF vars, Typed, TypeOK, Snapshots, Threads, Nobody
<1> QED
  BY <1>1, <1>2, <1>3, <1>4, <1>5, <1>6, <1>7, <1>8, <1>9, <1>10,
     <1>11, <1>12, <1>13, <1>14, <1>15, <1>16, <1>17, <1>18, <1>19, <1>20 DEF
     Next, IoStep, TickStep, UpdateStep, Messages, API_ResourceTb_Flush_Process, Threads

(* Where the threads are.                                                  *)
LEMMA PlacesStep ==
  ASSUME Typed, [Next]_vars
  PROVE  Places'
<1>1. ASSUME API_Load_ResourceTable
      PROVE  Places'
  BY <1>1 DEF API_Load_ResourceTable, Goes, tableVars, fileVars, updateVars, boundVars,
     Typed, TypeOK, Places, Working, Threads, Nobody
<1>2. ASSUME API_ResourceTb_Verify
      PROVE  Places'
  BY <1>2 DEF API_ResourceTb_Verify, Goes, tableVars, fileVars, updateVars, boundVars,
     Typed, TypeOK, Places, Working, Threads, Nobody
<1>3. ASSUME NEW t \in Threads, Flush(t)
      PROVE  Places'
  BY <1>3 DEF Flush, Goes, Unlocked, Returns, InFlush, tableVars, fileVars, updateVars,
     boundVars, Typed, TypeOK, Places, Working, Threads, Nobody
<1>4. ASSUME NEW t \in Threads, FlushAppend(t)
      PROVE  Places'
  BY <1>4 DEF FlushAppend, Goes, InFlush, Mishap, tableVars, fileVars, updateVars,
     boundVars, Typed, TypeOK, Places, Working, Threads, Nobody
<1>5. ASSUME NEW t \in Threads, FlushDrop(t)
      PROVE  Places'
  BY <1>5 DEF FlushDrop, Goes, Unlocked, Returns, InFlush, Becomes, Mishap, tableVars,
     fileVars, updateVars, boundVars, Typed, TypeOK, Places, Working, Threads, Nobody
<1>6. ASSUME NEW t \in Threads, FlushSave(t)
      PROVE  Places'
  BY <1>6 DEF FlushSave, Goes, Unlocked, Returns, InFlush, Mishap, tableVars, fileVars,
     updateVars, boundVars, Typed, TypeOK, Places, Working, Threads, Nobody
<1>7. ASSUME NEW t \in Threads, FlushEnd(t)
      PROVE  Places'
  BY <1>7 DEF FlushEnd, Goes, Unlocked, Returns, InFlush, Sync, tableVars, fileVars,
     updateVars, boundVars, Typed, TypeOK, Places, Working, Threads, Nobody
<1>8. ASSUME ResourceTable_AutoSave_Timer_Callback
      PROVE  Places'
  BY <1>8 DEF ResourceTable_AutoSave_Timer_Callback, Goes, tableVars, fileVars,
     updateVars, boundVars, Typed, TypeOK, Places, Working, Threads, Nobody
<1>9. ASSUME Age
      PROVE  Places'
  BY <1>9 DEF Age, tableVars, fileVars, updateVars, boundVars, Typed, TypeOK, Places,
     Working, Threads, Nobody
<1>10. ASSUME DeviceVersion
      PROVE  Places'
  BY <1>10 DEF DeviceVersion, Message, tableVars, fileVars, updateVars, boundVars, Typed,
     TypeOK, Places, Working, Threads, Nobody
<1>11. ASSUME NEW o \in Offers, DownloadStart(o)
      PROVE  Places'
  BY <1>11 DEF DownloadStart, Message, tableVars, fileVars, updateVars, boundVars, Typed,
     TypeOK, Places, Working, Threads, Nobody
<1>12. ASSUME UpdateStart
      PROVE  Places'
  BY <1>12 DEF UpdateStart, Message, Goes, tableVars, fileVars, updateVars, boundVars,
     Typed, TypeOK, Places, Working, Threads, Nobody
<1>13. ASSUME NEW rid \in Rids, RecordUpdated(rid)
      PROVE  Places'
  BY <1>13 DEF RecordUpdated, Message, tableVars, fileVars, updateVars, boundVars, Typed,
     TypeOK, Places, Working, Threads, Nobody
<1>14. ASSUME UpdateAdd
      PROVE  Places'
  BY <1>14 DEF UpdateAdd, Goes, tableVars, fileVars, updateVars, boundVars, Typed, TypeOK,
     Places, Working, Threads, Nobody
<1>15. ASSUME UpdateRemove
      PROVE  Places'
  BY <1>15 DEF UpdateRemove, Goes, Becomes, tableVars, fileVars, updateVars, boundVars,
     Typed, TypeOK, Places, Working, Threads, Nobody
<1>16. ASSUME UpdateMove
      PROVE  Places'
  <2>1. /\ UNCHANGED <<list, lock, i>>
        /\ \/ item' = item + 1
              /\ at' = [at EXCEPT !["survey"] = IF item < Len(list) THEN "add" ELSE "flush"]
           \/ item' = item /\ at' = [at EXCEPT !["survey"] = "idle"]
    BY <1>16 DEF UpdateMove, NextItem, Goes
  <2>2. item \in Nat /\ Len(list) \in Nat
    BY DEF Typed, TypeOK
  <2>3. item < Len(list) /\ item' = item + 1 => item' \in 1 .. Len(list)
    BY <2>2
  <2>4. /\ at'["io"] = at["io"] /\ at'["tick"] = at["tick"] /\ lock' = lock /\ i' = i
        /\ \/ at'["survey"] = "add" /\ item' \in 1 .. Len(list')
           \/ at'["survey"] \in {"idle", "flush"}
    BY <2>1, <2>3 DEF Typed, TypeOK, Threads
  <2>5. Places /\ at["survey"] = "move" /\ "nobody" \notin Threads
    BY <1>16 DEF UpdateMove, Typed, Threads
  <2> QED
    BY <2>4, <2>5 DEF Places, Working, Threads
<1>17. ASSUME UpdateCheck
      PROVE  Places'
  BY <1>17 DEF UpdateCheck, Goes, tableVars, fileVars, updateVars, boundVars, Typed,
     TypeOK, Places, Working, Threads, Nobody
<1>18. ASSUME UpdateFirmware
      PROVE  Places'
  BY <1>18 DEF UpdateFirmware, Goes, Becomes, Restart, tableVars, fileVars, updateVars,
     boundVars, Typed, TypeOK, Places, Working, Threads, Nobody
<1>19. ASSUME Crash
      PROVE  Places'
  BY <1>19 DEF Crash, Mishap, Restart, tableVars, fileVars, updateVars, boundVars, Typed,
     TypeOK, Places, Working, Threads, Nobody
<1>20. CASE UNCHANGED vars
  BY <1>20 DEF vars, Typed, TypeOK, Places, Working, Threads, Nobody
<1> QED
  BY <1>1, <1>2, <1>3, <1>4, <1>5, <1>6, <1>7, <1>8, <1>9, <1>10,
     <1>11, <1>12, <1>13, <1>14, <1>15, <1>16, <1>17, <1>18, <1>19, <1>20 DEF
     Next, IoStep, TickStep, UpdateStep, Messages, API_ResourceTb_Flush_Process, Threads

(* Before the table is loaded.                                             *)
LEMMA FreshStep ==
  ASSUME Typed, [Next]_vars
  PROVE  Fresh'
<1>1. ASSUME API_Load_ResourceTable
      PROVE  Fresh'
  BY <1>1 DEF API_Load_ResourceTable, Goes, tableVars, fileVars, updateVars, boundVars,
     Typed, TypeOK, Places, Fresh, Working, Threads, Nobody
<1>2. ASSUME API_ResourceTb_Verify
      PROVE  Fresh'
  BY <1>2 DEF API_ResourceTb_Verify, Goes, tableVars, fileVars, updateVars, boundVars,
     Typed, TypeOK, Places, Fresh, Working, Threads, Nobody
<1>3. ASSUME NEW t \in Threads, Flush(t)
      PROVE  Fresh'
  BY <1>3 DEF Flush, Goes, Unlocked, Returns, InFlush, tableVars, fileVars, updateVars,
     boundVars, Typed, TypeOK, Places, Fresh, Working, Threads, Nobody
<1>4. ASSUME NEW t \in Threads, FlushAppend(t)
      PROVE  Fresh'
  BY <1>4 DEF FlushAppend, Goes, InFlush, Mishap, tableVars, fileVars, updateVars,
     boundVars, Typed, TypeOK, Places, Fresh, Working, Threads, Nobody
<1>5. ASSUME NEW t \in Threads, FlushDrop(t)
      PROVE  Fresh'
  BY <1>5 DEF FlushDrop, Goes, Unlocked, Returns, InFlush, Becomes, Mishap, tableVars,
     fileVars, updateVars, boundVars, Typed, TypeOK, Places, Fresh, Working, Threads,
     Nobody
<1>6. ASSUME NEW t \in Threads, FlushSave(t)
      PROVE  Fresh'
  BY <1>6 DEF FlushSave, Goes, Unlocked, Returns, InFlush, Mishap, tableVars, fileVars,
     updateVars, boundVars, Typed, TypeOK, Places, Fresh, Working, Threads, Nobody
<1>7. ASSUME NEW t \in Threads, FlushEnd(t)
      PROVE  Fresh'
  BY <1>7 DEF FlushEnd, Goes, Unlocked, Returns, InFlush, Sync, tableVars, fileVars,
     updateVars, boundVars, Typed, TypeOK, Places, Fresh, Working, Threads, Nobody
<1>8. ASSUME ResourceTable_AutoSave_Timer_Callback
      PROVE  Fresh'
  BY <1>8 DEF ResourceTable_AutoSave_Timer_Callback, Goes, tableVars, fileVars,
     updateVars, boundVars, Typed, TypeOK, Places, Fresh, Working, Threads, Nobody
<1>9. ASSUME Age
      PROVE  Fresh'
  BY <1>9 DEF Age, tableVars, fileVars, updateVars, boundVars, Typed, TypeOK, Places,
     Fresh, Working, Threads, Nobody
<1>10. ASSUME DeviceVersion
      PROVE  Fresh'
  BY <1>10 DEF DeviceVersion, Message, tableVars, fileVars, updateVars, boundVars, Typed,
     TypeOK, Places, Fresh, Working, Threads, Nobody
<1>11. ASSUME NEW o \in Offers, DownloadStart(o)
      PROVE  Fresh'
  BY <1>11 DEF DownloadStart, Message, tableVars, fileVars, updateVars, boundVars, Typed,
     TypeOK, Places, Fresh, Working, Threads, Nobody
<1>12. ASSUME UpdateStart
      PROVE  Fresh'
  BY <1>12 DEF UpdateStart, Message, Goes, tableVars, fileVars, updateVars, boundVars,
     Typed, TypeOK, Places, Fresh, Working, Threads, Nobody
<1>13. ASSUME NEW rid \in Rids, RecordUpdated(rid)
      PROVE  Fresh'
  BY <1>13 DEF RecordUpdated, Message, tableVars, fileVars, updateVars, boundVars, Typed,
     TypeOK, Places, Fresh, Working, Threads, Nobody
<1>14. ASSUME UpdateAdd
      PROVE  Fresh'
  BY <1>14 DEF UpdateAdd, Goes, tableVars, fileVars, updateVars, boundVars, Typed, TypeOK,
     Places, Fresh, Working, Threads, Nobody
<1>15. ASSUME UpdateRemove
      PROVE  Fresh'
  BY <1>15 DEF UpdateRemove, Goes, Becomes, tableVars, fileVars, updateVars, boundVars,
     Typed, TypeOK, Places, Fresh, Working, Threads, Nobody
<1>16. ASSUME UpdateMove
      PROVE  Fresh'
  BY <1>16 DEF UpdateMove, NextItem, Goes, Becomes, tableVars, fileVars, updateVars,
     boundVars, Typed, TypeOK, Places, Fresh, Working, Threads, Nobody
<1>17. ASSUME UpdateCheck
      PROVE  Fresh'
  BY <1>17 DEF UpdateCheck, Goes, tableVars, fileVars, updateVars, boundVars, Typed,
     TypeOK, Places, Fresh, Working, Threads, Nobody
<1>18. ASSUME UpdateFirmware
      PROVE  Fresh'
  <2>1. CASE Restart({WithoutFirmware})
    BY <2>1, Restarted DEF Fresh, Threads
  <2>2. CASE ~ Restart({WithoutFirmware}) /\ loaded
    BY <1>18, <2>2 DEF UpdateFirmware, Goes, tableVars, updateVars, Typed, TypeOK, Fresh, Threads
  <2>3. CASE ~ Restart({WithoutFirmware}) /\ ~ loaded
    <3>1. ~ HasFirmware
      BY <1>18, <2>3, Unpacked
    <3> QED
      BY <1>18, <2>3, <3>1 DEF UpdateFirmware, Goes, tableVars, fileVars, updateVars, Typed, TypeOK,
         Fresh, Threads
  <2> QED
    BY <2>1, <2>2, <2>3
<1>19. ASSUME Crash
      PROVE  Fresh'
  BY <1>19 DEF Crash, Mishap, Restart, tableVars, fileVars, updateVars, boundVars, Typed,
     TypeOK, Places, Fresh, Working, Threads, Nobody
<1>20. CASE UNCHANGED vars
  BY <1>20 DEF vars, Typed, TypeOK, Places, Fresh, Working, Threads, Nobody
<1> QED
  BY <1>1, <1>2, <1>3, <1>4, <1>5, <1>6, <1>7, <1>8, <1>9, <1>10,
     <1>11, <1>12, <1>13, <1>14, <1>15, <1>16, <1>17, <1>18, <1>19, <1>20 DEF
     Next, IoStep, TickStep, UpdateStep, Messages, API_ResourceTb_Flush_Process, Threads

(* The counts.                                                             *)
LEMMA CountsStep ==
  ASSUME Typed, [Next]_vars
  PROVE  Counts'
<1>1. ASSUME API_Load_ResourceTable
      PROVE  Counts'
  <2>1. Len(mem') \in Nat
    BY <1>1, Snapshot, LenProperties DEF API_Load_ResourceTable, Typed, TypeOK
  <2>2. add' = 0 /\ now' = now /\ \E to \in {"run", "verify"} : at' = [at EXCEPT !["io"] = to]
    BY <1>1 DEF API_Load_ResourceTable, Goes, fileVars
  <2>3. pre = 0 /\ pre' = 0 /\ at \in [Threads -> {"load", "verify", "run", "flush", "append", "drop",
                                    "save", "end", "idle", "add", "remove", "move", "check", "firmware"}]
    BY <1>1 DEF API_Load_ResourceTable, Typed, TypeOK, Fresh
  <2>4. \A t \in Threads : at'[t] \notin {"drop", "save", "append"}
    BY <1>1, <2>2, <2>3 DEF API_Load_ResourceTable, Typed, Fresh, Places, Working, Threads
  <2> QED
    BY <2>1, <2>2, <2>4 DEF Counts
<1>2. ASSUME API_ResourceTb_Verify
      PROVE  Counts'
  BY <1>2 DEF API_ResourceTb_Verify, Goes, tableVars, fileVars, updateVars, boundVars,
     Typed, TypeOK, Places, Fresh, Counts, Working, Threads, Nobody
<1>3. ASSUME NEW t \in Threads, Flush(t)
      PROVE  Counts'
  BY <1>3 DEF Flush, Goes, Unlocked, Returns, InFlush, tableVars, fileVars, updateVars,
     boundVars, Typed, TypeOK, Places, Fresh, Counts, Working, Threads, Nobody
<1>4. ASSUME NEW t \in Threads, FlushAppend(t)
      PROVE  Counts'
  BY <1>4 DEF FlushAppend, Goes, InFlush, Mishap, tableVars, fileVars, updateVars,
     boundVars, Typed, TypeOK, Places, Fresh, Counts, Working, Threads, Nobody
<1>5. ASSUME NEW t \in Threads, FlushDrop(t)
      PROVE  Counts'
  <2>1. [now EXCEPT !.table = Absent].table = Absent
    <3>1. Absent \in Tables /\ now \in Snapshots
      BY DEF Tables, Typed, TypeOK
    <3> QED
      BY <3>1, Snapshot
  <2> QED
    BY <1>5, <2>1 DEF FlushDrop, Goes, Unlocked, Returns, InFlush, Becomes, Typed, TypeOK, Places,
       Counts, Working, Threads, Nobody
<1>6. ASSUME NEW t \in Threads, FlushSave(t)
      PROVE  Counts'
  BY <1>6 DEF FlushSave, Goes, Unlocked, Returns, InFlush, Mishap, tableVars, fileVars,
     updateVars, boundVars, Typed, TypeOK, Places, Fresh, Counts, Working, Threads, Nobody
<1>7. ASSUME NEW t \in Threads, FlushEnd(t)
      PROVE  Counts'
  BY <1>7 DEF FlushEnd, Goes, Unlocked, Returns, InFlush, Sync, tableVars, fileVars,
     updateVars, boundVars, Typed, TypeOK, Places, Fresh, Counts, Working, Threads, Nobody
<1>8. ASSUME ResourceTable_AutoSave_Timer_Callback
      PROVE  Counts'
  BY <1>8 DEF ResourceTable_AutoSave_Timer_Callback, Goes, tableVars, fileVars,
     updateVars, boundVars, Typed, TypeOK, Places, Fresh, Counts, Working, Threads, Nobody
<1>9. ASSUME Age
      PROVE  Counts'
  BY <1>9 DEF Age, tableVars, fileVars, updateVars, boundVars, Typed, TypeOK, Places,
     Fresh, Counts, Working, Threads, Nobody
<1>10. ASSUME DeviceVersion
      PROVE  Counts'
  BY <1>10 DEF DeviceVersion, Message, tableVars, fileVars, updateVars, boundVars, Typed,
     TypeOK, Places, Fresh, Counts, Working, Threads, Nobody
<1>11. ASSUME NEW o \in Offers, DownloadStart(o)
      PROVE  Counts'
  BY <1>11 DEF DownloadStart, Message, tableVars, fileVars, updateVars, boundVars, Typed,
     TypeOK, Places, Fresh, Counts, Working, Threads, Nobody
<1>12. ASSUME UpdateStart
      PROVE  Counts'
  BY <1>12 DEF UpdateStart, Message, Goes, tableVars, fileVars, updateVars, boundVars,
     Typed, TypeOK, Places, Fresh, Counts, Working, Threads, Nobody
<1>13. ASSUME NEW rid \in Rids, RecordUpdated(rid)
      PROVE  Counts'
  <2>1. pre' = pre + 1 /\ pre \in Nat
    BY <1>13, Updated DEF RecordUpdated, Typed, TypeOK
  <2> QED
    BY <1>13, <2>1 DEF RecordUpdated, Message, fileVars, Typed, TypeOK, Places, Counts, Working,
       Threads, Nobody
<1>14. ASSUME UpdateAdd
      PROVE  Counts'
  <2>1. CASE loaded
    <3>1. Here \in Offers
      BY <1>14, ElementOfSeq DEF UpdateAdd, Here, Typed, TypeOK, Places
    <3>2. Of(Here[1], Here[2]) /\ mem \in Seq(Records) /\ add \in Nat /\ pre \in Nat
      BY <3>1 DEF Of, Typed, TypeOK
    <3>3. API_ResourceTb_AddOneRecord(Here[1], Here[2])
      BY <1>14, <2>1 DEF UpdateAdd
    <3>4. \/ pre' = pre /\ add' = add + 1 /\ Len(mem') = Len(mem) + 1
          \/ pre' = pre + 1
      BY <3>2, <3>3, Added
    <3>5. Len(mem) \in Nat
      BY <3>2, LenProperties
    <3> QED
      BY <1>14, <2>1, <3>2, <3>4, <3>5 DEF UpdateAdd, Goes, fileVars, Typed, TypeOK, Places, Counts,
         Working, Threads, Nobody
  <2> QED
    BY <1>14, <2>1 DEF UpdateAdd, Goes, fileVars, Typed, TypeOK, Places, Counts, Working, Threads,
       Nobody
<1>15. ASSUME UpdateRemove
      PROVE  Counts'
  <2>1. now'.table = now.table
    BY <1>15, Moved
  <2> QED
    BY <1>15, <2>1 DEF UpdateRemove, Goes, tableVars, Typed, TypeOK, Places, Counts, Working, Threads,
       Nobody
<1>16. ASSUME UpdateMove
      PROVE  Counts'
  <2>1. now'.table = now.table
    BY <1>16, Moved
  <2> QED
    BY <1>16, <2>1 DEF UpdateMove, NextItem, Goes, tableVars, Typed, TypeOK, Places, Counts, Working,
       Threads, Nobody
<1>17. ASSUME UpdateCheck
      PROVE  Counts'
  BY <1>17 DEF UpdateCheck, Goes, tableVars, fileVars, updateVars, boundVars, Typed,
     TypeOK, Places, Fresh, Counts, Working, Threads, Nobody
<1>18. ASSUME UpdateFirmware
      PROVE  Counts'
  <2>1. CASE Restart({WithoutFirmware})
    <3>1. /\ add' = 0 /\ mem' = <<>>
          /\ at' = [t \in Threads |-> IF t = "io" THEN "load" ELSE "idle"]
      BY <2>1, Restarted
    <3>2. Len(mem') = 0
      BY <3>1
    <3> QED
      BY <3>1, <3>2 DEF Counts
  <2>2. CASE ~ Restart({WithoutFirmware})
    <3>1. now'.table = now.table
      BY <1>18, <2>2, Unpacked DEF UpdateFirmware, Becomes, fileVars
    <3> QED
      BY <1>18, <2>2, <3>1 DEF UpdateFirmware, Goes, tableVars, Typed, TypeOK, Places, Counts,
         Working, Threads, Nobody
  <2> QED
    BY <2>1, <2>2
<1>19. ASSUME Crash
      PROVE  Counts'
  BY <1>19 DEF Crash, Mishap, Restart, tableVars, fileVars, updateVars, boundVars, Typed,
     TypeOK, Places, Fresh, Counts, Working, Threads, Nobody
<1>20. CASE UNCHANGED vars
  BY <1>20 DEF vars, Typed, TypeOK, Places, Fresh, Counts, Working, Threads, Nobody
<1> QED
  BY <1>1, <1>2, <1>3, <1>4, <1>5, <1>6, <1>7, <1>8, <1>9, <1>10,
     <1>11, <1>12, <1>13, <1>14, <1>15, <1>16, <1>17, <1>18, <1>19, <1>20 DEF
     Next, IoStep, TickStep, UpdateStep, Messages, API_ResourceTb_Flush_Process, Threads

LEMMA TypedStep ==
  ASSUME Typed, [Next]_vars
  PROVE  Typed'
BY TypesStep, PlacesStep, FreshStep, CountsStep DEF Typed
-----------------------------------------------------------------------------
(* What is in the file.                                                    *)

SameTables == /\ mem' = mem /\ add' = add /\ pre' = pre /\ damaged' = damaged /\ loaded' = loaded
              /\ now'.table = now.table
              /\ \A d \in disk' : \E e \in disk : d.table = e.table
              /\ Ending' <=> Ending

LEMMA SameFiled ==
  ASSUME Typed, Filed, SameTables
  PROVE  Filed'
<1>1. Saving' = Saving
  BY DEF Saving, SameTables
<1>2. Saved'
  BY <1>1 DEF Filed, Saved, SameTables
<1>3. Apart'
  BY <1>1 DEF Filed, Apart, SameTables
<1>4. Genuine'
  BY DEF Filed, Genuine, SameTables
<1> QED
  BY <1>2, <1>3, <1>4 DEF Filed

(* One thread at most is in a save.                                        *)
LEMMA OneSaves ==
  ASSUME Typed
  PROVE  /\ \A t \in Threads : at[t] \in {"append", "drop", "save"} => ~ Ending
         /\ lock = Nobody => ~ Ending
         /\ at["io"] \in {"load", "verify"} /\ lock = "io" => ~ Ending
         /\ at["io"] = "load" => ~ Ending
         /\ \A t \in Threads : at[t] \in Working => loaded
<1>1. ASSUME NEW t \in Threads, NEW u \in Threads, at[t] \in Working, at[u] \in Working
      PROVE  t = u /\ lock = t
  BY <1>1 DEF Typed, Places
<1>2. \A t \in Threads : at[t] \in Working => loaded
  BY DEF Typed, Places, Fresh, Working, Threads
<1>3. lock = Nobody => ~ Ending
  BY DEF Typed, Places, Working, Threads, Nobody, Ending
<1>4. at["io"] \in {"load", "verify"} /\ lock = "io" => ~ Ending
  BY DEF Typed, Places, Working, Threads, Ending
<1>5. at["io"] = "load" => ~ Ending
  BY <1>2 DEF Typed, Fresh, Working, Ending
<1> QED
  BY <1>1, <1>2, <1>3, <1>4, <1>5 DEF Working, Ending

(* Most steps leave the table and what is counted of it.                   *)
LEMMA Undisturbed ==
  ASSUME Typed,
         \/ \E t \in Threads : \/ Flush(t)
                               \/ (FlushDrop(t) \/ FlushSave(t)) /\ UNCHANGED fileVars /\ lock' = Nobody
         \/ ResourceTable_AutoSave_Timer_Callback \/ Age \/ DeviceVersion \/ UpdateStart
         \/ \E o \in Offers : DownloadStart(o)
         \/ UpdateRemove \/ UpdateMove \/ UpdateCheck
         \/ UpdateFirmware /\ ~ Restart({WithoutFirmware})
         \/ UpdateAdd /\ ~ loaded
         \/ API_ResourceTb_Verify /\ mem' = mem
         \/ UNCHANGED vars
  PROVE  SameTables
<1>1. ASSUME NEW t \in Threads, Flush(t)
      PROVE  SameTables
  BY <1>1 DEF Flush, Goes, Unlocked, Returns, InFlush, fileVars, Typed, TypeOK, Ending, Threads,
     SameTables
<1>2. ASSUME NEW t \in Threads, FlushDrop(t) \/ FlushSave(t), UNCHANGED fileVars, lock' = Nobody
      PROVE  SameTables
  <2>1. ~ Ending /\ at[t] \in {"drop", "save"}
    BY <1>2, OneSaves DEF FlushDrop, FlushSave
  <2>2. lock = t /\ t # Nobody
    BY <2>1 DEF Typed, Places, Working, Threads, Nobody
  <2>3. Unlocked(t) /\ add' = add /\ pre' = pre /\ damaged' = damaged /\ InFlush
    BY <1>2, <2>2 DEF FlushDrop, FlushSave
  <2> QED
    BY <1>2, <2>1, <2>3 DEF Goes, Unlocked, Returns, InFlush, fileVars, Typed, TypeOK, Ending,
       Threads, SameTables
<1>3. CASE ResourceTable_AutoSave_Timer_Callback
  BY <1>3 DEF ResourceTable_AutoSave_Timer_Callback, Goes, tableVars, fileVars, Typed, TypeOK, Ending,
     Threads, SameTables
<1>4. CASE Age
  BY <1>4 DEF Age, fileVars, Typed, TypeOK, Ending, SameTables
<1>5. CASE DeviceVersion \/ UpdateStart \/ \E o \in Offers : DownloadStart(o)
  BY <1>5 DEF DeviceVersion, UpdateStart, DownloadStart, Message, Goes, tableVars, fileVars, Typed,
     TypeOK, Ending, Threads, SameTables
<1>6. CASE UpdateRemove \/ UpdateMove
  <2>1. now'.table = now.table /\ disk' \subseteq disk \cup {now'} /\ now \in disk
    BY <1>6, Moved DEF Typed, TypeOK
  <2>2. Ending' <=> Ending
    BY <1>6 DEF UpdateRemove, UpdateMove, NextItem, Goes, Typed, TypeOK, Ending, Threads
  <2> QED
    BY <1>6, <2>1, <2>2 DEF UpdateRemove, UpdateMove, tableVars, SameTables
<1>7. CASE UpdateCheck
  BY <1>7 DEF UpdateCheck, Goes, tableVars, fileVars, Typed, TypeOK, Ending, Threads, SameTables
<1>8. CASE UpdateFirmware /\ ~ Restart({WithoutFirmware})
  <2>1. WithoutFirmware.table = now.table /\ now \in disk
    BY <1>8, Unpacked DEF Typed, TypeOK
  <2>2. Becomes(WithoutFirmware) \/ UNCHANGED fileVars
    BY <1>8 DEF UpdateFirmware
  <2>3. now'.table = now.table /\ \A d \in disk' : \E e \in disk : d.table = e.table
    BY <2>1, <2>2 DEF Becomes, fileVars
  <2>4. at["survey"] = "firmware" /\ Goes("survey", "idle") /\ UNCHANGED <<tableVars, damaged>>
    BY <1>8 DEF UpdateFirmware
  <2> QED
    BY <2>3, <2>4 DEF Goes, tableVars, Typed, TypeOK, Ending, Threads, SameTables
<1>9. CASE UpdateAdd /\ ~ loaded
  BY <1>9 DEF UpdateAdd, Goes, fileVars, Typed, TypeOK, Ending, Threads, SameTables
<1>10. CASE API_ResourceTb_Verify /\ mem' = mem
  <2>1. /\ at["io"] = "verify" /\ loaded' = loaded /\ add' = add /\ now' = now /\ disk' = disk
        /\ pre' = pre
        /\ at' = at \/ \E to \in {"flush", "run"} : at' = [at EXCEPT !["io"] = to]
    <3>1. mem \in Seq(Records) /\ Len(mem) \in Nat
      BY LenProperties DEF Typed, TypeOK
    <3> QED
      BY <1>10, <3>1, Verified
  <2>2. damaged' = damaged
    BY <1>10 DEF API_ResourceTb_Verify
  <2> QED
    BY <1>10, <2>1, <2>2 DEF Typed, TypeOK, Ending, Threads, SameTables
<1>11. CASE UNCHANGED vars
  BY <1>11 DEF vars, Ending, SameTables
<1> QED
  BY <1>1, <1>2, <1>3, <1>4, <1>5, <1>6, <1>7, <1>8, <1>9, <1>10, <1>11

(* A snapshot that holds a first part of another's table.                  *)
LEMMA StartFine ==
  ASSUME NEW s \in Seq(Records), NEW p, Start(p, s)
  PROVE  /\ Once(s) => Once(p)
         /\ Offered(s) => Offered(p)
<1>1. Len(p) \in 0 .. Len(s) /\ (\A j \in 1 .. Len(p) : p[j] = s[j]) /\ Len(s) \in Nat
  BY StartOf, LenProperties
<1>2. \A j \in 1 .. Len(p) : j \in 1 .. Len(s) /\ p[j] = s[j]
  BY <1>1
<1>3. Once(s) => Once(p)
  BY <1>2 DEF Once
<1>4. Offered(s) => Offered(p)
  BY <1>2 DEF Offered
<1> QED
  BY <1>3, <1>4

(* A gateway that starts again.                                            *)
LEMMA RestartFiled ==
  ASSUME Typed, Filed, NEW snapshots, Restart(snapshots),
         \A d \in snapshots : \E e \in disk : d.table = e.table
  PROVE  Filed'
<1>1. PICK e \in disk : now'.table = e.table
  BY Restarted
<1>2. disk' = {now'} /\ mem' = <<>> /\ loaded' = FALSE
  BY Restarted
<1>3. ~ Ending'
  BY Restarted DEF Ending
<1>4. Len(mem') = 0
  BY <1>2
<1>5. Once(Loaded(e.table)) /\ Offered(Loaded(e.table))
  BY DEF Filed, Apart, Genuine
<1>6. Once(mem') /\ Offered(mem')
  BY <1>4 DEF Once, Offered
<1>7. Saved' /\ Apart' /\ Genuine'
  BY <1>1, <1>2, <1>3, <1>5, <1>6 DEF Saved, Apart, Genuine
<1> QED
  BY <1>7 DEF Filed

(* What is written behind the records of a table: the added ones, or all   *)
(* but the first of them.                                                  *)
LEMMA Joined ==
  ASSUME NEW m \in Seq(Records), NEW n \in 0 .. Len(m), Once(m),
         NEW r \in Seq(Records), Once(r), Within(r, SubSeq(m, 1, n)),
         NEW w \in Seq(Records), NEW h \in {0, 1}, Len(w) = Len(m) - n - h,
         \A k \in 1 .. Len(w) : w[k] = m[n + h + k]
  PROVE  /\ Once(r \o w) /\ Within(r \o w, m)
         /\ Offered(r) /\ Offered(m) => Offered(r \o w)
<1> DEFINE j == r \o w
<1>1. /\ Len(j) = Len(r) + Len(w)
      /\ \A k \in 1 .. Len(r) + Len(w) : j[k] = IF k <= Len(r) THEN r[k] ELSE w[k - Len(r)]
  BY ConcatProperties
<1>2. Len(r) \in Nat /\ Len(w) \in Nat /\ Len(m) \in Nat /\ n \in Nat /\ h \in Nat
  BY LenProperties
<1>3. \A k \in 1 .. Len(r) : \E l \in 1 .. n : r[k].rid = m[l].rid
  BY Parts DEF Within
<1> HIDE DEF j
<1>4. ASSUME NEW k \in 1 .. Len(j), k <= Len(r)
      PROVE  j[k] = r[k] /\ k \in 1 .. Len(r) /\ \E l \in 1 .. n : j[k].rid = m[l].rid
  <2>1. k \in 1 .. Len(r) + Len(w) /\ k \in 1 .. Len(r)
    BY <1>1, <1>2, <1>4
  <2>2. j[k] = r[k]
    BY <1>1, <1>4, <2>1
  <2> QED
    BY <1>3, <2>1, <2>2
<1>5. ASSUME NEW k \in 1 .. Len(j), ~ (k <= Len(r))
      PROVE  \E q \in 1 .. Len(w) : /\ k = Len(r) + q /\ j[k] = m[n + h + q]
                                    /\ n + h + q \in n + 1 .. Len(m)
  <2>1. k - Len(r) \in 1 .. Len(w) /\ k = Len(r) + (k - Len(r)) /\ j[k] = w[k - Len(r)]
    BY <1>1, <1>2, <1>5
  <2>2. PICK q \in 1 .. Len(w) : k = Len(r) + q /\ j[k] = w[q]
    BY <2>1
  <2>3. n + h + q \in n + 1 .. Len(m)
    BY <1>2
  <2> QED
    BY <2>2, <2>3
<1>6. ASSUME NEW k \in 1 .. Len(j), NEW l \in 1 .. Len(j), j[k].rid = j[l].rid,
             k <= Len(r), ~ (l <= Len(r))
      PROVE  FALSE
  <2>1. PICK a \in 1 .. n : j[k].rid = m[a].rid
    BY <1>4, <1>6
  <2>2. PICK b \in n + 1 .. Len(m) : j[l] = m[b]
    BY <1>5, <1>6
  <2>3. a \in 1 .. Len(m) /\ b \in 1 .. Len(m)
    <3>1. a \in Nat /\ 1 <= a /\ a <= n /\ n <= Len(m)
      BY <1>2
    <3>2. b \in Nat /\ n + 1 <= b /\ b <= Len(m)
      BY <1>2
    <3> QED
      BY <1>2, <3>1, <3>2
  <2>4. a \in 1 .. Len(m) /\ b \in 1 .. Len(m) /\ m[a].rid = m[b].rid
    BY <1>6, <2>1, <2>2, <2>3
  <2>5. a = b
    BY <2>4 DEF Once
  <2> QED
    BY <1>2, <2>5
<1>7. ASSUME NEW k \in 1 .. Len(j), NEW l \in 1 .. Len(j), j[k].rid = j[l].rid
      PROVE  k = l
  <2>1. CASE k <= Len(r) /\ l <= Len(r)
    BY <1>4, <1>7, <2>1 DEF Once
  <2>2. CASE ~ (k <= Len(r)) /\ ~ (l <= Len(r))
    <3>1. PICK p \in 1 .. Len(w) : k = Len(r) + p /\ j[k] = m[n + h + p]
                                   /\ n + h + p \in n + 1 .. Len(m)
      BY <1>5, <2>2
    <3>2. PICK q \in 1 .. Len(w) : l = Len(r) + q /\ j[l] = m[n + h + q]
                                   /\ n + h + q \in n + 1 .. Len(m)
      BY <1>5, <2>2
    <3>3. n + h + p \in 1 .. Len(m) /\ n + h + q \in 1 .. Len(m)
      BY <1>2, <3>1, <3>2
    <3>4. n + h + p = n + h + q
      BY <1>7, <3>1, <3>2, <3>3 DEF Once
    <3> QED
      BY <1>2, <3>1, <3>2, <3>4
  <2> QED
    BY <1>6, <1>7, <2>1, <2>2
<1>8. ASSUME NEW k \in 1 .. Len(j)
      PROVE  \E l \in 1 .. Len(m) : j[k].rid = m[l].rid
  <2>1. CASE k <= Len(r)
    BY <1>2, <1>4, <2>1
  <2>2. CASE ~ (k <= Len(r))
    <3>1. PICK b \in n + 1 .. Len(m) : j[k] = m[b]
      BY <1>5, <2>2
    <3> QED
      BY <1>2, <3>1
  <2> QED
    BY <2>1, <2>2
<1>9. ASSUME Offered(r), Offered(m), NEW k \in 1 .. Len(j)
      PROVE  Of(j[k].rid, j[k].file)
  <2>1. CASE k <= Len(r)
    BY <1>4, <1>9, <2>1 DEF Offered
  <2>2. CASE ~ (k <= Len(r))
    <3>1. PICK b \in n + 1 .. Len(m) : j[k] = m[b]
      BY <1>5, <2>2
    <3> QED
      BY <1>2, <1>9, <3>1 DEF Offered
  <2> QED
    BY <2>1, <2>2
<1> QED
  BY <1>7, <1>8, <1>9 DEF Once, Within, Offered, j

LEMMA LoadFiled ==
  ASSUME Typed, Filed, API_Load_ResourceTable
  PROVE  Filed'
<1>1. /\ at["io"] = "load" /\ disk = {now} /\ now' = now /\ disk' = disk
      /\ mem' = Loaded(now.table) /\ mem' \in Seq(Records) /\ add' = 0
      /\ ~ Ending /\ \E to \in {"run", "verify"} : at' = [at EXCEPT !["io"] = to]
  BY OneSaves, Snapshot DEF API_Load_ResourceTable, Goes, fileVars, Typed, TypeOK, Fresh
<1>2. ~ Ending'
  BY <1>1 DEF Ending, Typed, TypeOK, Threads
<1>3. Saving' = mem'
  BY <1>1, SubSeqFull, LenProperties DEF Saving
<1>4. Within(mem', mem')
  BY DEF Within
<1>5. Saved' /\ Apart' /\ Genuine'
  BY <1>1, <1>2, <1>3, <1>4 DEF Filed, Saved, Apart, Genuine
<1> QED
  BY <1>5 DEF Filed

(* A change of the records after which the table is to be written anew.    *)
LEMMA ChangedFiled ==
  ASSUME Typed, Filed, ~ Ending', pre' > 0, disk' = disk, now' = now, Once(mem'), Offered(mem')
  PROVE  Filed'
<1>1. pre' # 0
  OBVIOUS
<1>2. Saved' /\ Apart' /\ Genuine'
  BY <1>1 DEF Filed, Saved, Apart, Genuine
<1> QED
  BY <1>2 DEF Filed

LEMMA VerifyFiled ==
  ASSUME Typed, Filed, API_ResourceTb_Verify
  PROVE  Filed'
<1>1. CASE mem' = mem
  BY <1>1, Undisturbed, SameFiled
<1>2. CASE mem' # mem
  <2>1. /\ at["io"] = "verify" /\ lock \in {Nobody, "io"} /\ now' = now /\ disk' = disk
        /\ at' = at /\ pre' = pre + 1 /\ i \in 1 .. Len(mem) /\ Len(mem') = Len(mem) - 1
        /\ \A k \in 1 .. Len(mem) - 1 : mem'[k] = IF k < i THEN mem[k] ELSE mem[k + 1]
    BY <1>2, Verified
  <2>2. Len(mem) \in Nat /\ pre \in Nat
    BY LenProperties DEF Typed, TypeOK
  <2>3. ~ Ending'
    BY <2>1, OneSaves DEF Ending
  <2>4. Once(mem')
    BY <2>1, <2>2 DEF Filed, Apart, Once
  <2>5. Offered(mem')
    BY <2>1, <2>2 DEF Filed, Genuine, Offered
  <2> QED
    BY <2>1, <2>2, <2>3, <2>4, <2>5, ChangedFiled
<1> QED
  BY <1>1, <1>2

LEMMA UpdatedFiled ==
  ASSUME Typed, Filed, NEW rid, RecordUpdated(rid)
  PROVE  Filed'
<1>1. mem \in Seq(Records) /\ add \in Nat /\ pre \in Nat /\ Len(mem) \in Nat
  BY LenProperties DEF Typed, TypeOK
<1>2. /\ lock = Nobody /\ at' = at /\ now' = now /\ disk' = disk
      /\ API_Resource_HaveUpdated(rid) \/ API_ResourceTb_DelOneRecord(rid)
  BY DEF RecordUpdated, Message, fileVars
<1>3. pre' = pre + 1
  BY <1>1, <1>2, Updated
<1>4. PICK h \in 0 .. Len(mem) :
        /\ Len(mem') \in {Len(mem), Len(mem) - 1}
        /\ \A k \in 1 .. Len(mem') :
             LET j == IF Len(mem') = Len(mem) \/ k < h THEN k ELSE k + 1
             IN  /\ j \in 1 .. Len(mem)
                 /\ mem'[k].rid = mem[j].rid /\ mem'[k].file = mem[j].file
  BY <1>1, <1>2, Updated
<1>5. ~ Ending'
  BY <1>2, OneSaves DEF Ending
<1>6. Once(mem')
  <2>1. ASSUME NEW k \in 1 .. Len(mem'), NEW l \in 1 .. Len(mem'), mem'[k].rid = mem'[l].rid
        PROVE  k = l
    <3>1. CASE Len(mem') = Len(mem)
      BY <1>1, <1>4, <2>1, <3>1 DEF Filed, Apart, Once
    <3>2. CASE Len(mem') # Len(mem)
      <4>1. /\ (IF k < h THEN k ELSE k + 1) \in 1 .. Len(mem)
            /\ (IF l < h THEN l ELSE l + 1) \in 1 .. Len(mem)
            /\ mem[IF k < h THEN k ELSE k + 1].rid = mem[IF l < h THEN l ELSE l + 1].rid
        BY <1>4, <2>1, <3>2
      <4>2. (IF k < h THEN k ELSE k + 1) = (IF l < h THEN l ELSE l + 1)
        BY <4>1 DEF Filed, Apart, Once
      <4> QED
        BY <1>1, <1>4, <4>2
    <3> QED
      BY <3>1, <3>2
  <2> QED
    BY <2>1 DEF Once
<1>7. Offered(mem')
  BY <1>1, <1>4 DEF Filed, Genuine, Offered
<1> QED
  BY <1>1, <1>2, <1>3, <1>5, <1>6, <1>7, ChangedFiled

LEMMA AddFiled ==
  ASSUME Typed, Filed, UpdateAdd, loaded
  PROVE  Filed'
<1>1. Here \in Offers
  BY ElementOfSeq DEF UpdateAdd, Here, Typed, TypeOK, Places
<1>2. /\ Of(Here[1], Here[2]) /\ mem \in Seq(Records) /\ add \in Nat /\ pre \in Nat
      /\ Len(mem) \in Nat
  BY <1>1, LenProperties DEF Of, Typed, TypeOK
<1>3. /\ API_ResourceTb_AddOneRecord(Here[1], Here[2]) /\ lock = Nobody
      /\ loaded' = loaded /\ now' = now /\ disk' = disk /\ damaged' = damaged
      /\ at' = [at EXCEPT !["survey"] = "remove"] /\ at["survey"] = "add"
  BY DEF UpdateAdd, Goes, fileVars
<1>4. ~ Ending /\ ~ Ending'
  BY <1>3, OneSaves DEF Ending, Typed, TypeOK, Threads
<1>5. PICK rid, f : rid = Here[1] /\ f = Here[2]
  OBVIOUS
<1>6. Of(rid, f) /\ API_ResourceTb_AddOneRecord(rid, f)
  BY <1>2, <1>3, <1>5
<1>7. /\ mem' \in Seq(Records) /\ add' \in Nat /\ pre' \in Nat
      /\ \/ /\ pre' = pre /\ add' = add + 1 /\ Len(mem') = Len(mem) + 1
            /\ \A k \in 1 .. Len(mem) : mem'[k] = mem[k] /\ mem[k].rid # rid
            /\ mem'[Len(mem) + 1].rid = rid /\ mem'[Len(mem) + 1].file = f
         \/ /\ Index(rid) \in 1 .. Len(mem) /\ pre' = pre + 1 /\ add' = add
            /\ mem[Index(rid)].rid = rid /\ Len(mem') = Len(mem)
            /\ \A k \in 1 .. Len(mem) :
                 IF k = Index(rid) THEN mem'[k].rid = rid /\ mem'[k].file = f
                                   ELSE mem'[k] = mem[k]
  BY <1>2, <1>6, Added
<1>8. CASE /\ pre' = pre /\ add' = add + 1 /\ Len(mem') = Len(mem) + 1
           /\ \A k \in 1 .. Len(mem) : mem'[k] = mem[k] /\ mem[k].rid # rid
           /\ mem'[Len(mem) + 1].rid = rid /\ mem'[Len(mem) + 1].file = f
  <2>1. Once(mem')
    BY <1>2, <1>8 DEF Filed, Apart, Once
  <2>2. Offered(mem')
    BY <1>2, <1>8, <1>6 DEF Filed, Genuine, Offered
  <2>3. pre = 0 => Saving' = Saving
    <3>1. SUFFICES ASSUME pre = 0 PROVE Saving' = Saving
      OBVIOUS
    <3>2. /\ Len(mem) - add \in 0 .. Len(mem) /\ Len(mem') - add' = Len(mem) - add
          /\ Len(mem') - add' \in 0 .. Len(mem')
      BY <1>2, <1>8, <3>1 DEF Typed, Counts
    <3> DEFINE n == Len(mem) - add
               a == SubSeq(mem, 1, n)
               b == SubSeq(mem', 1, n)
    <3> HIDE DEF n
    <3>3. a \in Seq(Records) /\ Len(a) = n /\ \A k \in 1 .. n : a[k] = mem[k]
      BY <1>2, <3>2, Parts DEF n
    <3>4. b \in Seq(Records) /\ Len(b) = n /\ \A k \in 1 .. n : b[k] = mem'[k]
      BY <1>7, <3>2, Parts DEF n
    <3> HIDE DEF a, b
    <3>5. \A k \in 1 .. n : a[k] = b[k]
      BY <1>2, <1>8, <3>2, <3>3, <3>4 DEF n
    <3>6. a = b
      BY <3>3, <3>4, <3>5, SeqEqual
    <3> QED
      BY <3>2, <3>6 DEF Saving, a, b, n
  <2>4. Saved' /\ Apart' /\ Genuine'
    BY <1>3, <1>4, <1>8, <2>1, <2>2, <2>3 DEF Filed, Saved, Apart, Genuine
  <2> QED
    BY <2>4 DEF Filed
<1>9. CASE /\ Index(rid) \in 1 .. Len(mem) /\ pre' = pre + 1
           /\ mem[Index(rid)].rid = rid /\ Len(mem') = Len(mem)
           /\ \A k \in 1 .. Len(mem) :
                IF k = Index(rid) THEN mem'[k].rid = rid /\ mem'[k].file = f
                                  ELSE mem'[k] = mem[k]
  <2>1. Once(mem')
    BY <1>2, <1>9 DEF Filed, Apart, Once
  <2>2. Offered(mem')
    BY <1>2, <1>9, <1>6 DEF Filed, Genuine, Offered
  <2> QED
    BY <1>2, <1>3, <1>4, <1>9, <2>1, <2>2, ChangedFiled
<1> QED
  BY <1>7, <1>8, <1>9

(* What the snapshots are that a save may leave.                           *)
LEMMA WriteFiled ==
  ASSUME Typed, Filed, disk' \subseteq Snapshots, NEW s \in Seq(Records), Once(s), Offered(s),
         \A d \in disk' : d \in disk \/ Start(Loaded(d.table), s)
  PROVE  \A d \in disk' : Once(Loaded(d.table)) /\ Offered(Loaded(d.table))
BY StartFine DEF Filed, Apart, Genuine

LEMMA AppendFiled ==
  ASSUME Typed, Filed, NEW t \in Threads, FlushAppend(t)
  PROVE  Filed'
<1>1. /\ mem \in Seq(Records) /\ now \in Snapshots /\ now \in disk /\ disk \subseteq Snapshots
      /\ damaged \in BOOLEAN
  BY DEF Typed, TypeOK
<1>2. /\ at[t] = "append" /\ at' = [at EXCEPT ![t] = "end"] /\ mem' = mem /\ add' = add /\ pre' = pre
      /\ loaded' = loaded
  BY DEF FlushAppend, Goes, InFlush
<1>3. ~ Ending /\ loaded
  BY <1>2, OneSaves DEF Working
<1>4. Ending'
  BY <1>2 DEF Ending, Typed, TypeOK
<1> DEFINE n == Len(mem) - add
           new == SubSeq(mem, n + 1, Len(mem))
           r == Loaded(now.table)
<1>5. /\ n \in 0 .. Len(mem) /\ pre = 0 /\ add > 0
      /\ new \in Seq(Records) /\ Len(new) = add /\ new # <<>>
      /\ \A k \in 1 .. add : new[k] = mem[n + k]
      /\ Saving \o new = mem
  BY <1>2, Appends
<1>6. /\ \/ save_vtk_table_file_buffer(new) /\ damaged' = (damaged \/ Spoilt(now.table))
         \/ damaged' = TRUE /\ now' = now /\ disk' = disk
  BY DEF FlushAppend, fileVars
<1>7. Once(mem) /\ Offered(mem) /\ Once(r) /\ Offered(r) /\ Within(r, SubSeq(mem, 1, n))
      /\ r \in Seq(Records)
  BY <1>1, <1>3, <1>5, Snapshot DEF Filed, Apart, Genuine, Saving
<1>8. ~ damaged => r = Saving
  BY <1>1, <1>3, <1>5 DEF Filed, Saved
<1> HIDE DEF n, new, r
<1>9. Len(mem) - n = add /\ Len(mem) \in Nat /\ add \in Nat
  BY <1>1, LenProperties DEF n, Typed, TypeOK
<1>12. /\ mem \in Seq(Records) /\ n \in 0 .. Len(mem) /\ Once(mem) /\ Offered(mem)
       /\ r \in Seq(Records) /\ Once(r) /\ Offered(r) /\ Within(r, SubSeq(mem, 1, n))
       /\ new \in Seq(Records) /\ 0 \in {0, 1} /\ 1 \in {0, 1}
  BY <1>1, <1>5, <1>7
<1>10. CASE now' = now /\ disk' = disk /\ damaged'
  <2>1. Within(r, mem)
    <3>1. \A j \in 1 .. Len(r) : \E k \in 1 .. n : r[j].rid = mem[k].rid
      BY <1>1, <1>5, <1>7, Parts DEF Within
    <3>2. 1 .. n \subseteq 1 .. Len(mem)
      BY <1>5, <1>9
    <3> QED
      BY <3>1, <3>2 DEF Within
  <2>2. Saved' /\ Apart' /\ Genuine'
    BY <1>2, <1>4, <1>5, <1>10, <2>1 DEF Filed, Saved, Apart, Genuine, r
  <2> QED
    BY <2>2 DEF Filed
<1>11. CASE save_vtk_table_file_buffer(new) /\ damaged' = (damaged \/ Spoilt(now.table))
  <2>1. /\ now' \in disk' /\ disk' \subseteq Snapshots
        /\ \A d \in disk' : d \in disk \/ Start(Loaded(d.table), Loaded(now'.table))
        /\ ~ Spoilt(now.table) => Loaded(now'.table) = r \o new
        /\ \/ now'.table = now.table
           \/ \E u \in {r, Front(r)}, w \in {new, Tail(new)} : Loaded(now'.table) = u \o w
        /\ now' \in Snapshots
    BY <1>1, <1>5, <1>11, WriteTable DEF r
  <2>2. ~ damaged' => Loaded(now'.table) = mem
    BY <1>5, <1>8, <1>11, <2>1
  <2>9. ASSUME NEW u \in {r, Front(r)}
        PROVE  /\ u \in Seq(Records) /\ Once(u) /\ Offered(u)
               /\ Within(u, SubSeq(mem, 1, n))
    <3>1. Front(r) \in Seq(Records) /\ Start(Front(r), r)
      BY <1>7, FrontIsStart
    <3>2. Once(Front(r)) /\ Offered(Front(r))
      BY <1>7, <3>1, StartFine
    <3>3. Within(Front(r), SubSeq(mem, 1, n))
      <4>1. /\ Len(Front(r)) \in 0 .. Len(r) /\ Len(r) \in Nat
            /\ \A j \in 1 .. Len(Front(r)) : Front(r)[j] = r[j]
        BY <1>7, <3>1, StartOf, LenProperties
      <4>2. \A j \in 1 .. Len(Front(r)) : j \in 1 .. Len(r)
        BY <4>1
      <4> QED
        BY <1>7, <4>1, <4>2 DEF Within
    <3> QED
      BY <1>7, <3>1, <3>2, <3>3
  <2>3. ASSUME NEW u \in {r, Front(r)}
        PROVE  Once(u \o new) /\ Within(u \o new, mem) /\ Offered(u \o new)
    <3>1. n \in Nat /\ n + 0 = n /\ Len(mem) - n - 0 = Len(mem) - n
      BY <1>5, <1>9
    <3>2. Len(new) = Len(mem) - n - 0 /\ \A k \in 1 .. Len(new) : new[k] = mem[n + 0 + k]
      BY <1>5, <1>9, <3>1
    <3> QED
      BY <1>12, <2>9, <3>2, Joined
  <2>4. ASSUME NEW u \in {r, Front(r)}
        PROVE  /\ Once(u \o Tail(new)) /\ Within(u \o Tail(new), mem)
               /\ Offered(u \o Tail(new))
    <3>1. /\ Tail(new) \in Seq(Records) /\ Len(Tail(new)) = Len(new) - 1
          /\ \A k \in 1 .. Len(Tail(new)) : Tail(new)[k] = new[k + 1]
      BY <1>5, HeadTailProperties
    <3>2. Len(Tail(new)) = Len(mem) - n - 1
      BY <1>5, <1>9, <3>1
    <3>3. \A k \in 1 .. Len(Tail(new)) : Tail(new)[k] = mem[n + 1 + k]
      <4>1. ASSUME NEW k \in 1 .. Len(Tail(new))
            PROVE  Tail(new)[k] = mem[n + 1 + k]
        <5>1. k + 1 \in 1 .. add /\ n + (k + 1) = n + 1 + k
          BY <1>5, <1>9, <3>1
        <5> QED
          BY <1>5, <3>1, <5>1
      <4> QED
        BY <4>1
    <3> QED
      <4>1. PICK w \in Seq(Records) : w = Tail(new)
        BY <3>1
      <4>2. Len(w) = Len(mem) - n - 1 /\ \A k \in 1 .. Len(w) : w[k] = mem[n + 1 + k]
        BY <3>2, <3>3, <4>1
      <4> HIDE DEF new
      <4>3. Once(u \o w) /\ Within(u \o w, mem) /\ Offered(u \o w)
        BY <1>12, <2>9, <4>2, Joined
      <4> QED
        BY <4>1, <4>3
  <2>5. Within(r, mem)
    <3>1. \A j \in 1 .. Len(r) : \E k \in 1 .. n : r[j].rid = mem[k].rid
      BY <1>1, <1>5, <1>7, Parts DEF Within
    <3>2. 1 .. n \subseteq 1 .. Len(mem)
      BY <1>5, <1>9
    <3> QED
      BY <3>1, <3>2 DEF Within
  <2>6. /\ Once(Loaded(now'.table)) /\ Offered(Loaded(now'.table)) /\ Within(Loaded(now'.table), mem)
    BY <1>7, <2>1, <2>3, <2>4, <2>5 DEF r
  <2>7. \A d \in disk' : Once(Loaded(d.table)) /\ Offered(Loaded(d.table))
    BY <2>1, <2>6, Snapshot, WriteFiled
  <2>8. Saved' /\ Apart' /\ Genuine'
    BY <1>2, <1>4, <1>7, <2>2, <2>6, <2>7 DEF Saved, Apart, Genuine
  <2> QED
    BY <2>8 DEF Filed
<1> QED
  BY <1>6, <1>10, <1>11

LEMMA DropFiled ==
  ASSUME Typed, Filed, NEW t \in Threads, FlushDrop(t)
  PROVE  Filed'
<1>1. at[t] = "drop" /\ ~ Ending /\ pre > 0 /\ pre' = pre /\ mem' = mem /\ add' = add
  BY OneSaves DEF FlushDrop, InFlush, Typed, Counts
<1>2. CASE UNCHANGED fileVars /\ lock' = Nobody
  BY <1>2, Undisturbed, SameFiled
<1>3. CASE Becomes([now EXCEPT !.table = Absent]) /\ Goes(t, "save")
  <2>1. now' \in Snapshots /\ now'.table = Absent /\ disk' = disk \cup {now'}
    <3>1. now \in Snapshots /\ Absent \in Tables
      BY DEF Typed, TypeOK, Tables
    <3> QED
      BY <1>3, <3>1, Snapshot DEF Becomes
  <2>2. Loaded(now'.table) = <<>> /\ Len(<<>>) = 0
    BY <2>1 DEF Loaded
  <2>3. \A d \in disk' : Once(Loaded(d.table)) /\ Offered(Loaded(d.table))
    <3>1. \A d \in disk : Once(Loaded(d.table)) /\ Offered(Loaded(d.table))
      BY DEF Filed, Apart, Genuine
    <3>2. \A s : Len(s) = 0 => Once(s) /\ Offered(s)
      BY DEF Once, Offered
    <3>3. Once(Loaded(now'.table)) /\ Offered(Loaded(now'.table))
      BY <2>2, <3>2
    <3> QED
      BY <2>1, <3>1, <3>3
  <2>4. ~ Ending'
    BY <1>1, <1>3 DEF Goes, Ending, Typed, TypeOK, Threads
  <2>5. pre' # 0
    BY <1>1
  <2>6. Saved' /\ Apart' /\ Genuine'
    BY <1>1, <2>3, <2>4, <2>5 DEF Filed, Saved, Apart, Genuine
  <2> QED
    BY <2>6 DEF Filed
<1> QED
  BY <1>2, <1>3 DEF FlushDrop, Unlocked

LEMMA SaveFiled ==
  ASSUME Typed, Filed, NEW t \in Threads, FlushSave(t)
  PROVE  Filed'
<1>1. /\ at[t] = "save" /\ ~ Ending /\ mem' = mem /\ now.table = Absent
      /\ mem \in Seq(Records) /\ now \in Snapshots /\ now \in disk /\ disk \subseteq Snapshots
  BY OneSaves DEF FlushSave, InFlush, Typed, TypeOK, Counts
<1>2. CASE UNCHANGED fileVars /\ lock' = Nobody
  BY <1>2, Undisturbed, SameFiled
<1>3. CASE save_vtk_table_file_buffer(mem) /\ Goes(t, "end")
  <2>1. /\ disk' \subseteq Snapshots /\ Loaded(now'.table) = mem
        /\ \A d \in disk' : d \in disk \/ Start(Loaded(d.table), mem)
    BY <1>1, <1>3, WriteTable
  <2>2. Ending'
    BY <1>3 DEF Goes, Ending, Typed, TypeOK
  <2>3. Once(mem) /\ Offered(mem) /\ Within(mem, mem)
    BY DEF Filed, Apart, Genuine, Within
  <2>4. \A d \in disk' : Once(Loaded(d.table)) /\ Offered(Loaded(d.table))
    BY <1>1, <2>1, <2>3, WriteFiled
  <2>5. Saved' /\ Apart' /\ Genuine'
    BY <1>1, <2>1, <2>2, <2>3, <2>4 DEF Saved, Apart, Genuine
  <2> QED
    BY <2>5 DEF Filed
<1> QED
  BY <1>2, <1>3 DEF FlushSave, Unlocked

LEMMA EndFiled ==
  ASSUME Typed, Filed, NEW t \in Threads, FlushEnd(t)
  PROVE  Filed'
<1>1. /\ at[t] = "end" /\ mem' = mem /\ damaged' = damaged /\ now' = now /\ disk' = {now}
      /\ add' = 0 /\ at' = [at EXCEPT ![t] = Returns(t)]
      /\ mem \in Seq(Records) /\ now \in disk
  BY DEF FlushEnd, InFlush, Sync, Unlocked, Goes, Typed, TypeOK
<1>2. Ending
  BY <1>1 DEF Ending
<1>3. ~ Ending'
  <2>1. \A u \in Threads : at[u] = "end" => u = t
    BY <1>1 DEF Typed, Places, Working
  <2> QED
    BY <1>1, <2>1 DEF Returns, Ending, Typed, TypeOK, Threads
<1>4. Saving' = mem
  BY <1>1, SubSeqFull, LenProperties DEF Saving
<1>5. Saved' /\ Apart' /\ Genuine'
  BY <1>1, <1>2, <1>3, <1>4 DEF Filed, Saved, Apart, Genuine
<1> QED
  BY <1>5 DEF Filed

(* Every step.                                                             *)
LEMMA FiledStep ==
  ASSUME Typed, Filed, [Next]_vars
  PROVE  Filed'
<1>1. ASSUME NEW t \in Threads, API_ResourceTb_Flush_Process(t)
      PROVE  Filed'
  <2>1. CASE Flush(t)
    BY <2>1, Undisturbed, SameFiled
  <2> QED
    BY <1>1, <2>1, AppendFiled, DropFiled, SaveFiled, EndFiled DEF API_ResourceTb_Flush_Process
<1>2. CASE IoStep
  BY <1>1, <1>2, LoadFiled, VerifyFiled DEF IoStep, Threads
<1>3. CASE TickStep
  BY <1>1, <1>3, Undisturbed, SameFiled DEF TickStep, Threads
<1>4. CASE UpdateStep
  <2>1. CASE UpdateAdd
    BY <2>1, AddFiled, Undisturbed, SameFiled
  <2>2. CASE UpdateRemove \/ UpdateMove \/ UpdateCheck
    BY <2>2, Undisturbed, SameFiled
  <2>3. CASE UpdateFirmware
    <3>1. CASE Restart({WithoutFirmware})
      <4>1. \A d \in {WithoutFirmware} : \E e \in disk : d.table = e.table
        BY <2>3, Unpacked DEF Typed, TypeOK
      <4> QED
        BY <3>1, <4>1, RestartFiled
    <3> QED
      BY <2>3, <3>1, Undisturbed, SameFiled
  <2> QED
    BY <1>1, <1>4, <2>1, <2>2, <2>3 DEF UpdateStep, Threads
<1>5. CASE Messages
  BY <1>5, UpdatedFiled, Undisturbed, SameFiled DEF Messages
<1>6. CASE Age \/ UNCHANGED vars
  BY <1>6, Undisturbed, SameFiled
<1>7. CASE Crash
  BY <1>7, RestartFiled DEF Crash
<1> QED
  BY <1>2, <1>3, <1>4, <1>5, <1>6, <1>7 DEF Next
-----------------------------------------------------------------------------
(* Records and resource files.                                             *)

(* A file is the file of one resource.                                     *)
LEMMA OwnFile ==
  ASSUME NEW rid, NEW sid, NEW f, Of(rid, f), Of(sid, f)
  PROVE  rid = sid
BY ResourceAssumption DEF Of

(* A step that changes neither records nor files, and starts no move.      *)
SameFiles == /\ mem' = mem /\ now'.here = now.here /\ failed' = failed /\ i' = i
             /\ at["io"] = "verify" => at'["io"] = "verify"
             /\ \/ ~ Moving /\ ~ Moving'
                \/ /\ at'["survey"] = at["survey"] /\ list' = list /\ item' = item /\ old' = old

LEMMA SameKept ==
  ASSUME Kept, SameFiles
  PROVE  Kept'
<1>1. CASE ~ Moving /\ ~ Moving'
  BY <1>1 DEF Kept, SameFiles, Excused, Pending, Moving
<1>2. CASE at'["survey"] = at["survey"] /\ list' = list /\ item' = item /\ old' = old
  <2>1. Here' = Here /\ Moving' = Moving
    BY <1>2 DEF Here, Moving
  <2> QED
    BY <1>2, <2>1 DEF Kept, SameFiles, Excused, Pending
<1> QED
  BY <1>1, <1>2 DEF SameFiles

(* A save leaves the resource files.                                       *)
LEMMA SaveLeavesFiles ==
  ASSUME Typed, NEW t \in Threads, API_ResourceTb_Flush_Process(t)
  PROVE  /\ now'.here = now.here /\ InFlush
         /\ \A d \in disk' : d \in disk \/ d.here = now.here
         /\ \A u \in Threads : u # t => at'[u] = at[u]
         /\ at[t] \in {"flush"} \cup Working
         /\ at'[t] \in {"append", "drop", "save", "end", Returns(t)}
         /\ lock \in {Nobody, t}
<1>1. now \in Snapshots /\ now \in disk /\ Absent \in Tables
  BY DEF Typed, TypeOK, Tables
<1>2. /\ InFlush /\ at[t] \in {"flush"} \cup Working
      /\ \E to \in {"append", "drop", "save", "end", Returns(t)} : at' = [at EXCEPT ![t] = to]
  BY DEF API_ResourceTb_Flush_Process, Flush, FlushAppend, FlushDrop, FlushSave, FlushEnd, Unlocked,
     Goes, Working
<1>3. /\ now'.here = now.here
      /\ \A d \in disk' : d \in disk \/ d.here = now.here
  <2>1. CASE FlushAppend(t) \/ FlushSave(t)
    <3>1. CASE now' = now /\ disk' = disk
      BY <3>1
    <3>2. CASE save_vtk_table_file_buffer(SubSeq(mem, Len(mem) - add + 1, Len(mem)))
               /\ at[t] = "append"
      <4>1. PICK new \in Seq(Records) : new # <<>> /\ new = SubSeq(mem, Len(mem) - add + 1, Len(mem))
        BY <3>2, Appends
      <4> QED
        BY <1>1, <3>2, <4>1, WriteTable DEF Typed
    <3>3. CASE save_vtk_table_file_buffer(mem) /\ at[t] = "save"
      BY <1>1, <3>3, WriteTable DEF Typed, TypeOK, Counts
    <3> QED
      BY <2>1, <3>1, <3>2, <3>3 DEF FlushAppend, FlushSave, fileVars
  <2>2. CASE FlushDrop(t)
    <3>1. [now EXCEPT !.table = Absent].here = now.here
      BY <1>1, Snapshot
    <3> QED
      BY <2>2, <3>1 DEF FlushDrop, Becomes, fileVars
  <2>3. CASE Flush(t) \/ FlushEnd(t)
    BY <1>1, <2>3 DEF Flush, FlushEnd, Sync, fileVars
  <2> QED
    BY <2>1, <2>2, <2>3 DEF API_ResourceTb_Flush_Process
<1>4. lock \in {Nobody, t}
  BY DEF API_ResourceTb_Flush_Process, Flush, FlushAppend, FlushDrop, FlushSave, FlushEnd, Typed,
     Places, Working
<1> QED
  BY <1>2, <1>3, <1>4 DEF Typed, TypeOK, Threads

LEMMA VerifyKept ==
  ASSUME Typed, Filed, Kept, API_ResourceTb_Verify
  PROVE  Kept'
<1>1. /\ mem \in Seq(Records) /\ Len(mem) \in Nat /\ i \in Nat \ {0} /\ at["io"] = "verify"
      /\ at \in [Threads -> {"load", "verify", "run", "flush", "append", "drop", "save", "end", "idle",
                             "add", "remove", "move", "check", "firmware"}]
  BY LenProperties DEF Typed, TypeOK, Places, API_ResourceTb_Verify
<1>2. now' = now /\ failed' = failed /\ list' = list /\ item' = item /\ old' = old
  BY DEF API_ResourceTb_Verify, fileVars, updateVars
<1>3. at'["survey"] = at["survey"]
  BY <1>1, Verified DEF Threads
<1>4. Here' = Here /\ Moving' = Moving
  BY <1>2, <1>3 DEF Here, Moving
<1>5. CASE /\ i \in 1 .. Len(mem) /\ mem[i].file \in now.here
           /\ at' = at /\ i' = i + 1 /\ mem' = mem
  <2>1. ASSUME NEW k \in 1 .. Len(mem')
        PROVE  mem'[k].file \in now'.here \/ Excused(mem[k])' \/ Pending(k)'
    <3>1. k \in 1 .. Len(mem) /\ (k = i \/ k >= i + 1 \/ ~ (k >= i))
      BY <1>1, <1>5
    <3> QED
      BY <1>1, <1>2, <1>4, <1>5, <3>1 DEF Kept, Excused, Pending
  <2> QED
    BY <1>2, <1>3, <1>4, <1>5, <2>1 DEF Kept
<1>6. CASE /\ i \in 1 .. Len(mem) /\ at' = at /\ i' = i /\ Len(mem') = Len(mem) - 1
           /\ \A k \in 1 .. Len(mem) - 1 : mem'[k] = IF k < i THEN mem[k] ELSE mem[k + 1]
  <2>1. ASSUME NEW k \in 1 .. Len(mem')
        PROVE  /\ mem'[k].file \in now'.here \/ Excused(mem[k])' \/ Pending(k)'
               /\ Moving' => (mem'[k].rid = Here'[1] => mem'[k].file = Here'[2])
    <3>1. k \in 1 .. Len(mem) /\ k + 1 \in 1 .. Len(mem) /\ (k < i <=> ~ (k >= i))
      BY <1>1, <1>6
    <3>2. CASE k < i
      <4>1. mem'[k] = mem[k]
        BY <1>1, <1>6, <3>2
      <4> QED
        BY <1>1, <1>2, <1>4, <1>6, <3>1, <3>2, <4>1 DEF Kept, Excused, Pending
    <3>3. CASE k >= i
      <4>1. mem'[k] = mem[k + 1]
        BY <1>1, <1>6, <3>1, <3>3
      <4> QED
        BY <1>1, <1>2, <1>4, <1>6, <3>1, <3>3, <4>1 DEF Kept, Excused, Pending
    <3> QED
      BY <3>1, <3>2, <3>3
  <2> QED
    BY <1>2, <1>3, <1>4, <2>1 DEF Kept
<1>7. CASE i > Len(mem) /\ i' = i /\ mem' = mem
  <2>1. \A k \in 1 .. Len(mem) : ~ (k >= i)
    BY <1>1, <1>7
  <2> QED
    BY <1>2, <1>3, <1>4, <1>7, <2>1 DEF Kept, Excused, Pending
<1> QED
  BY <1>5, <1>6, <1>7, Verified

LEMMA UpdatedKept ==
  ASSUME Typed, Filed, Kept, NEW rid, RecordUpdated(rid)
  PROVE  Kept'
<1>1. mem \in Seq(Records) /\ add \in Nat /\ pre \in Nat
  BY DEF Typed, TypeOK
<1>2. /\ lock = Nobody /\ at' = at /\ now' = now /\ failed' = failed /\ i' = i
      /\ at["survey"] = "idle"
      /\ API_Resource_HaveUpdated(rid) \/ API_ResourceTb_DelOneRecord(rid)
  BY DEF RecordUpdated, Message, fileVars, updateVars
<1>3. ~ Moving /\ ~ Moving'
  BY <1>2 DEF Moving
<1>4. at["io"] = "verify" => i = 1
  BY <1>2 DEF Typed, Places, Nobody
<1>5. PICK h \in 0 .. Len(mem) :
        /\ Len(mem') \in {Len(mem), Len(mem) - 1}
        /\ \A k \in 1 .. Len(mem') :
             LET j == IF Len(mem') = Len(mem) \/ k < h THEN k ELSE k + 1
             IN  /\ j \in 1 .. Len(mem)
                 /\ mem'[k].rid = mem[j].rid /\ mem'[k].file = mem[j].file
  BY <1>1, <1>2, Updated
<1>6. ASSUME NEW k \in 1 .. Len(mem')
      PROVE  mem'[k].file \in now'.here \/ Excused(mem[k])' \/ Pending(k)'
  <2>1. PICK j \in 1 .. Len(mem) : mem'[k].rid = mem[j].rid /\ mem'[k].file = mem[j].file
    BY <1>5
  <2>2. mem[j].file \in now.here \/ Excused(mem[j]) \/ at["io"] = "verify"
    BY <1>3 DEF Kept, Pending
  <2> QED
    BY <1>2, <1>4, <2>1, <2>2 DEF Excused, Pending
<1> QED
  BY <1>2, <1>3, <1>6 DEF Kept, Moving

LEMMA AddKept ==
  ASSUME Typed, Filed, Kept, UpdateAdd, loaded
  PROVE  Kept'
<1>1. Here \in Offers
  BY ElementOfSeq DEF UpdateAdd, Here, Typed, TypeOK, Places
<1>2. /\ Of(Here[1], Here[2]) /\ mem \in Seq(Records) /\ add \in Nat /\ pre \in Nat
      /\ Len(mem) \in Nat
  BY <1>1, LenProperties DEF Of, Typed, TypeOK
<1>3. /\ API_ResourceTb_AddOneRecord(Here[1], Here[2]) /\ lock = Nobody
      /\ now' = now /\ failed' = failed /\ i' = i /\ list' = list /\ item' = item
      /\ at' = [at EXCEPT !["survey"] = "remove"] /\ at["survey"] = "add"
      /\ old' = IF Index(Here[1]) = 0 THEN Absent ELSE mem[Index(Here[1])].file
  BY DEF UpdateAdd, Goes, fileVars
<1>4. Here' = Here /\ ~ Moving /\ at'["survey"] = "remove" /\ Moving' /\ at'["io"] = at["io"]
  BY <1>3 DEF Here, Moving, Typed, TypeOK, Threads
<1>5. at["io"] = "verify" => i = 1
  BY <1>3 DEF Typed, Places, Nobody
<1>6. PICK rid, f : rid = Here[1] /\ f = Here[2]
  OBVIOUS
<1>7. Of(rid, f) /\ API_ResourceTb_AddOneRecord(rid, f)
  BY <1>2, <1>3, <1>6
<1>8. \/ /\ Index(rid) = 0 /\ Len(mem') = Len(mem) + 1
         /\ \A k \in 1 .. Len(mem) : mem'[k] = mem[k] /\ mem[k].rid # rid
         /\ mem'[Len(mem) + 1].rid = rid /\ mem'[Len(mem) + 1].file = f
      \/ /\ Index(rid) \in 1 .. Len(mem)
         /\ mem[Index(rid)].rid = rid /\ Len(mem') = Len(mem)
         /\ \A k \in 1 .. Len(mem) :
              IF k = Index(rid) THEN mem'[k].rid = rid /\ mem'[k].file = f
                                ELSE mem'[k] = mem[k]
  BY <1>2, <1>7, Added
<1>9. Once(mem) /\ Offered(mem)
  BY DEF Filed, Apart, Genuine
<1>10. ASSUME NEW k \in 1 .. Len(mem')
       PROVE  \/ mem'[k].rid = rid /\ mem'[k].file = f
              \/ k \in 1 .. Len(mem) /\ mem'[k] = mem[k] /\ mem'[k].rid # rid
  <2>1. CASE /\ Len(mem') = Len(mem) + 1
             /\ \A x \in 1 .. Len(mem) : mem'[x] = mem[x] /\ mem[x].rid # rid
             /\ mem'[Len(mem) + 1].rid = rid /\ mem'[Len(mem) + 1].file = f
    BY <1>2, <2>1
  <2>2. CASE /\ Index(rid) \in 1 .. Len(mem)
             /\ mem[Index(rid)].rid = rid /\ Len(mem') = Len(mem)
             /\ \A x \in 1 .. Len(mem) :
                  IF x = Index(rid) THEN mem'[x].rid = rid /\ mem'[x].file = f
                                    ELSE mem'[x] = mem[x]
    BY <1>2, <1>9, <2>2 DEF Once
  <2> QED
    BY <1>8, <2>1, <2>2
<1>11. ASSUME NEW k \in 1 .. Len(mem')
       PROVE  mem'[k].file \in now'.here \/ Excused(mem[k])' \/ Pending(k)'
  <2>1. CASE mem'[k].rid = rid
    BY <1>4, <1>6, <2>1 DEF Pending
  <2>2. CASE k \in 1 .. Len(mem) /\ mem'[k] = mem[k]
    BY <1>3, <1>4, <1>5, <2>2 DEF Kept, Excused, Pending
  <2> QED
    BY <1>10, <2>1, <2>2
<1>12. old' # Absent => Of(rid, old')
  <2>1. CASE Index(rid) = 0
    BY <1>3, <1>6, <2>1
  <2>2. CASE Index(rid) \in 1 .. Len(mem) /\ mem[Index(rid)].rid = rid
    <3>1. Index(rid) # 0 /\ Of(mem[Index(rid)].rid, mem[Index(rid)].file)
      BY <1>2, <1>9, <2>2 DEF Offered
    <3> QED
      BY <1>3, <1>6, <2>2, <3>1
  <2> QED
    BY <1>8, <2>1, <2>2
<1> QED
  BY <1>4, <1>6, <1>10, <1>11, <1>12 DEF Kept

LEMMA RemoveKept ==
  ASSUME Typed, Filed, Kept, UpdateRemove
  PROVE  Kept'
<1>1. /\ mem' = mem /\ failed' = failed /\ i' = i /\ list' = list /\ item' = item
      /\ at["survey"] = "remove" /\ at' = [at EXCEPT !["survey"] = "move"]
  BY DEF UpdateRemove, Goes, tableVars, updateVars
<1>2. Here' = Here /\ Moving /\ Moving' /\ at'["io"] = at["io"] /\ at'["survey"] = "move"
  BY <1>1 DEF Here, Moving, Typed, TypeOK, Threads
<1>3. now'.here = IF old = Absent THEN now.here ELSE now.here \ {old}
  BY Moved
<1>4. ASSUME NEW k \in 1 .. Len(mem)
      PROVE  mem[k].file \in now'.here \/ Excused(mem[k]) \/ Pending(k)
  <2>1. CASE mem[k].file = old /\ old # Absent
    <3>1. Of(Here[1], old) /\ Of(mem[k].rid, mem[k].file)
      BY <1>1, <2>1 DEF Kept, Filed, Genuine, Offered
    <3>2. mem[k].rid = Here[1]
      BY <2>1, <3>1, OwnFile
    <3> QED
      BY <1>2, <3>2 DEF Pending
  <2>2. CASE ~ (mem[k].file = old /\ old # Absent)
    BY <1>3, <2>2 DEF Kept
  <2> QED
    BY <2>1, <2>2
<1> QED
  BY <1>1, <1>2, <1>4 DEF Kept, Excused, Pending

LEMMA MoveKept ==
  ASSUME Typed, Filed, Kept, UpdateMove
  PROVE  Kept'
<1>1. /\ mem' = mem /\ i' = i /\ at["survey"] = "move"
      /\ \E to \in {"add", "flush", "idle"} : at' = [at EXCEPT !["survey"] = to]
  BY DEF UpdateMove, NextItem, Goes, tableVars
<1>2. Moving /\ ~ Moving' /\ at'["io"] = at["io"] /\ at'["survey"] # "remove"
  BY <1>1 DEF Moving, Typed, TypeOK, Threads
<1>3. /\ now'.here = IF Here[2] \in tftp THEN now.here \cup {Here[2]} ELSE now.here
      /\ failed' = IF Here[2] \in tftp THEN failed \ {Here[1]} ELSE failed \cup {Here[1]}
  BY Moved DEF UpdateMove
<1>4. ASSUME NEW k \in 1 .. Len(mem)
      PROVE  mem'[k].file \in now'.here \/ Excused(mem[k])' \/ Pending(k)'
  <2>1. CASE mem[k].rid = Here[1]
    <3>1. mem[k].file = Here[2]
      BY <1>2, <2>1 DEF Kept
    <3> QED
      BY <1>1, <1>3, <2>1, <3>1 DEF Excused
  <2>2. CASE mem[k].rid # Here[1]
    BY <1>1, <1>2, <1>3, <2>2 DEF Kept, Excused, Pending
  <2> QED
    BY <2>1, <2>2
<1> QED
  BY <1>1, <1>2, <1>4 DEF Kept

LEMMA FirmwareKept ==
  ASSUME Typed, Filed, Kept, UpdateFirmware, ~ Restart({WithoutFirmware})
  PROVE  Kept'
<1>1. /\ mem' = mem /\ failed' = failed /\ i' = i /\ list' = list /\ item' = item /\ old' = old
      /\ at["survey"] = "firmware" /\ at' = [at EXCEPT !["survey"] = "idle"]
      /\ now' = (IF HasFirmware THEN WithoutFirmware ELSE now)
  BY DEF UpdateFirmware, Becomes, Goes, tableVars, fileVars, updateVars
<1>2. ~ Moving /\ ~ Moving' /\ at'["io"] = at["io"] /\ at'["survey"] # "remove"
  BY <1>1 DEF Moving, Typed, TypeOK, Threads
<1>3. ASSUME NEW k \in 1 .. Len(mem), mem[k].file \in now.here, ~ Excused(mem[k])
      PROVE  mem[k].file \in now'.here
  <2>1. CASE ~ HasFirmware
    BY <1>1, <1>3, <2>1
  <2>2. CASE HasFirmware
    <3> DEFINE x == Index(Firmware)
    <3>1. x \in 1 .. Len(mem) /\ mem[x].rid = Firmware /\ now'.here = now.here \ {mem[x].file}
      BY <1>1, <2>2, Unpacked
    <3> HIDE DEF x
    <3>2. Of(mem[x].rid, mem[x].file) /\ Of(mem[k].rid, mem[k].file)
      BY <3>1 DEF Filed, Genuine, Offered
    <3>3. mem[k].file # mem[x].file
      BY <1>3, <3>1, <3>2, OwnFile DEF Excused
    <3> QED
      BY <1>3, <3>1, <3>3
  <2> QED
    BY <2>1, <2>2
<1> QED
  BY <1>1, <1>2, <1>3 DEF Kept, Excused, Pending

LEMMA RestartKept ==
  ASSUME NEW snapshots, Restart(snapshots)
  PROVE  Kept'
<1>1. mem' = <<>> /\ at'["survey"] = "idle"
  BY Restarted DEF Threads
<1>2. Len(mem') = 0
  BY <1>1
<1> QED
  BY <1>1, <1>2 DEF Kept, Moving

LEMMA LoadKept ==
  ASSUME Typed, API_Load_ResourceTable
  PROVE  Kept'
<1>1. /\ ~ loaded /\ at["survey"] \notin {"remove", "move"}
      /\ at' = [at EXCEPT !["io"] = IF mem' = <<>> THEN "run" ELSE "verify"] /\ i' = 1
  BY DEF API_Load_ResourceTable, Goes, Typed, Fresh
<1>2. ~ Moving' /\ (mem' = <<>> \/ at'["io"] = "verify")
  BY <1>1 DEF Moving, Typed, TypeOK, Threads
<1>3. mem' = <<>> => Len(mem') = 0
  OBVIOUS
<1> QED
  BY <1>1, <1>2, <1>3 DEF Kept, Moving, Pending

LEMMA KeptStep ==
  ASSUME Typed, Filed, Kept, [Next]_vars
  PROVE  Kept'
<1>1. ASSUME NEW t \in Threads, API_ResourceTb_Flush_Process(t)
      PROVE  Kept'
  <2>1. /\ now'.here = now.here /\ InFlush /\ \A u \in Threads : u # t => at'[u] = at[u]
        /\ at[t] \in {"flush"} \cup Working
        /\ at'[t] \in {"append", "drop", "save", "end", Returns(t)}
    BY <1>1, SaveLeavesFiles
  <2>2. CASE t = "survey"
    <3>1. ~ Moving /\ ~ Moving' /\ at'["io"] = at["io"]
      BY <2>1, <2>2 DEF Moving, Returns, Threads, Working
    <3> QED
      BY <2>1, <3>1, SameKept DEF SameFiles, InFlush, updateVars
  <2>3. CASE t # "survey"
    <3>1. at'["survey"] = at["survey"] /\ (at["io"] = "verify" => at'["io"] = "verify")
      BY <2>1, <2>3 DEF Threads, Working
    <3> QED
      BY <2>1, <3>1, SameKept DEF SameFiles, InFlush, updateVars
  <2> QED
    BY <2>2, <2>3
<1>2. CASE IoStep
  BY <1>1, <1>2, LoadKept, VerifyKept DEF IoStep, Threads
<1>3. CASE ResourceTable_AutoSave_Timer_Callback \/ Age \/ UNCHANGED vars
  <2>1. SameFiles
    BY <1>3 DEF ResourceTable_AutoSave_Timer_Callback, Age, vars, Goes, tableVars, fileVars, updateVars,
       Typed, TypeOK, Threads, SameFiles
  <2> QED
    BY <2>1, SameKept
<1>4. CASE DeviceVersion \/ UpdateStart \/ UpdateCheck \/ \E o \in Offers : DownloadStart(o)
  <2>1. SameFiles
    BY <1>4 DEF DeviceVersion, UpdateStart, DownloadStart, UpdateCheck, Message, Goes, tableVars, fileVars,
       updateVars, Typed, TypeOK, Threads, SameFiles, Moving
  <2> QED
    BY <2>1, SameKept
<1>5. CASE UpdateAdd
  <2>1. CASE ~ loaded
    <3>1. SameFiles
      BY <1>5, <2>1 DEF UpdateAdd, Goes, fileVars, Typed, TypeOK, Threads, SameFiles, Moving
    <3> QED
      BY <3>1, SameKept
  <2> QED
    BY <1>5, <2>1, AddKept
<1>6. CASE UpdateFirmware
  BY <1>6, FirmwareKept, RestartKept
<1>7. CASE Crash
  BY <1>7, RestartKept DEF Crash
<1> QED
  BY <1>1, <1>2, <1>3, <1>4, <1>5, <1>6, <1>7, RemoveKept, MoveKept, UpdatedKept
     DEF Next, TickStep, UpdateStep, Messages, Threads
-----------------------------------------------------------------------------
(* What a power failure may take.                                          *)

(* A step that neither the updates nor the saves are concerned by.         *)
Apace == /\ early' = early /\ lock' = lock /\ aged' = aged /\ add' = add /\ pre' = pre
         /\ now' = now /\ disk' = disk /\ list' = list
         /\ at'["survey"] = at["survey"] /\ at'["io"] = at["io"]

LEMMA AloneSave ==
  ASSUME Typed, Alone, NEW t \in Threads, API_ResourceTb_Flush_Process(t)
  PROVE  Alone'
<1>1. /\ now'.here = now.here /\ aged' = aged /\ early' = early /\ list' = list
      /\ \A d \in disk' : d \in disk \/ d.here = now.here
      /\ \A u \in Threads : u # t => at'[u] = at[u]
      /\ at[t] \in {"flush"} \cup Working
      /\ at'[t] \in {"append", "drop", "save", "end", Returns(t)}
      /\ lock \in {Nobody, t}
  BY SaveLeavesFiles DEF InFlush, updateVars
<1>2. SUFFICES ASSUME ~ early
               PROVE  /\ Moving' => at'["io"] = "run" /\ lock' = Nobody /\ ~ aged' /\ add' + pre' > 0
                      /\ Loading' => \A d \in disk' : d.here = now'.here
                      /\ at'["io"] # "run" => at'["survey"] \in {"idle", "add"} \/ list' = <<>>
  BY <1>1 DEF Alone
<1>3. ASSUME Moving'
      PROVE  at'["io"] = "run" /\ lock' = Nobody /\ ~ aged' /\ add' + pre' > 0
  <2>1. t # "survey" /\ Moving
    BY <1>1, <1>3 DEF Moving, Returns, Threads
  <2>2. at["io"] = "run" /\ lock = Nobody /\ ~ aged /\ add + pre > 0
    BY <1>2, <2>1 DEF Alone
  <2>3. t = "tick"
    BY <1>1, <2>1, <2>2 DEF Threads, Working
  <2>4. at["tick"] = "flush"
    BY <1>1, <2>2, <2>3 DEF Typed, Places, Nobody, Threads
  <2>5. Flush("tick")
    BY <2>3, <2>4 DEF API_ResourceTb_Flush_Process, FlushAppend, FlushDrop, FlushSave, FlushEnd
  <2> QED
    BY <1>1, <2>2, <2>3, <2>5 DEF Flush, Unlocked, Threads
<1>4. ASSUME Loading'
      PROVE  \A d \in disk' : d.here = now'.here
  <2>1. Loading
    BY <1>1, <1>4 DEF Loading, Returns, Threads
  <2> QED
    BY <1>1, <1>2, <2>1 DEF Alone
<1>5. ASSUME at'["io"] # "run"
      PROVE  at'["survey"] \in {"idle", "add"} \/ list' = <<>>
  <2>1. at["io"] # "run"
    BY <1>1, <1>5 DEF Threads, Working
  <2>2. at["survey"] \in {"idle", "add"} \/ list = <<>>
    BY <1>2, <2>1 DEF Alone
  <2> QED
    BY <1>1, <2>2 DEF Threads, Working
<1> QED
  BY <1>3, <1>4, <1>5

LEMMA AloneStep ==
  ASSUME Typed, Alone, [Next]_vars
  PROVE  Alone'
<1>1. CASE API_Load_ResourceTable
  <2>1. /\ now' = now /\ disk' = disk /\ early' = early /\ list' = list /\ at["io"] = "load"
        /\ ~ loaded
        /\ \E to \in {"run", "verify"} : at' = [at EXCEPT !["io"] = to]
    BY <1>1 DEF API_Load_ResourceTable, Goes, fileVars, updateVars, Typed, Fresh
  <2>2. at'["survey"] = at["survey"] /\ ~ Moving' /\ Loading
    BY <2>1 DEF Typed, TypeOK, Fresh, Threads, Moving, Loading
  <2> QED
    BY <2>1, <2>2 DEF Alone
<1>2. CASE API_ResourceTb_Verify
  <2>1. /\ now' = now /\ disk' = disk /\ early' = early /\ list' = list /\ at["io"] = "verify"
    BY <1>2 DEF API_ResourceTb_Verify, fileVars, updateVars
  <2>2. at'["survey"] = at["survey"] /\ Loading /\ at["io"] # "run"
    <3>1. at' = at \/ \E to \in {"flush", "run"} : at' = [at EXCEPT !["io"] = to]
      BY <1>2, Verified
    <3> QED
      BY <2>1, <3>1 DEF Typed, TypeOK, Threads, Loading
  <2> QED
    BY <2>1, <2>2 DEF Alone, Moving
<1>3. ASSUME NEW t \in Threads, API_ResourceTb_Flush_Process(t)
      PROVE  Alone'
  BY <1>3, AloneSave
<1>4. CASE ResourceTable_AutoSave_Timer_Callback \/ UNCHANGED vars
  <2>1. Apace
    BY <1>4 DEF ResourceTable_AutoSave_Timer_Callback, vars, Goes, tableVars, fileVars, updateVars,
       Typed, TypeOK, Threads, Apace
  <2> QED
    BY <2>1 DEF Alone, Apace, Moving, Loading
<1>5. CASE Age
  BY <1>5 DEF Age, fileVars, updateVars, Alone, Moving, Loading
<1>6. CASE DeviceVersion \/ UpdateStart \/ \E o \in Offers : DownloadStart(o)
  BY <1>6 DEF DeviceVersion, UpdateStart, DownloadStart, Message, Goes, tableVars, fileVars, Typed, TypeOK,
     Threads, Alone, Moving, Loading
<1>7. ASSUME NEW rid \in Rids, RecordUpdated(rid)
      PROVE  Alone'
  BY <1>7 DEF RecordUpdated, Message, fileVars, updateVars, Alone, Moving, Loading
<1>8. CASE UpdateAdd
  <2>1. CASE at["io"] # "run"
    BY <1>8, <2>1 DEF UpdateAdd, Alone
  <2>2. CASE at["io"] = "run"
    <3>1. loaded /\ Here \in Offers
      BY <1>8, <2>2, ElementOfSeq DEF UpdateAdd, Here, Typed, TypeOK, Places, Fresh
    <3>2. Of(Here[1], Here[2]) /\ mem \in Seq(Records) /\ add \in Nat /\ pre \in Nat
      BY <3>1 DEF Of, Typed, TypeOK
    <3>3. API_ResourceTb_AddOneRecord(Here[1], Here[2])
      BY <1>8, <3>1 DEF UpdateAdd
    <3>4. ~ aged' /\ add' + pre' > 0
      BY <3>2, <3>3, Added
    <3>5. lock' = Nobody /\ at'["io"] = "run"
      BY <1>8, <2>2, <3>1 DEF UpdateAdd, Goes, Typed, TypeOK, Threads
    <3> QED
      BY <3>4, <3>5 DEF Alone, Loading
  <2> QED
    BY <2>1, <2>2
<1>9. CASE UpdateRemove \/ UpdateMove
  <2>1. /\ Moving /\ early' = early /\ lock' = lock /\ aged' = aged /\ add' = add /\ pre' = pre
        /\ at'["io"] = at["io"]
    BY <1>9 DEF UpdateRemove, UpdateMove, NextItem, Goes, tableVars, updateVars, Moving, Typed, TypeOK,
       Threads
  <2> QED
    BY <2>1 DEF Alone, Loading
<1>10. CASE UpdateCheck
  BY <1>10 DEF UpdateCheck, Goes, tableVars, fileVars, Typed, TypeOK, Threads, Alone, Moving, Loading
<1>11. ASSUME NEW snapshots, Restart(snapshots)
       PROVE  Alone'
  BY <1>11, Restarted DEF Alone, Moving, Threads
<1>12. CASE UpdateFirmware /\ ~ Restart({WithoutFirmware})
  <2>1. /\ at["survey"] = "firmware" /\ at' = [at EXCEPT !["survey"] = "idle"]
        /\ early' = early /\ list' = list
        /\ HasFirmware \/ (now' = now /\ disk' = disk)
    BY <1>12 DEF UpdateFirmware, Goes, fileVars, updateVars
  <2>2. HasFirmware => list # <<>>
    BY <1>12, Unpacked
  <2> QED
    BY <2>1, <2>2 DEF Typed, TypeOK, Threads, Alone, Moving, Loading
<1> QED
  BY <1>1, <1>2, <1>3, <1>4, <1>5, <1>6, <1>7, <1>8, <1>9, <1>10, <1>11, <1>12
     DEF Next, IoStep, TickStep, UpdateStep, Messages, Crash, Threads

(* A step that leaves what is safe so.                                     *)
SameSafe == /\ mem' = mem /\ failed' = failed /\ disk' = disk /\ early' = early
            /\ add' = add /\ pre' = pre /\ (Loading => Loading')

LEMMA SafeStep ==
  ASSUME Typed, Filed, Kept, Alone, Safe, [Next]_vars
  PROVE  Safe'
<1>1. ASSUME SameSafe
      PROVE  Safe'
  BY <1>1 DEF Safe, SameSafe, Excused
<1>2. add \in Nat /\ pre \in Nat /\ now \in disk /\ mem \in Seq(Records) /\ Len(mem) \in Nat
  BY LenProperties DEF Typed, TypeOK
<1>3. CASE API_Load_ResourceTable
  <2>1. mem' = <<>> => Len(mem') = 0
    OBVIOUS
  <2>2. mem' # <<>> => Loading'
    BY <1>3 DEF API_Load_ResourceTable, Goes, Loading, Typed, TypeOK, Threads
  <2> QED
    BY <2>1, <2>2 DEF Safe
<1>4. CASE API_ResourceTb_Verify
  <2>1. CASE Loading'
    BY <2>1 DEF Safe
  <2>2. CASE ~ Loading'
    <3>1. i > Len(mem) /\ mem' = mem /\ at["io"] = "verify" /\ i \in Nat
      BY <1>4, <2>2, Verified DEF Loading, Typed, TypeOK
    <3>2. early' = early /\ disk' = disk /\ failed' = failed
      BY <1>4 DEF API_ResourceTb_Verify, fileVars, updateVars
    <3>3. ASSUME ~ early, NEW k \in 1 .. Len(mem), ~ Excused(mem[k]), NEW d \in disk
          PROVE  mem[k].file \in d.here
      <4>1. ~ Moving /\ d.here = now.here
        BY <3>1, <3>3 DEF Alone, Loading
      <4>2. ~ Pending(k)
        BY <1>2, <3>1, <4>1 DEF Pending
      <4> QED
        BY <3>3, <4>1, <4>2 DEF Kept
    <3> QED
      BY <3>1, <3>2, <3>3 DEF Safe, Excused
  <2> QED
    BY <2>1, <2>2
<1>5. ASSUME NEW t \in Threads, API_ResourceTb_Flush_Process(t)
      PROVE  Safe'
  <2>1. /\ mem' = mem /\ failed' = failed /\ early' = early /\ (Loading => Loading')
    <3>1. InFlush /\ (\A u \in Threads : u # t => at'[u] = at[u]) /\ at[t] \in {"flush"} \cup Working
      BY <1>5, SaveLeavesFiles
    <3> QED
      BY <3>1 DEF InFlush, updateVars, Loading, Working, Threads
  <2>2. CASE Flush(t)
    BY <1>1, <2>1, <2>2 DEF Flush, fileVars, SameSafe
  <2>3. CASE FlushAppend(t) \/ FlushDrop(t) \/ FlushSave(t)
    <3>1. add + pre > 0 /\ add' = add /\ pre' = pre
      BY <1>2, <2>3 DEF FlushAppend, FlushDrop, FlushSave, Typed, Counts
    <3>2. ~ (add' + pre' = 0)
      BY <1>2, <3>1
    <3> QED
      BY <3>2 DEF Safe
  <2>4. CASE FlushEnd(t)
    <3>1. disk' = {now} /\ at[t] = "end" /\ lock = t /\ lock # Nobody
      BY <2>4 DEF FlushEnd, Sync, Typed, Places, Working, Threads, Nobody
    <3>2. ASSUME ~ early, ~ Loading, NEW k \in 1 .. Len(mem), ~ Excused(mem[k])
          PROVE  mem[k].file \in now.here
      <4>1. ~ Moving
        BY <3>1, <3>2 DEF Alone
      <4> QED
        BY <3>2, <4>1 DEF Kept, Pending, Loading
    <3> QED
      BY <2>1, <3>1, <3>2 DEF Safe, Excused
  <2> QED
    BY <1>5, <2>2, <2>3, <2>4 DEF API_ResourceTb_Flush_Process
<1>6. CASE ResourceTable_AutoSave_Timer_Callback \/ Age \/ UNCHANGED vars
           \/ DeviceVersion \/ UpdateStart \/ UpdateCheck \/ \E o \in Offers : DownloadStart(o)
  <2>1. SameSafe
    BY <1>6 DEF ResourceTable_AutoSave_Timer_Callback, Age, vars, DeviceVersion, UpdateStart,
       UpdateCheck, DownloadStart, Message, Goes, tableVars, fileVars, updateVars, Typed, TypeOK,
       Threads, Loading, SameSafe
  <2> QED
    BY <1>1, <2>1
<1>7. ASSUME NEW rid \in Rids, RecordUpdated(rid)
      PROVE  Safe'
  <2>1. pre' = pre + 1 /\ add' = add
    BY <1>2, <1>7, Updated DEF RecordUpdated
  <2>2. ~ (add' + pre' = 0)
    BY <1>2, <2>1
  <2> QED
    BY <2>2 DEF Safe
<1>8. CASE UpdateAdd
  <2>1. CASE at["io"] # "run"
    BY <1>8, <2>1 DEF UpdateAdd, Safe
  <2>2. CASE at["io"] = "run"
    <3>1. loaded /\ Here \in Offers
      BY <1>8, <2>2, ElementOfSeq DEF UpdateAdd, Here, Typed, TypeOK, Places, Fresh
    <3>2. Of(Here[1], Here[2])
      BY <3>1 DEF Of
    <3>3. API_ResourceTb_AddOneRecord(Here[1], Here[2])
      BY <1>8, <3>1 DEF UpdateAdd
    <3>4. ~ (add' + pre' = 0)
      BY <1>2, <3>2, <3>3, Added
    <3> QED
      BY <3>4 DEF Safe
  <2> QED
    BY <2>1, <2>2
<1>9. CASE UpdateRemove \/ UpdateMove
  <2>1. Moving /\ early' = early /\ add' = add /\ pre' = pre
    BY <1>9 DEF UpdateRemove, UpdateMove, tableVars, updateVars, Moving
  <2>2. ~ early => ~ (add' + pre' = 0)
    BY <1>2, <2>1 DEF Alone
  <2> QED
    BY <2>1, <2>2 DEF Safe
<1>10. ASSUME NEW snapshots, Restart(snapshots)
       PROVE  Safe'
  BY <1>10, Restarted DEF Safe, Loading, Threads
<1>11. CASE UpdateFirmware /\ ~ Restart({WithoutFirmware})
  <2>1. /\ at' = [at EXCEPT !["survey"] = "idle"] /\ mem' = mem /\ add' = add /\ pre' = pre
        /\ failed' = failed /\ early' = early
        /\ IF HasFirmware THEN disk' = disk \cup {WithoutFirmware} ELSE disk' = disk
    BY <1>11 DEF UpdateFirmware, Becomes, Goes, tableVars, fileVars, updateVars
  <2>2. Loading => Loading'
    BY <2>1 DEF Loading, Typed, TypeOK, Threads
  <2>3. ASSUME HasFirmware, NEW k \in 1 .. Len(mem), ~ Excused(mem[k]), mem[k].file \in now.here
        PROVE  mem[k].file \in WithoutFirmware.here
    <3> DEFINE x == Index(Firmware)
    <3>1. /\ x \in 1 .. Len(mem) /\ mem[x].rid = Firmware
          /\ WithoutFirmware.here = now.here \ {mem[x].file}
      BY <1>11, <2>3, Unpacked
    <3> HIDE DEF x
    <3>2. Of(mem[x].rid, mem[x].file) /\ Of(mem[k].rid, mem[k].file)
      BY <3>1 DEF Filed, Genuine, Offered
    <3>3. mem[k].file # mem[x].file
      BY <2>3, <3>1, <3>2, OwnFile DEF Excused
    <3> QED
      BY <2>3, <3>1, <3>3
  <2> QED
    BY <1>2, <2>1, <2>2, <2>3 DEF Safe, Excused
<1> QED
  BY <1>3, <1>4, <1>5, <1>6, <1>7, <1>8, <1>9, <1>10, <1>11
     DEF Next, IoStep, TickStep, UpdateStep, Messages, Crash, Threads
-----------------------------------------------------------------------------
LEMMA InitInv ==
  ASSUME Init
  PROVE  Inv
<1>1. /\ Absent \in Tables /\ now = [table |-> Absent, here |-> {}] /\ disk = {now}
      /\ now \in Snapshots /\ now.table = Absent /\ now.here = {} /\ Loaded(Absent) = <<>>
  BY DEF Init, Tables, Snapshots, Loaded
<1>2. <<>> \in Seq(Records) /\ Len(<<>>) = 0
  OBVIOUS
<1>3. <<>> \in Seq(Offers)
  OBVIOUS
<1>4. at \in [Threads -> {"load", "verify", "run", "flush", "append", "drop", "save", "end", "idle",
                          "add", "remove", "move", "check", "firmware"}]
  BY DEF Init
<1>5. TypeOK
  <2>1. {loaded, aged, damaged, early} \subseteq BOOLEAN
    BY DEF Init
  <2>2. {add, pre} \subseteq Nat
    BY DEF Init
  <2>3. lock \in Threads \cup {Nobody} /\ i \in Nat /\ item \in Nat /\ {msgs, mishaps} \subseteq Nat
    BY DEF Init
  <2>4. tftp \subseteq Files /\ old \in Files \cup {Absent} /\ failed \subseteq Rids
    BY DEF Init
  <2> QED
    BY <1>1, <1>2, <1>3, <1>4, <2>1, <2>3, <2>4, <2>2 DEF Init, TypeOK
<1>6. at["io"] = "load" /\ at["tick"] = "idle" /\ at["survey"] = "idle" /\ lock = "nobody"
  BY DEF Init, Threads, Nobody
<1>7. Places /\ Fresh /\ Counts
  <2>1. Places
    BY <1>6 DEF Places, Working, Threads
  <2>2. Fresh
    BY <1>6 DEF Init, Fresh
  <2>3. Counts
    BY <1>2, <1>6 DEF Init, Counts, Threads
  <2> QED
    BY <2>1, <2>2, <2>3
<1>8. ~ Ending /\ ~ Moving /\ Loading
  BY <1>6 DEF Ending, Moving, Loading, Threads
<1>9. Filed
  BY <1>1, <1>2, <1>8 DEF Init, Filed, Saved, Apart, Genuine, Once, Offered
<1>10. Kept /\ Alone /\ Safe
  BY <1>1, <1>2, <1>6, <1>8 DEF Init, Kept, Alone, Safe
<1> QED
  BY <1>1, <1>5, <1>7, <1>9, <1>10 DEF Typed, Inv

LEMMA InvStep ==
  ASSUME Inv, [Next]_vars
  PROVE  Inv'
BY TypedStep, FiledStep, KeptStep, AloneStep, SafeStep DEF Inv

LEMMA Invariant == Spec => []Inv
<1>1. Init => Inv
  BY InitInv
<1>2. Inv /\ [Next]_vars => Inv'
  BY InvStep
<1> QED
  BY <1>1, <1>2, PTL DEF Spec

(* Between saves, and unless an append failed, each snapshot that a power  *)
(* failure may leave has the records that are not counted as modified      *)
(* (modified_add_cnt and modified_pre_cnt in API_ResourceTb_Flush_Process).*)
THEOREM TableIsOnDisk == Spec => []TableOnDisk
<1>1. ASSUME Inv
      PROVE  TableOnDisk
  <2>1. lock = Nobody => ~ Ending
    BY <1>1, OneSaves DEF Inv
  <2>2. ~ Loading => loaded
    BY <1>1 DEF Inv, Typed, Fresh, Loading
  <2> QED
    BY <1>1, <2>1, <2>2 DEF Inv, Typed, Filed, Saved, Saving, TableOnDisk
<1> QED
  BY <1>1, Invariant, PTL

(* After an update (UpdateResourceTable) and the verification at the start *)
(* no record is without its file, but for the firmware's and for those     *)
(* whose file could not be moved in.                                       *)
THEOREM EveryRecordHasItsFile == Spec => []RecordsHaveFiles
<1>1. ASSUME Inv
      PROVE  RecordsHaveFiles
  <2>1. DOMAIN mem = 1 .. Len(mem)
    BY <1>1, LenProperties DEF Inv, Typed, TypeOK
  <2> QED
    BY <1>1, <2>1 DEF Inv, Kept, Excused, Pending, Moving, Loading, RecordsHaveFiles
<1> QED
  BY <1>1, Invariant, PTL

(* What is saved is safe from a power failure, the record and the file:    *)
(* the sync that ends a save covers both, because survey moves files only  *)
(* while the table still counts as modified.                               *)
THEOREM ACrashLosesNothing == Spec => []CrashLosesNothing
<1>1. ASSUME Inv
      PROVE  CrashLosesNothing
  <2>1. SUFFICES ASSUME lock = Nobody, ~ Loading, ~ early, at["survey"] = "idle", add + pre = 0,
                        ~ damaged, NEW d \in disk, NEW k \in DOMAIN mem,
                        mem[k].rid \notin failed \cup {Firmware}
                 PROVE  Contains(Loaded(d.table), mem[k]) /\ mem[k].file \in d.here
    BY DEF CrashLosesNothing
  <2>2. /\ mem \in Seq(Records) /\ k \in 1 .. Len(mem) /\ add = 0 /\ pre = 0 /\ Len(mem) \in Nat
    BY <1>1, <2>1, LenProperties DEF Inv, Typed, TypeOK
  <2>3. ~ Ending /\ loaded
    BY <1>1, <2>1, OneSaves DEF Inv, Typed, Fresh, Loading
  <2>4. Loaded(d.table) = mem
    <3>1. Saving = mem
      BY <2>2, SubSeqFull DEF Saving
    <3> QED
      BY <1>1, <2>1, <2>2, <2>3, <3>1 DEF Inv, Filed, Saved
  <2>5. mem[k].file \in d.here
    BY <1>1, <2>1, <2>2 DEF Inv, Safe, Excused
  <2> QED
    BY <2>2, <2>4, <2>5 DEF Contains
<1> QED
  BY <1>1, Invariant, PTL
=============================================================================
