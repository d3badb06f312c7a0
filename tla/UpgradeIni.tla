----------------------------- MODULE UpgradeIni -----------------------------
(***************************************************************************)
(* The file upgrade.ini of a firmware package, and what the gateway reads  *)
(* from it (UpgradeIni_Parser in utility.c).  A line is blank, the key of  *)
(* a section, or a text; of a text only counts what some section looks for *)
(* in it.  The parser goes through the file once for each section.         *)
(***************************************************************************)
EXTENDS Naturals, Sequences, SequencesExt, FiniteSetsExt

Keys  == {"DEVICE TYPE", "FIRMWARE VER", "FIRMWARE PARSER", "FIRMWARE RESET", "STM32", "END"}
Named == {"kernel = path", "app = path"}  \* firmware/kernel and firmware/app are in the package
Texts == Named \cup {"ENABLE = 1", "ENABLE = 0", "update = enable", "words", "rest of a line"}
Long  == "app = long path"                \* a line of more than 99 characters
Lines == {"blank", Long} \cup Keys \cup (Texts \ {"rest of a line"})
None  == "none"

(* The buffer of fgets ends a line after 99 characters; what follows is    *)
(* taken for a line.  The test that would refuse it (100 and more) cannot  *)
(* hold.                                                                   *)
fgets(file) ==
  FlattenSeq([i \in DOMAIN file |-> IF file[i] = Long THEN <<"app = path", "rest of a line">>
                                                      ELSE <<file[i]>>])

(* A text with a name and a value, which UpgradeIni_Parser asks for.       *)
IsItem(text) == text \in Texts \ {"words", "rest of a line"}

(* The lines behind the first line with the key, and those of its section. *)
From(lines, key) ==
  LET at == SelectInSeq(lines, LAMBDA line : line = key)
  IN  IF at = 0 THEN <<>> ELSE SubSeq(lines, at + 1, Len(lines))

NotSpaceLines(lines) == SelectSeq(lines, LAMBDA line : line # "blank")

(* Seeded fault: the section does not end at the next key.                 *)
SectionOpen(lines, key) ==
  SelectSeq(NotSpaceLines(From(lines, key)), LAMBDA line : line \notin Keys)

Section(lines, key) ==
  LET behind == NotSpaceLines(From(lines, key))
      next   == SelectInSeq(behind, LAMBDA line : line \in Keys)
  IN  IF next = 0 THEN behind ELSE SubSeq(behind, 1, next - 1)

OneLine(lines, key) == IF Section(lines, key) = <<>> THEN None ELSE Head(Section(lines, key))

Load_FwParserItems(lines) == SelectSeq(Section(lines, "FIRMWARE PARSER"), IsItem)

FwReset(lines) ==
  LET said == SelectSeq(Section(lines, "FIRMWARE RESET"),
                        LAMBDA line : line \in {"ENABLE = 1", "ENABLE = 0"})
  IN  said # <<>> /\ Head(said) = "ENABLE = 1"

(* Each line of the section sets it again; this program then ignores it.   *)
Load_Stm32UpdateItems(lines) ==
  Contains(Section(lines, "STM32"), "update = enable")

UpgradeIni_Parser(file) ==
  LET lines == fgets(file) IN
  [device |-> OneLine(lines, "DEVICE TYPE"), version |-> OneLine(lines, "FIRMWARE VER"),
   items |-> Load_FwParserItems(lines),      reset |-> FwReset(lines),
   stm32 |-> Load_Stm32UpdateItems(lines)]
-----------------------------------------------------------------------------
(* What a file says, line by line: a text speaks for the last key before   *)
(* it, if that is the first of its name.                                   *)
KeyOf(file, i) ==
  LET keys == {j \in 1 .. i : file[j] \in Keys}
      last == Max(keys)
  IN  IF keys = {} \/ \E j \in 1 .. last - 1 : file[j] = file[last] THEN None ELSE file[last]

Says(file, i, key) == file[i] \in Texts /\ KeyOf(file, i) = key

FirstSaid(file, key) ==
  LET said == {i \in DOMAIN file : Says(file, i, key)}
  IN  IF said = {} THEN None ELSE file[Min(said)]

Reading(file) ==
  LET answers == {i \in DOMAIN file : /\ Says(file, i, "FIRMWARE RESET")
                                      /\ file[i] \in {"ENABLE = 1", "ENABLE = 0"}}
  IN
  [device  |-> FirstSaid(file, "DEVICE TYPE"),
   version |-> FirstSaid(file, "FIRMWARE VER"),
   items   |-> {file[i] : i \in {j \in DOMAIN file : Says(file, j, "FIRMWARE PARSER")
                                                       /\ IsItem(file[j])}},
   reset   |-> answers # {} /\ file[Min(answers)] = "ENABLE = 1",
   stm32   |-> \E i \in DOMAIN file : Says(file, i, "STM32") /\ file[i] = "update = enable"]
=============================================================================
