------------------------------ MODULE Upgrade -------------------------------
(***************************************************************************)
(* The firmware half of an update (start_updatefile_and_reboot, IsHave-    *)
(* Update and the tftp helpers of utility.c, as survey calls them): the    *)
(* update tool has the gateway fetch a package, verify it and install it;  *)
(* survey unpacks it, copies the files upgrade.ini names over the running  *)
(* ones, leaves a note for after the reboot and has the system reboot;     *)
(* until that takes it down it is back at its queue.  Each step may fail,  *)
(* the power at any of them: what was written since the last reboot may    *)
(* then be lost, in any part, since nothing syncs it; removals are taken   *)
(* to last.  Which resource the package is, and the table, is module       *)
(* ResourceTable, where all of this is one step.                           *)
(***************************************************************************)
EXTENDS UpgradeIni

CONSTANTS Written,    \* the lines files are made of
          MaxLines,   \* bound on the lines of upgrade.ini
          MaxSteps,   \* bound on the tool's requests
          MaxMishaps  \* bound on commands that fail and power failures

VARIABLES
  ini,       \* upgrade.ini in the package that is unpacked
  package,   \* the package in tftp/: "none", "part", "whole"
  note,      \* tftp/HaveUpdated
  installed, \* what was copied of this package
  dirty,     \* of package, note and installed, what may not be on the disk
  at,        \* where survey is
  parsed,    \* ini_parser
  item,      \* the item it copies
  asked,     \* the tool waits for an answer to UPDATE_START
  verified,  \* the tool was told that the package is whole
  going,     \* the system is about to go down
  emptied,   \* ghost: tftp/ was emptied while the tool waited
  doubtful,  \* ghost: the note may not be about the last update, see below
  steps, mishaps

files == <<ini, package, note, installed, dirty>>
tool  == <<asked, verified, emptied>>
vars  == <<files, at, parsed, item, tool, going, doubtful, steps, mishaps>>

Nothing == UpgradeIni_Parser(<<>>)

TypeOK ==
  /\ ini \in Seq(Written) /\ Len(ini) <= MaxLines
  /\ package \in {"none", "part", "whole"} /\ installed \subseteq Texts
  /\ dirty \subseteq installed \cup {"package", "note"}
  /\ {note, asked, verified, going, emptied, doubtful} \subseteq BOOLEAN
  /\ at \in {"boot", "idle", "unpack", "parse", "copy", "note", "reset"}
  /\ parsed.items \in Seq(Texts) /\ parsed.reset \in BOOLEAN
  /\ item \in Nat
  /\ steps \in 0 .. MaxSteps /\ mishaps \in 0 .. MaxMishaps

Init == /\ ini = <<>>
        /\ package = "none" /\ note = FALSE /\ installed = {} /\ dirty = {}
        /\ at = "boot" /\ parsed = Nothing /\ item = 1
        /\ asked = FALSE /\ verified = FALSE
        /\ going = FALSE /\ emptied = FALSE /\ doubtful = FALSE
        /\ steps = 0 /\ mishaps = 0

Mishap == mishaps < MaxMishaps /\ mishaps' = mishaps + 1
Goes(from, to) == at = from /\ at' = to
-----------------------------------------------------------------------------
(* The tool's requests, taken one at a time.                               *)
Asks == at = "idle" /\ steps < MaxSteps /\ steps' = steps + 1

(* CMD_DEVICE_TYPE_CODE_VER_REQ empties tftp/, with the note that would    *)
(* have answered a tool that waits for the reboot.                         *)
DeviceVersion == /\ Asks
                 /\ package' = "none" /\ note' = FALSE /\ verified' = FALSE
                 /\ emptied' = (emptied \/ asked) /\ doubtful' = FALSE
                 /\ UNCHANGED <<ini, installed, dirty, at, parsed, item, asked, going, mishaps>>

(* What tftp fetched is not looked at before the tool asks.                *)
start_tftp_download ==
  /\ Asks
  /\ \/ package' = "whole" /\ UNCHANGED mishaps
     \/ package' = "part" /\ Mishap
  /\ dirty' = dirty \cup {"package"}
  /\ verified' = FALSE
  /\ UNCHANGED <<ini, note, installed, at, parsed, item, asked, emptied, going, doubtful>>

get_tftp_file_checksum ==
  /\ Asks
  /\ verified' = (package = "whole")
  /\ UNCHANGED <<files, at, parsed, item, asked, emptied, going, doubtful, mishaps>>

(* A note of an earlier update is still there: the reboot it waits for has *)
(* not come, or was refused.                                               *)
UpdateStart ==
  /\ Asks /\ at' = "unpack"
  /\ asked' = TRUE
  /\ doubtful' = (doubtful \/ note)
  /\ UNCHANGED <<files, parsed, item, verified, emptied, going, mishaps>>
-----------------------------------------------------------------------------
(* start_updatefile_and_reboot.  However it ends, the package is removed,  *)
(* and survey goes back to its queue; it has answered but after a reboot.  *)
Ends    == /\ at' = "idle" /\ parsed' = Nothing /\ item' = 1
           /\ package' = "none" /\ verified' = FALSE
Answers == Ends /\ asked' = FALSE /\ emptied' = FALSE /\ ini' = <<>>

(* A package that is not whole does not unpack.                            *)
Unpacks == /\ at = "unpack" /\ package = "whole"
           /\ at' = "parse" /\ installed' = {} /\ dirty' = dirty \cap {"package", "note"}
           /\ \E lines \in 0 .. MaxLines : ini' \in [1 .. lines -> Written]
           /\ UNCHANGED <<package, note, parsed, item, tool, going, doubtful, steps, mishaps>>

UnpackFails == /\ at = "unpack"
               /\ IF package = "whole" THEN Mishap ELSE UNCHANGED mishaps
               /\ Answers
               /\ UNCHANGED <<note, installed, dirty, going, doubtful, steps>>

(* The package may have no such file.                                      *)
ParseFails == /\ at = "parse" /\ Mishap /\ Answers
              /\ UNCHANGED <<note, installed, dirty, going, doubtful, steps>>

Parses == /\ Goes("parse", "copy")
          /\ parsed' = UpgradeIni_Parser(ini) /\ item' = 1
          /\ UNCHANGED <<files, tool, going, doubtful, steps, mishaps>>

(* Seeded fault: a file that could not be copied is passed over.           *)
CopiesOn == /\ at = "copy" /\ item <= Len(parsed.items)
            /\ at' = "copy" /\ item' = item + 1
            /\ UNCHANGED <<files, parsed, tool, going, doubtful, steps, mishaps>>

Copies == /\ at = "copy" /\ item <= Len(parsed.items)
          /\ parsed.items[item] \in Named
          /\ at' = "copy" /\ item' = item + 1
          /\ installed' = installed \cup {parsed.items[item]}
          /\ dirty' = dirty \cup {parsed.items[item]}
          /\ UNCHANGED <<ini, package, note, parsed, tool, going, doubtful, steps, mishaps>>

(* What was copied before stays.                                           *)
CopyFails == /\ at = "copy" /\ item <= Len(parsed.items)
             /\ IF parsed.items[item] \in Named THEN Mishap ELSE UNCHANGED mishaps
             /\ Answers
             /\ UNCHANGED <<note, installed, dirty, going, doubtful, steps>>

Copied == /\ at = "copy" /\ item > Len(parsed.items)
          /\ IF parsed.reset THEN at' = "note" /\ UNCHANGED <<ini, package, tool, parsed, item>>
                             ELSE Answers
          /\ UNCHANGED <<note, installed, dirty, going, doubtful, steps, mishaps>>

Notes == /\ Goes("note", "reset")
         /\ note' = TRUE /\ dirty' = dirty \cup {"note"}
         /\ UNCHANGED <<ini, package, installed, parsed, item, tool, going, doubtful, steps, mishaps>>

NoteFails == /\ at = "note" /\ Mishap /\ Answers
             /\ UNCHANGED <<note, installed, dirty, going, doubtful, steps>>

(* system("reboot") returns: no answer, and the next request is taken.     *)
Reboots == /\ at = "reset" /\ Ends
           /\ going' = TRUE
           /\ UNCHANGED <<ini, note, installed, dirty, asked, emptied, doubtful, steps, mishaps>>

(* The note of an update that is answered as failed stays behind.          *)
RebootFails == /\ at = "reset" /\ Mishap /\ Answers
               /\ doubtful' = TRUE
               /\ UNCHANGED <<note, installed, dirty, going, steps>>

Restart == /\ at # "boot" /\ at' = "boot" /\ parsed' = Nothing /\ item' = 1
           /\ verified' = FALSE /\ going' = FALSE /\ dirty' = {}
           /\ UNCHANGED <<ini, emptied, steps>>

(* The system goes down wherever survey is by then, and writes out what    *)
(* there is.                                                               *)
Down == /\ going /\ Restart
        /\ UNCHANGED <<package, note, installed, asked, doubtful, mishaps>>

(* A tool whose update the power ended gives up waiting, unless it learns  *)
(* from the note.                                                          *)
Crash == /\ Mishap /\ Restart
         /\ \E gone \in SUBSET dirty :
              /\ installed' = installed \ gone
              /\ note' = (note /\ "note" \notin gone)
              /\ package' = IF "package" \in gone /\ package = "whole" THEN "part" ELSE package
              /\ doubtful' = (doubtful \/ installed' # installed)
         /\ asked' = (asked /\ note')

(* What survey does first: the note is the tool's answer, and tftp/ goes.  *)
IsHaveUpdate ==
  /\ Goes("boot", "idle")
  /\ IF note THEN /\ note' = FALSE /\ package' = "none" /\ asked' = FALSE
                  /\ emptied' = FALSE /\ doubtful' = FALSE
             ELSE UNCHANGED <<note, package, asked, emptied, doubtful>>
  /\ ini' = <<>>
  /\ UNCHANGED <<installed, dirty, parsed, item, verified, going, steps, mishaps>>

Tool   == DeviceVersion \/ start_tftp_download \/ get_tftp_file_checksum \/ UpdateStart
Survey == Unpacks \/ UnpackFails \/ ParseFails \/ Parses \/ Copies \/ CopyFails \/ Copied \/ Notes
            \/ NoteFails \/ Reboots \/ RebootFails \/ Down \/ IsHaveUpdate
Next   == Tool \/ Survey \/ Crash
Spec   == Init /\ [][Next]_vars /\ WF_vars(Survey)
-----------------------------------------------------------------------------
(* The gateway takes from the file what the file says, in whatever order   *)
(* the sections come, however many blank lines there are, repeated or      *)
(* empty sections included (but not a line longer than the buffer).        *)
ReadsWhatItSays ==
  at = "copy" /\ item = 1 /\ ~ Contains(ini, Long) =>
    [parsed EXCEPT !.items = ToSet(@)] = Reading(ini)

(* The tool is told the truth.  When survey is back at its queue, every    *)
(* update was answered but one the system goes down for; that one is after *)
(* the reboot, unless tftp/ was emptied meanwhile.  A package reported     *)
(* whole is whole as long as it is there.  And the note that has the       *)
(* gateway report success after the reboot only exists when every file the *)
(* package names was replaced and is on the disk - unless it is the note   *)
(* of an earlier update, whose reboot has not come or was refused, or a    *)
(* power failure lost a file copied and not the note.                      *)
AnswersAreTrue ==
  /\ at = "idle" /\ asked => going \/ emptied
  /\ verified => package = "whole"
  /\ note /\ ~ doubtful => LET said == UpgradeIni_Parser(ini) IN
                           ToSet(said.items) \subseteq installed /\ said.reset
=============================================================================
