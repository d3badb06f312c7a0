-------------------------- MODULE MCResourceTable --------------------------
(* Files from the tool: the table of those a gateway has, and the upgrade   *)
(* of its firmware from a package - one per part of the run.                *)
EXTENDS ResourceTable

CONSTANTS Written, MaxLines, MaxSteps, UpgradeMishaps

VARIABLES part, ini, package, note, installed, dirty, survey, parsed, copied, asked, verified,
          emptied, going, doubtful, steps, failures

upgrade == <<ini, package, note, installed, dirty, survey, parsed, copied, asked, verified,
             emptied, going, doubtful, steps, failures>>
all     == <<part, vars, upgrade>>

Upgrade == INSTANCE Upgrade
             WITH MaxMishaps <- UpgradeMishaps, at <- survey, item <- copied,
                  mishaps <- failures

(* The firmware in one file, a resource that may come in two.               *)
OneEach == {<<0, "fw">>, <<1, "a">>, <<1, "b">>}

MCInit == part \in {"table", "upgrade"} /\ Init /\ Upgrade!Init

MCNext == /\ \/ part = "table" /\ Next /\ UNCHANGED upgrade
             \/ part = "upgrade" /\ Upgrade!Next /\ UNCHANGED vars
          /\ UNCHANGED part

(* The fairness of the table; of the upgrade only invariants are asked.     *)
Table(A) == part = "table" /\ A /\ UNCHANGED <<part, upgrade>>
MCSpec == /\ MCInit /\ [][MCNext]_all
          /\ WF_all(Table(IoStep)) /\ WF_all(Table(TickStep))
          /\ WF_all(Table(UpdateStep)) /\ WF_all(Table(Age))

(* The properties of the upgrade, which says what they are about.           *)
ReadsWhatItSays     == Upgrade!ReadsWhatItSays
AnswersAreTrue      == Upgrade!TypeOK /\ Upgrade!AnswersAreTrue
=============================================================================
