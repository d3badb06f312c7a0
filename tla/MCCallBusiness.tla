--------------------------- MODULE MCCallBusiness ---------------------------
(* A call, and the tune a gateway rings with - one per part of the run.     *)
(* Lists have up to MaxTunes tunes, at every offset to a small buffer.      *)
EXTENDS CallBusiness

CONSTANTS BufSize, MaxTunes

VARIABLES part, list, text, ch_buf, audio_state, thread, TuneID, file, told

ring == <<list, text, ch_buf, audio_state, thread, TuneID, file, told>>

MCTunes == {[ID |-> 1, FileName |-> <<"a">>, DispName |-> <<"n">>, Length |-> 0],
            [ID |-> 2, FileName |-> <<"b", "1">>, DispName |-> <<>>, Length |-> 7],
            [ID |-> 101, FileName |-> <<"c">>, DispName |-> <<"n">>, Length |-> 10]}
MCBytes == [name \in {tune.FileName : tune \in MCTunes} |-> 80]

Ring == INSTANCE AudioRing WITH Tunes <- MCTunes, Bytes <- MCBytes

MCInit == /\ part \in {"call", "ring"} /\ Init /\ Ring!Init
          /\ part = "call" => list = <<>> /\ text = <<>>
          /\ part = "ring" => role = "caller"

MCNext == /\ \/ part = "call" /\ Next /\ UNCHANGED ring
             \/ part = "ring" /\ Ring!Next /\ UNCHANGED vars
          /\ UNCHANGED part

(* Nothing that is fair is enabled in a call that stands still.             *)
MCSpec == MCInit /\ [][MCNext]_<<part, vars, ring>> /\ Fairness

(* The properties of the ring, which says what they are about.              *)
RingsTheTune == Ring!RingsTheTune /\ Ring!ToldTheTruth
=============================================================================
