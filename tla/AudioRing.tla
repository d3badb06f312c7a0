----------------------------- MODULE AudioRing ------------------------------
(***************************************************************************)
(* Playing a tune (IP_Audio_Control.c, IP_Audio_Ring.c): the call starts a *)
(* thread that finds the file of the tune in the list, opens it and the    *)
(* sound device and writes the one to the other until the file ends.  The  *)
(* state stays RING until somebody stops it, which cancels the thread.     *)
(***************************************************************************)
EXTENDS PlayList

CONSTANTS Tunes,   \* the tunes a list may hold
          Bytes,   \* the length of the file of each
          MaxTunes \* bound on its length

VARIABLES
  list,        \* the tunes of rings/default.txt
  text,        \* and its characters
  ch_buf,      \* the buffer as the last reading left it
  audio_state, \* "IDLE", "RING"
  thread,      \* "none", "names", "opens", "plays", "garbage", "over"
  TuneID,
  file,        \* the file the thread has found
  told         \* what a caller was just told of the list: its length, or a tune's

vars == <<list, text, ch_buf, audio_state, thread, TuneID, file, told>>

Numbers == {tune.ID % 256 : tune \in Tunes} \cup {0}
Unknown == <<"unknown">>

(* A list as it is written: how many blanks stand before it and whether    *)
(* any stand between the words; each tune ends its line.                   *)
Quoted(word) == <<"\"">> \o word \o <<"\"">>
Digit(n) == Digits[(n % 10) + 1]
Number(n) == IF n < 10 THEN <<Digit(n)>> ELSE <<Digit(n \div 100), Digit(n \div 10), Digit(n)>>
Line(tune, gap) ==
  FlattenSeq(<< <<"<">>, gap, Number(tune.ID), gap, Quoted(tune.FileName), gap,
                Quoted(tune.DispName), gap, Number(tune.Length), gap, <<">", " ">> >>)
Text(tunes, before, gap) == before \o FlattenSeq([i \in DOMAIN tunes |-> Line(tunes[i], gap)])

Init == /\ list \in BoundedSeq(Tunes, MaxTunes)
        /\ \E blanks \in 0 .. BufSize - 1 :
             \/ text = Text(list, [i \in 1 .. blanks |-> " "], <<>>)
             \/ text = Text(list, [i \in 1 .. blanks |-> " "] \o <<"a", " ">>, <<" ">>)
        /\ ch_buf = [i \in 1 .. BufSize |-> " "]
        /\ audio_state = "IDLE" /\ thread = "none" /\ TuneID = 0
        /\ told = <<>>
        /\ file = Unknown

API_WavePlayer_Play(tune) ==
  /\ audio_state = "IDLE" /\ audio_state' = "RING"
  /\ TuneID' = tune /\ thread' = "names" /\ file' = Unknown /\ told' = <<>>
  /\ UNCHANGED <<list, text, ch_buf>>

(* A tune that is not found leaves the name as the stack had it.           *)
Names ==
  /\ thread = "names" /\ thread' = "opens" /\ told' = <<>>
  /\ LET one == PlayList_GetFileName(TuneID, Opened(text, ch_buf)) IN
       /\ file' = IF one.ok /\ one.cfg.ID = TuneID THEN one.cfg.FileName ELSE Unknown
       /\ ch_buf' = one.s.ch_buf
  /\ UNCHANGED <<list, text, audio_state, TuneID>>

(* What cannot be opened is read from all the same, without an end.        *)
Opens ==
  /\ thread = "opens"
  /\ thread' = IF file = Unknown THEN "garbage" ELSE "plays"
  /\ told' = <<>>
  /\ UNCHANGED <<list, text, ch_buf, audio_state, TuneID, file>>

Ends == /\ thread = "plays" /\ thread' = "over" /\ told' = <<>>
        /\ UNCHANGED <<list, text, ch_buf, audio_state, TuneID, file>>

API_WavePlayer_Stop ==
  /\ audio_state = "RING" /\ audio_state' = "IDLE"
  /\ thread' = "none" /\ told' = <<>>
  /\ UNCHANGED <<list, text, ch_buf, TuneID, file>>

(* A caller asks how long a tune is, or how many there are.                *)
API_PlayList_GetUsingLength_ms(tune) ==
  /\ LET one == PlayList_GetUsingLength_ms(tune, Opened(text, ch_buf), Bytes) IN
       /\ told' = IF one.ok THEN <<tune, one.cfg.Length>> ELSE <<tune>>
       /\ ch_buf' = one.s.ch_buf
  /\ UNCHANGED <<list, text, audio_state, thread, TuneID, file>>

GetNumTunes ==
  /\ LET all == PlayList_GetNumTunes(Opened(text, ch_buf)) IN
       /\ told' = <<256, all.num>>
       /\ ch_buf' = all.s.ch_buf
  /\ UNCHANGED <<list, text, audio_state, thread, TuneID, file>>

Next == (\E tune \in Numbers : API_WavePlayer_Play(tune) \/ API_PlayList_GetUsingLength_ms(tune))
          \/ GetNumTunes \/ Names \/ Opens \/ Ends
          \/ API_WavePlayer_Stop
Spec == Init /\ [][Next]_vars
-----------------------------------------------------------------------------
Wanted(tune) == SelectInSeq(list, LAMBDA one : one.ID % 256 = tune)
Lasts(tune)  == IF tune.Length = 0 THEN (1000 * Bytes[tune.FileName]) \div 8000 ELSE tune.Length

(* A caller is told the length of the first tune with the number, and the  *)
(* number of tunes below 100, wherever the buffer's ends fall.             *)
ToldTheTruth ==
  CASE told = <<>>                   -> TRUE
    [] told # <<>> /\ Len(told) = 1  -> Wanted(told[1]) = 0
    [] told # <<>> /\ Len(told) = 2  ->
         IF told[1] \in Numbers THEN Wanted(told[1]) # 0 /\ told[2] = Lasts(list[Wanted(told[1])])
         ELSE told[2] = Len(SelectSeq(list, LAMBDA one : one.ID % 256 < 100))

(* What is played is the first tune of the list with the number, wherever  *)
(* the buffer's ends fall and whatever an earlier reading left in it.      *)
RingsTheTune ==
  /\ thread = "plays" => Wanted(TuneID) # 0 /\ file = list[Wanted(TuneID)].FileName
  /\ thread = "garbage" => Wanted(TuneID) = 0
=============================================================================
