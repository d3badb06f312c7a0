------------------------------ MODULE PlayList ------------------------------
(***************************************************************************)
(* The list of tunes rings/default.txt and its reader (obj_PlayList.c).  A *)
(* tune is written  < ID "file" "name" length >  with blanks anywhere      *)
(* between; what stands before a "<" is skipped.  The reader takes the     *)
(* file through a buffer of BufSize characters and may put back one.       *)
(***************************************************************************)
EXTENDS Naturals, Sequences, SequencesExt, FiniteSetsExt

CONSTANT BufSize \* MAX_BUF_SIZE, 40

Digits == <<"0", "1", "2", "3", "4", "5", "6", "7", "8", "9">>
EOF    == "end of file"

Class(ch) == CASE ch = " "             -> "space"
               [] ch \in {"<", ">"}    -> "special"
               [] ch \in ToSet(Digits) -> "digit"
               [] ch = "\""            -> "quote"
               [] OTHER                -> "graph"

atoi(text) == FoldLeft(LAMBDA n, ch : 10 * n + SelectInSeq(Digits, LAMBDA d : d = ch) - 1, 0, text)
-----------------------------------------------------------------------------
(* The reader: what is left of the file, whether its end was met, and the  *)
(* buffer, which keeps old characters behind the num that were read.       *)
Opened(text, buf) == [rest |-> text, feof |-> FALSE, ch_buf |-> buf, num |-> 0, pos |-> 0]

fread(s) ==
  LET n == Min({BufSize, Len(s.rest)}) IN
  [rest   |-> SubSeq(s.rest, n + 1, Len(s.rest)),
   feof   |-> n < BufSize,
   ch_buf |-> SubSeq(s.rest, 1, n) \o SubSeq(s.ch_buf, n + 1, BufSize),
   num    |-> n,
   pos    |-> 0]

(* When the length is a multiple of the buffer's, the end is met with      *)
(* nothing read, and the old first character is delivered once more.       *)
NextOf(s) == [ch |-> s.ch_buf[s.pos + 1], s |-> [s EXCEPT !.pos = @ + 1]]
input(s)  == IF s.pos >= s.num /\ s.feof THEN [ch |-> EOF, s |-> s]
             ELSE NextOf(IF s.pos < s.num THEN s ELSE fread(s))

(* Seeded fault: a character cannot be put back into a new buffer.         *)
unputLate(s) == [s EXCEPT !.pos = IF @ < 2 THEN @ ELSE @ - 1]

unput(s) == [s EXCEPT !.pos = IF @ = 0 THEN 0 ELSE @ - 1]

(* What a token becomes by its first character, and the classes it goes on *)
(* with.                                                                   *)
StartsAs == [space |-> "start", special |-> "special", digit |-> "digit",
             quote |-> "str", graph |-> "illegal"]
GoesOn   == [special |-> {"special"}, digit |-> {"digit"},
             str |-> {"digit", "graph"}, illegal |-> {"digit", "graph"}]

(* The character that comes, and its class, to what was read so far.       *)
LexOn(r, in, class) ==
  LET kind  == IF r.state \in {"special", "digit"} THEN r.state ELSE "unmatched"
      first == r.state = "start"
      Goes(state, text) == [r EXCEPT !.state = state, !.text = text, !.s = in.s]
      Over(k, s) == [r EXCEPT !.state = "over", !.kind = k, !.s = s]
  IN  CASE in.ch = EOF -> Over(IF first THEN EOF ELSE kind, in.s)
        [] in.ch # EOF /\ first ->
             Goes(StartsAs[class], IF class \in {"special", "digit"} THEN <<in.ch>> ELSE <<>>)
        [] in.ch # EOF /\ ~ first ->
             (CASE class \in GoesOn[r.state] ->
                     Goes(r.state, IF r.state = "illegal" THEN r.text ELSE Append(r.text, in.ch))
                [] r.state = "str" /\ class = "quote"   -> Over("str", in.s)
                [] r.state = "digit" /\ class = "graph" -> Goes("illegal", r.text)
                [] OTHER -> Over(kind, unput(in.s)))

LexStep(r, in) == LexOn(r, in, Class(in.ch))

RECURSIVE LexFrom(_)
LexFrom(r) == IF r.state = "over" THEN r ELSE LexFrom(LexStep(r, input(r.s)))

lex(s) == LexFrom([state |-> "start", kind |-> EOF, text |-> <<>>, s |-> s])

(* One tune.  "ok" is FALSE at the end of the file and at the first tune   *)
(* that is not written as it should be, where all reading ends.            *)
Fields == <<[kind |-> "digit", of |-> "ID"], [kind |-> "str", of |-> "FileName"],
            [kind |-> "str", of |-> "DispName"], [kind |-> "digit", of |-> "Length"]>>

ParseStep(p, token) ==
  LET is(text) == token.kind = "special" /\ token.text = <<text>>
      Goes(step, cfg) == [p EXCEPT !.step = step, !.cfg = cfg, !.s = token.s]
      Over(ok) == [p EXCEPT !.over = TRUE, !.ok = ok, !.s = token.s]
      number == IF p.step = 1 THEN atoi(token.text) % 256 ELSE atoi(token.text)
  IN  CASE token.kind = EOF -> Over(FALSE)
        [] token.kind # EOF /\ p.step = 0 -> Goes(IF is("<") THEN 1 ELSE 0, p.cfg)
        [] token.kind # EOF /\ p.step = 5 -> Over(is(">"))
        [] OTHER -> IF token.kind # Fields[p.step].kind THEN Over(FALSE)
                    ELSE Goes(p.step + 1,
                              [p.cfg EXCEPT ![Fields[p.step].of] =
                                 IF token.kind = "digit" THEN number ELSE token.text])

RECURSIVE ParseFrom(_)
ParseFrom(p) == IF p.over THEN p ELSE ParseFrom(ParseStep(p, lex(p.s)))

Blank == [ID |-> 0, FileName |-> <<>>, DispName |-> <<>>, Length |-> 0]
parseOneCfg(s) == ParseFrom([step |-> 0, over |-> FALSE, ok |-> FALSE, cfg |-> Blank, s |-> s])

(* The first tune with the number, if reading gets to it.                  *)
RECURSIVE Search(_, _)
Search(tune, s) ==
  LET one == parseOneCfg(s)
  IN  IF ~ one.ok \/ one.cfg.ID = tune THEN one ELSE Search(tune, one.s)

PlayList_GetFileName(tune, s) == Search(tune, s)

(* A length of 0 stands for that of the sound file.                        *)
PlayList_GetUsingLength_ms(tune, s, size) ==
  LET one == Search(tune, s)
  IN  IF one.ok /\ one.cfg.Length = 0
      THEN [one EXCEPT !.cfg.Length = (1000 * size[one.cfg.FileName]) \div 8000] ELSE one

RECURSIVE CountFrom(_, _)
CountFrom(num, s) ==
  LET one == parseOneCfg(s)
  IN  IF ~ one.ok THEN [num |-> num, s |-> one.s]
      ELSE CountFrom(IF one.cfg.ID < 100 THEN num + 1 ELSE num, one.s)

PlayList_GetNumTunes(s) == CountFrom(0, s)
=============================================================================
