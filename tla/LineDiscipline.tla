--------------------------- MODULE LineDiscipline ---------------------------
(***************************************************************************)
(* The console's input buffer (kernel/console.c) and a pipe's buffer       *)
(* (kernel/pipe.c): rings indexed by unsigned counters that run freely and *)
(* wrap.  Both are records; the operators are what the code does to them   *)
(* inside one critical section.                                            *)
(***************************************************************************)
EXTENDS Integers, SequencesExt, FiniteSetsExt

CONSTANTS
  Letter, NL, EOF, ERASE, KILLLINE,  \* what a user types
  INPUT_BUF_SIZE, PIPESIZE,
  UINT                               \* number of values of a uint

ASSUME RingAssumption ==
  /\ INPUT_BUF_SIZE \in Nat \ {0} /\ PIPESIZE \in Nat \ {0} /\ UINT \in Nat
  /\ UINT % INPUT_BUF_SIZE = 0 /\ UINT % PIPESIZE = 0
  /\ UINT > INPUT_BUF_SIZE /\ UINT > PIPESIZE

Add(i, k) == (i + k) % UINT
Minus(i, j) == (i - j) % UINT

\* The k entries of a ring from counter i on.
Entries(ring, i, k) == [j \in 1..k |-> ring[Add(i, j - 1) % Cardinality(DOMAIN ring)]]
-----------------------------------------------------------------------------
(* The console: read, write and edit counters.                              *)

NoInput == [buf |-> [i \in 0..(INPUT_BUF_SIZE - 1) |-> NL], r |-> 0, w |-> 0, e |-> 0]

\* What readers may take, and the line that is being edited.
Ready(c) == Entries(c.buf, c.r, Minus(c.w, c.r))
Line(c) == Entries(c.buf, c.w, Minus(c.e, c.w))

\* consoleintr, "Kill line": back to the end of the last line.
LineStart(c) ==
  LET back == {k \in 0..Minus(c.e, c.w) : \/ k = Minus(c.e, c.w)
                 \/ c.buf[Minus(c.e, k + 1) % INPUT_BUF_SIZE] = NL}
  IN Minus(c.e, Min(back))

Echoes(c, ch) == \/ ch \in {ERASE, KILLLINE} /\ c.e # c.w
                 \/ ch \notin {ERASE, KILLLINE} /\ Minus(c.e, c.r) < INPUT_BUF_SIZE

\* Mutant: the line is handed over one character too late when the buffer is full.
TooFull(c) == Minus(c.e, c.r) > INPUT_BUF_SIZE

Full(c) == Minus(c.e, c.r) = INPUT_BUF_SIZE

\* A whole line, an end of file or a full buffer is handed to the readers.
Commits(c, ch) == ch \in {NL, EOF} \/ Full([c EXCEPT !.e = Add(@, 1)])

\* consoleintr.
Typed(c, ch) ==
  IF ~Echoes(c, ch) THEN c
  ELSE IF ch = ERASE THEN [c EXCEPT !.e = Minus(@, 1)]
  ELSE IF ch = KILLLINE THEN [c EXCEPT !.e = LineStart(c)]
  ELSE [c EXCEPT !.buf[c.e % INPUT_BUF_SIZE] = ch, !.e = Add(@, 1),
                 !.w = IF Commits(c, ch) THEN Add(c.e, 1) ELSE @]

\* consoleread of n bytes, of which got have been read: how many more it takes.
\* It stops after a line's end, and before or at an end of file.
Taken(c, n) ==
  LET m == Minus(c.w, c.r)
      s == Ready(c)
      stops == {k \in 1..m : s[k] \in {NL, EOF} \/ k = n}
      k == IF stops = {} THEN m ELSE Min(stops)
  IN SubSeq(s, 1, k)

\* ... the bytes of s that leave the buffer: an end of file after bytes stays.
Consumed(s, got) ==
  IF s # <<>> /\ Last(s) = EOF /\ got + Len(s) > 1 THEN Len(s) - 1 ELSE Len(s)

\* ... and the bytes of s that the reader gets.
Copied(s) == IF s # <<>> /\ Last(s) = EOF THEN Front(s) ELSE s
-----------------------------------------------------------------------------
(* The pipe.                                                                *)

NewPipe == [data |-> [i \in 0..(PIPESIZE - 1) |-> NL], nread |-> 0, nwrite |-> 0,
            readopen |-> TRUE, writeopen |-> TRUE]

Queued(q) == Minus(q.nwrite, q.nread)

\* Mutant: full and empty cannot be told apart, so one byte too many goes in.
OneTooMany(q) == PIPESIZE + 1 - Queued(q)

Room(q) == PIPESIZE - Queued(q)

\* pipewrite: the bytes of s that fit.
Fits(q, s) == Min({Room(q), Len(s)})
Piped(q, s) ==
  LET k == Fits(q, s) IN
  [q EXCEPT !.nwrite = Add(@, k),
            !.data = [i \in DOMAIN @ |->
               LET here == {j \in 1..k : Add(q.nwrite, j - 1) % PIPESIZE = i}
               IN IF here = {} THEN @[i] ELSE s[Max(here)]]]

\* piperead of at most n bytes.
Ahead(q, n) == Entries(q.data, q.nread, Min({n, Queued(q)}))
Drained(q, n) == [q EXCEPT !.nread = Add(@, Min({n, Queued(q)}))]
=============================================================================
