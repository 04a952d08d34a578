------------------------------ MODULE Pipeline ------------------------------
(***************************************************************************)
(* "cat | cat" on the console: user/sh.c makes a pipe and two children, the*)
(* left one reads lines (console.c), the right one prints (uart.c), and    *)
(* pipe.c is between them.  Descriptors and their struct files decide when *)
(* the pipe's ends close (file.c, sysfile.c).                              *)
(*                                                                         *)
(* A section under a spinlock that ends in release or sleep is one action. *)
(* The interrupt handler keeps cons.lock while it waits to echo.           *)
(***************************************************************************)
EXTENDS LineDiscipline

CONSTANTS
  CHUNK,    \* bytes cat asks for
  TXFIFO,   \* bytes the uart takes before it loses some
  RXFIFO,   \* bytes it keeps until they are read
  Scripts,  \* what the user types, before an end of file
  Killable, \* processes somebody may kill
  MaxKills  \* bound

Proc == {"sh", "left", "right"}
Key == Letter \cup {NL, EOF, ERASE, KILLLINE}

\* A uart with FIFOs takes 16 bytes.
ASSUME PipelineAssumption ==
  /\ CHUNK \in Nat \ {0} /\ TXFIFO \in Nat \ {0, 1} /\ RXFIFO \in Nat \ {0}
  /\ Scripts \subseteq Seq(Key) /\ Killable \subseteq Proc /\ MaxKills \in Nat
FD == {0, 1, 3, 4}
Ends == {"R", "W"}

VARIABLES
  cons, pipe,
  \* struct files of the pipe's ends; descriptors
  fref, fd,
  \* what a process has left to do, whether and why it sleeps, whether it is in
  \* a system call it has slept in, its buffer, and whether cat writes it
  prog, st, inCall, buf, writing, killed,
  \* the uart: number of bytes to send, bytes received, tx_busy, the interrupt, the handler
  thr, rx, txBusy, irq, handler,
  \* the user: what is still to be typed, whether the last ^D has been
  script, ended,
  \* history: what the line discipline makes of the keys that consoleintr got,
  \* what left the console's buffer, the bytes cat got, the bytes the uart got
  text, taken, sent, out

ttyVars  == <<thr, rx, txBusy, irq, handler>>
userVars == <<script, ended>>
histVars == <<text, taken, sent, out>>
fileVars == <<fref, fd>>
procVars == <<prog, st, inCall, buf, writing, killed>>
vars == <<cons, pipe, fileVars, procVars, ttyVars, userVars, histVars>>

\* runcmd, case PIPE.
ShellRuns == << <<"pipe">>, <<"fork", "left">>, <<"fork", "right">>,
                <<"close", 3>>, <<"close", 4>>, <<"wait">>, <<"wait">> >>

\* Mutant: the reader keeps its copy of the pipe's write end.
RightKeepsEnd == << <<"close", 0>>, <<"dup", 3>>, <<"close", 3>>, <<"cat">> >>

LeftRuns  == << <<"close", 1>>, <<"dup", 4>>, <<"close", 3>>, <<"close", 4>>, <<"cat">> >>
RightRuns == << <<"close", 0>>, <<"dup", 3>>, <<"close", 3>>, <<"close", 4>>, <<"cat">> >>

Init ==
  /\ cons = NoInput
  /\ pipe = [NewPipe EXCEPT !.readopen = FALSE, !.writeopen = FALSE]
  /\ fref = [x \in Ends |-> 0]
  /\ fd = [p \in Proc |-> [f \in FD |-> IF p = "sh" /\ f < 3 THEN "cons" ELSE "none"]]
  /\ prog = [p \in Proc |-> IF p = "sh" THEN ShellRuns ELSE <<>>]
  /\ st = [p \in Proc |-> IF p = "sh" THEN "ready" ELSE "unborn"]
  /\ inCall = [p \in Proc |-> FALSE] /\ buf = [p \in Proc |-> <<>>]
  /\ writing = [p \in Proc |-> FALSE] /\ killed = {}
  /\ thr = 0 /\ rx = <<>> /\ txBusy = FALSE /\ irq = FALSE /\ handler = <<"idle">>
  /\ script \in Scripts /\ ended = FALSE
  /\ text = <<<<>>, <<>>>> /\ taken = <<>> /\ sent = <<>> /\ out = <<>>
-----------------------------------------------------------------------------
\* A process runs in the kernel at instruction op: a new call, unless it has
\* been killed, or one it has slept in.
Runs(p, op) == /\ st[p] = "ready" /\ prog[p] # <<>> /\ Head(prog[p])[1] = op
               /\ inCall[p] \/ p \notin killed

\* wakeup of those who sleep on chan, p having gone to state s.
WakeAnd(chan, p, s) == [q \in Proc |-> IF q = p THEN s
                                       ELSE IF st[q] = chan THEN "ready" ELSE st[q]]
Wake(chan) == [q \in Proc |-> IF st[q] = chan THEN "ready" ELSE st[q]]
Advance(p) == prog' = [prog EXCEPT ![p] = Tail(@)]

\* fileclose and pipeclose of one of p's ends; s is what becomes of p.
CloseEnd(p, f, s) ==
  LET x == fd[p][f] IN
  /\ fd' = [fd EXCEPT ![p][f] = "none"] /\ fref' = [fref EXCEPT ![x] = @ - 1]
  /\ \/ fref[x] > 1 /\ UNCHANGED pipe /\ st' = [st EXCEPT ![p] = s]
     \/ /\ fref[x] = 1
        /\ pipe' = IF x = "W" THEN [pipe EXCEPT !.writeopen = FALSE]
                              ELSE [pipe EXCEPT !.readopen = FALSE]
        /\ st' = WakeAnd(IF x = "W" THEN "nread" ELSE "nwrite", p, s)

Close(p) ==
  LET f == Head(prog[p])[2] IN
  /\ Runs(p, "close") /\ Advance(p)
  /\ \/ fd[p][f] \in Ends /\ CloseEnd(p, f, "ready")
     \/ fd[p][f] \notin Ends /\ fd' = [fd EXCEPT ![p][f] = "none"] /\ UNCHANGED <<fref, pipe, st>>
  /\ UNCHANGED <<cons, inCall, buf, writing, killed, ttyVars, userVars, histVars>>

\* fdalloc takes the lowest free descriptor.
Dup(p) ==
  LET x == fd[p][Head(prog[p])[2]] IN
  /\ Runs(p, "dup")
  /\ fd' = [fd EXCEPT ![p][Min({f \in FD : fd[p][f] = "none"})] = x]
  /\ fref' = [fref EXCEPT ![x] = @ + 1]
  /\ Advance(p)
  /\ UNCHANGED <<cons, pipe, st, inCall, buf, writing, killed, ttyVars, userVars, histVars>>

\* sys_pipe, or no memory or files for one.
Pipe ==
  /\ Runs("sh", "pipe")
  /\ \/ /\ pipe' = NewPipe /\ fref' = [x \in Ends |-> 1]
        /\ fd' = [fd EXCEPT !["sh"][3] = "R", !["sh"][4] = "W"]
        /\ Advance("sh") /\ UNCHANGED st
     \/ st' = [st EXCEPT !["sh"] = "exit"] /\ UNCHANGED <<pipe, fref, fd, prog>>
  /\ UNCHANGED <<cons, inCall, buf, writing, killed, ttyVars, userVars, histVars>>

\* Mutant: kfork copies the descriptors and not their references.
NotShared(p) == fref

\* kfork's filedup of every open file.
Shared(p) == [x \in Ends |-> fref[x] + Cardinality({f \in FD : fd[p][f] = x})]

\* fork1: the child shares the files; the shell panics without a child.
Fork ==
  LET c == Head(prog["sh"])[2] IN
  /\ Runs("sh", "fork")
  /\ \/ /\ fd' = [fd EXCEPT ![c] = fd["sh"]]
        /\ fref' = Shared("sh")
        /\ prog' = [prog EXCEPT !["sh"] = Tail(@), ![c] = IF c = "left" THEN LeftRuns ELSE RightRuns]
        /\ st' = [st EXCEPT ![c] = "ready"]
     \/ st' = [st EXCEPT !["sh"] = "exit"] /\ UNCHANGED <<fref, fd, prog>>
  /\ UNCHANGED <<cons, pipe, inCall, buf, writing, killed, ttyVars, userVars, histVars>>

Wait ==
  LET Z == {c \in Proc : st[c] = "zombie"} IN
  /\ Runs("sh", "wait")
  /\ \/ Z # {} /\ Advance("sh") /\ \E c \in Z : st' = [st EXCEPT ![c] = "reaped"]
     \/ Z = {} /\ st' = [st EXCEPT !["sh"] = "child"] /\ UNCHANGED prog
  /\ UNCHANGED <<cons, pipe, fileVars, inCall, buf, writing, killed, ttyVars, userVars, histVars>>

\* kexit closes the files one by one (the console's show nothing: they are gone
\* with the last), then tells the parent.
Exit(p) ==
  LET open == {f \in FD : fd[p][f] \in Ends} IN
  /\ \/ st[p] = "exit"
     \/ st[p] = "ready" /\ (prog[p] = <<>> \/ (p \in killed /\ ~inCall[p]))
  /\ \/ open # {} /\ CloseEnd(p, Min(open), "exit")
     \/ /\ open = {} /\ st' = WakeAnd("child", p, "zombie")
        /\ fd' = [fd EXCEPT ![p] = [f \in FD |-> "none"]] /\ UNCHANGED <<fref, pipe>>
  /\ UNCHANGED <<cons, prog, inCall, buf, writing, killed, ttyVars, userVars, histVars>>
-----------------------------------------------------------------------------
(* cat: read into buf, write it, until nothing is read or a call fails.     *)

\* Who may be killed while p runs: p, or nobody.
MayDie(p) == IF Cardinality(killed) < MaxKills THEN {p} \cap Killable ELSE {}

\* A section that ends in sleep; a kill that comes after its check of killed
\* and before the sleep wakes nobody.
Sleeps(p, chan) ==
  /\ st' = [st EXCEPT ![p] = chan] /\ inCall' = [inCall EXCEPT ![p] = TRUE]
  /\ \E K \in SUBSET MayDie(p) : killed' = killed \cup K

\* A call returns to cat, which goes on, or leaves its loop and exits.
Returns(p, s) == st' = s /\ inCall' = [inCall EXCEPT ![p] = FALSE] /\ UNCHANGED killed
Leaves(p) == Returns(p, [st EXCEPT ![p] = "exit"])

\* consoleread; the handler holds cons.lock while it echoes.
ReadCons(p) ==
  /\ Runs(p, "cat") /\ ~writing[p] /\ fd[p][0] = "cons"
  /\ handler[1] \notin {"echo", "put"}
  /\ LET s == Taken(cons, CHUNK - Len(buf[p]))
         k == Consumed(s, Len(buf[p]))
         b == buf[p] \o Copied(s)
         done == s # <<>> /\ (Last(s) \in {NL, EOF} \/ Len(b) = CHUNK)
     IN /\ cons' = [cons EXCEPT !.r = Add(@, k)]
        /\ taken' = taken \o SubSeq(s, 1, k) /\ sent' = sent \o Copied(s)
        /\ buf' = [buf EXCEPT ![p] = b]
        /\ \/ done /\ b # <<>> /\ Returns(p, st) /\ writing' = [writing EXCEPT ![p] = TRUE]
           \/ done /\ b = <<>> /\ Leaves(p) /\ UNCHANGED writing
           \/ ~done /\ p \in killed /\ Leaves(p) /\ UNCHANGED writing
           \/ ~done /\ p \notin killed /\ Sleeps(p, "consr") /\ UNCHANGED writing
  /\ UNCHANGED <<pipe, fileVars, prog, ttyVars, userVars, text, out>>

\* piperead.
ReadPipe(p) ==
  /\ Runs(p, "cat") /\ ~writing[p] /\ fd[p][0] = "R"
  /\ LET s == Ahead(pipe, CHUNK)
         empty == Queued(pipe) = 0 /\ pipe.writeopen
     IN \/ empty /\ p \in killed /\ Leaves(p) /\ UNCHANGED <<pipe, buf, writing>>
        \/ empty /\ p \notin killed /\ Sleeps(p, "nread") /\ UNCHANGED <<pipe, buf, writing>>
        \/ /\ ~empty
           /\ pipe' = Drained(pipe, CHUNK) /\ buf' = [buf EXCEPT ![p] = s]
           /\ writing' = [writing EXCEPT ![p] = s # <<>>]
           /\ Returns(p, WakeAnd("nwrite", p, IF s = <<>> THEN "exit" ELSE "ready"))
  /\ UNCHANGED <<cons, fileVars, prog, ttyVars, userVars, histVars>>

\* pipewrite; a kill that comes between two bytes ends it without a wakeup.
WritePipe(p) ==
  LET k == Fits(pipe, buf[p])
      Put(n) == /\ pipe' = Piped(pipe, SubSeq(buf[p], 1, n))
                /\ buf' = [buf EXCEPT ![p] = SubSeq(@, n + 1, Len(@))]
      fails == ~pipe.readopen \/ p \in killed
  IN
  /\ Runs(p, "cat") /\ writing[p] /\ fd[p][1] = "W"
  /\ \/ fails /\ Leaves(p) /\ UNCHANGED <<pipe, buf, writing>>
     \/ /\ ~fails /\ k = Len(buf[p]) /\ Put(k)
        /\ writing' = [writing EXCEPT ![p] = FALSE]
        /\ Returns(p, Wake("nread"))
     \/ /\ ~fails /\ k < Len(buf[p]) /\ Put(k)
        /\ st' = WakeAnd("nread", p, "nwrite") /\ inCall' = [inCall EXCEPT ![p] = TRUE]
        /\ \E K \in SUBSET MayDie(p) : killed' = killed \cup K
        /\ UNCHANGED writing
     \/ /\ ~fails /\ p \in MayDie(p) /\ killed' = killed \cup {p}
        /\ \E n \in 1..k : n < Len(buf[p]) /\ Put(n)
        /\ st' = [st EXCEPT ![p] = "exit"] /\ inCall' = [inCall EXCEPT ![p] = FALSE]
        /\ UNCHANGED writing
  /\ UNCHANGED <<cons, fileVars, prog, ttyVars, userVars, histVars>>

\* consolewrite and uartwrite: it does not look at killed.
WriteCons(p) ==
  /\ Runs(p, "cat") /\ writing[p] /\ fd[p][1] = "cons"
  /\ \/ txBusy /\ Sleeps(p, "tx") /\ killed' = killed
        /\ UNCHANGED <<thr, txBusy, out, buf, writing>>
     \/ /\ ~txBusy /\ thr' = thr + 1 /\ txBusy' = TRUE
        /\ out' = Append(out, Head(buf[p]))
        /\ buf' = [buf EXCEPT ![p] = Tail(@)]
        /\ writing' = [writing EXCEPT ![p] = Len(buf[p]) > 1]
        /\ \/ Len(buf[p]) = 1 /\ Returns(p, st)
           \/ Len(buf[p]) > 1 /\ Sleeps(p, "tx") /\ killed' = killed
  /\ UNCHANGED <<cons, pipe, fileVars, prog, rx, irq, handler, userVars, text, taken, sent>>

\* kkill: a sleeper is woken, and looks at the flag when it runs.
Kill(p) ==
  /\ p \in MayDie(p) \ killed /\ st[p] \notin {"unborn", "zombie", "reaped"}
  /\ killed' = killed \cup {p}
  /\ st' = [st EXCEPT ![p] = IF @ = "exit" THEN @ ELSE "ready"]
  /\ UNCHANGED <<cons, pipe, fileVars, prog, inCall, buf, writing, ttyVars, userVars, histVars>>
-----------------------------------------------------------------------------
(* The uart's interrupt handler, the uart, the user.                        *)

\* uartintr acknowledges the interrupt.
Ack ==
  /\ handler = <<"idle">> /\ (irq \/ rx # <<>>)
  /\ irq' = FALSE /\ handler' = <<"tx">>
  /\ UNCHANGED <<cons, pipe, fileVars, procVars, thr, rx, txBusy, userVars, histVars>>

\* uartintr, "UART finished transmitting".
TxDone ==
  /\ handler = <<"tx">> /\ handler' = <<"rx">>
  /\ \/ thr = 0 /\ txBusy' = FALSE /\ st' = Wake("tx")
     \/ thr # 0 /\ UNCHANGED <<txBusy, st>>
  /\ UNCHANGED <<cons, pipe, fileVars, prog, inCall, buf, writing, killed, thr, rx, irq, userVars, histVars>>

\* A line discipline without a buffer: a key ch comes when the text is <<what is
\* ready to be read or has been, the line being edited>> and n keys have been read.
Edited(t, ch, n) ==
  LET ready == t[1]
      line == t[2]
      kept == Len(ready) + Len(line) - n
  IN IF ch = ERASE THEN <<ready, IF line = <<>> THEN <<>> ELSE Front(line)>>
     ELSE IF ch = KILLLINE THEN <<ready, <<>>>>
     ELSE IF kept = INPUT_BUF_SIZE THEN t
     ELSE IF ch \in {NL, EOF} \/ kept + 1 = INPUT_BUF_SIZE
          THEN <<ready \o Append(line, ch), <<>>>>
     ELSE <<ready, Append(line, ch)>>

\* uartgetc; consoleintr, up to the echo.
GetC ==
  /\ handler = <<"rx">>
  /\ \/ rx = <<>> /\ handler' = <<"idle">> /\ UNCHANGED <<rx, text>>
     \/ /\ rx # <<>> /\ rx' = Tail(rx)
        /\ text' = Edited(text, Head(rx), Len(taken))
        /\ handler' = IF Echoes(cons, Head(rx)) THEN <<"echo", Head(rx)>> ELSE <<"rx">>
  /\ UNCHANGED <<cons, pipe, fileVars, procVars, thr, txBusy, irq, userVars, taken, sent, out>>

\* uartputc_sync: wait for the uart to be empty, without tx_lock.
EchoWaits ==
  /\ handler[1] = "echo" /\ thr = 0 /\ handler' = <<"put", handler[2]>>
  /\ UNCHANGED <<cons, pipe, fileVars, procVars, thr, rx, txBusy, irq, userVars, histVars>>

\* ... and write; the rest of consoleintr. (One byte stands for what an erasure
\* prints.)
EchoPuts ==
  /\ handler[1] = "put" /\ thr' = thr + 1
  /\ LET c == Typed(cons, handler[2]) IN
     /\ cons' = c
     /\ st' = IF c.w # cons.w THEN Wake("consr") ELSE st
  /\ handler' = <<"rx">>
  /\ UNCHANGED <<pipe, fileVars, prog, inCall, buf, writing, killed, rx, txBusy, irq, userVars, histVars>>

\* The uart sends a byte, and interrupts when it has no more.
Sent ==
  /\ thr > 0 /\ thr' = thr - 1 /\ irq' = (irq \/ thr = 1)
  /\ UNCHANGED <<cons, pipe, fileVars, procVars, rx, txBusy, handler, userVars, histVars>>

\* The user types; and an end of file, once all he has typed has been read.
Type ==
  /\ \/ /\ script # <<>> /\ Len(rx) < RXFIFO
        /\ rx' = Append(rx, Head(script)) /\ script' = Tail(script) /\ UNCHANGED ended
     \/ /\ script = <<>> /\ ~ended /\ rx = <<>> /\ handler = <<"idle">> /\ cons.r = cons.w
        /\ rx' = <<EOF>> /\ ended' = TRUE /\ UNCHANGED script
  /\ UNCHANGED <<cons, pipe, fileVars, procVars, thr, txBusy, irq, handler, histVars>>
-----------------------------------------------------------------------------
Step(p) == \/ Close(p) \/ Dup(p) \/ Exit(p)
           \/ ReadCons(p) \/ ReadPipe(p) \/ WritePipe(p) \/ WriteCons(p)
Shell == Pipe \/ Fork \/ Wait
Handler == Ack \/ TxDone \/ GetC \/ EchoWaits \/ EchoPuts

Next == \/ \E p \in Proc : Step(p) \/ Kill(p)
        \/ Shell \/ Handler \/ Sent \/ Type

\* Processes are scheduled, the handler runs, the uart sends, the user types an
\* end of file in the end.
Fairness == /\ \A p \in Proc : WF_vars(Step(p))
            /\ WF_vars(Shell) /\ WF_vars(Handler) /\ WF_vars(Sent) /\ WF_vars(Type)

Spec == Init /\ [][Next]_vars /\ Fairness
-----------------------------------------------------------------------------
(* Properties.                                                              *)

\* Every variable has its type, and the counters are values of a uint.
TypeOK ==
  /\ {cons.r, cons.w, cons.e, pipe.nread, pipe.nwrite} \subseteq 0..(UINT - 1)
  /\ fref \in [Ends -> Nat] /\ fd \in [Proc -> [FD -> Ends \cup {"cons", "none"}]]
  /\ st \in [Proc -> {"unborn", "ready", "consr", "nread", "nwrite", "tx", "child",
                      "exit", "zombie", "reaped"}]
  /\ \A p \in Proc : Len(buf[p]) <= CHUNK
  /\ thr \in Nat /\ txBusy \in BOOLEAN /\ irq \in BOOLEAN /\ Len(rx) <= RXFIFO

\* What readers of the console have got, and what is in its buffer, is exactly
\* what the line discipline makes of the keys typed: no key is lost, doubled or
\* taken into a line it was typed after, whenever the counters wrap and the
\* buffer is full (consoleintr, consoleread).
LineDisciplineExact ==
  handler[1] \notin {"echo", "put"} => text = <<taken \o Ready(cons), Line(cons)>>

\* What has been read from the console and not been written to it is in the
\* right cat's buffer, in the pipe or in the left cat's buffer, in this order,
\* whoever is killed or cannot be made (consoleread, pipewrite, piperead, cat).
NothingLost == sent = out \o buf["right"] \o Ahead(pipe, PIPESIZE) \o buf["left"]

\* A pipe's end is open as long as a descriptor of some process refers to it:
\* fork, dup, close and exit keep count, so that a reader sees the end of the
\* input exactly when the last writer is gone (filedup, fileclose, pipeclose).
EndsMatchFds ==
  /\ \A x \in Ends : fref[x] = Cardinality({y \in Proc \X FD : fd[y[1]][y[2]] = x})
  /\ pipe.readopen <=> fref["R"] > 0
  /\ pipe.writeopen <=> fref["W"] > 0

\* The echo and a writing process do not exclude each other; still no more
\* than TXFIFO bytes are in the uart (uartwrite, uartputc_sync).
NoOverrun == thr <= TXFIFO

\* A process sleeps for a reason: what it waits for is not already there
\* (consoleread, piperead, pipewrite, uartwrite, and who wakes them). Only a
\* writer killed between two bytes leaves bytes and a sleeping reader behind.
NoLostWakeup ==
  \A p \in Proc :
    /\ st[p] = "consr" => cons.r = cons.w
    /\ st[p] = "nread" => (Queued(pipe) = 0 \/ killed # {}) /\ pipe.writeopen
    /\ st[p] = "nwrite" => Room(pipe) = 0 /\ pipe.readopen
    /\ st[p] = "tx" => txBusy

\* All of it, through fork, dup, close, exit, kill and every interrupt.
PipelineConsistent == TypeOK /\ EndsMatchFds /\ NoOverrun /\ NoLostWakeup

\* The pipeline is a stream from the console to the console, also when somebody
\* is killed.
Stream == INSTANCE ByteStream WITH got <- out
ImplementsStream == Stream!Spec

\* Once the user has typed an end of file all three processes end: each reader
\* sees that the writers before it are gone (runcmd closes both ends in the
\* shell, and the end it does not use in each child).
PipelineEnds == <>(\A p \in Proc : st[p] \in {"unborn", "zombie", "reaped"})
=============================================================================
