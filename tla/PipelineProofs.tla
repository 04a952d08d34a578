--------------------------- MODULE PipelineProofs ---------------------------
(***************************************************************************)
(* "cat | cat" for every size of the buffers, the counters and the uart,   *)
(* everything a user may type and every kill: descriptors are counted, no  *)
(* process sleeps on what is there already, the uart is not overrun, what  *)
(* the left cat reads comes out of the right one, and what it reads is     *)
(* what the line discipline makes of the keys.                             *)
(*                                                                         *)
(* The argument needs to know where each process is in its program, since  *)
(* that says which descriptors it has (Progress); who fills the uart while *)
(* the handler echoes (UartRoom); that a ring whose size divides the       *)
(* counters' range gives consecutive counters different places (Places);   *)
(* and what each key does to the ring, read as a text (TypedIsEdited).     *)
(***************************************************************************)
EXTENDS Pipeline, SequenceTheorems, FiniteSetTheorems, WellFoundedInduction, TLAPS

Counter == 0..(UINT - 1)
Place(size) == 0..(size - 1)
States == {"unborn", "ready", "consr", "nread", "nwrite", "tx", "child", "exit", "zombie", "reaped"}

ConsType == [buf : [Place(INPUT_BUF_SIZE) -> Key], r : Counter, w : Counter, e : Counter]
PipeType == [data : [Place(PIPESIZE) -> Key], nread : Counter, nwrite : Counter,
             readopen : BOOLEAN, writeopen : BOOLEAN]

FdType == [Proc -> [FD -> Ends \cup {"cons", "none"}]]

Types ==
  /\ cons \in ConsType /\ pipe \in PipeType /\ Queued(pipe) <= PIPESIZE
  /\ fref \in [Ends -> Nat] /\ fd \in FdType
  /\ DOMAIN prog = Proc /\ st \in [Proc -> States] /\ inCall \in [Proc -> BOOLEAN]
  /\ buf \in [Proc -> Seq(Key)]
  /\ writing \in [Proc -> BOOLEAN] /\ killed \in SUBSET Proc
  /\ thr \in Nat /\ rx \in Seq(Key) /\ Len(rx) <= RXFIFO /\ txBusy \in BOOLEAN /\ irq \in BOOLEAN
  /\ handler \in {<<"idle">>, <<"tx">>, <<"rx">>} \cup ({"echo", "put"} \X Key)
  /\ script \in Seq(Key) /\ sent \in Seq(Key) /\ out \in Seq(Key)

Program(p) == IF p = "sh" THEN ShellRuns ELSE IF p = "left" THEN LeftRuns ELSE RightRuns
From(p, k) == SubSeq(Program(p), k, Len(Program(p)))
Files(a, b, c, d) == [f \in FD |-> CASE f = 0 -> a [] f = 1 -> b [] f = 3 -> c [] f = 4 -> d]

\* The descriptors of p before its call k, and when it is over.
Held(p, k) ==
  IF p = "sh" THEN Files("cons", "cons", IF k \in 2..4 THEN "R" ELSE "none",
                                         IF k \in 2..5 THEN "W" ELSE "none")
  ELSE LET three == IF k <= 3 THEN "R" ELSE "none"
           four  == IF k <= 4 THEN "W" ELSE "none" IN
       IF p = "left"
         THEN Files("cons", CASE k = 1 -> "cons" [] k = 2 -> "none" [] OTHER -> "W", three, four)
         ELSE Files(CASE k = 1 -> "cons" [] k = 2 -> "none" [] OTHER -> "R", "cons", three, four)

Closed == [f \in FD |-> "none"]
Alive(s) == s \notin {"unborn", "exit", "zombie", "reaped"}

OnProgram(p, todo, s, files) ==
  /\ s = "unborn" => p # "sh" /\ todo = <<>> /\ files = Closed
  /\ s # "unborn" => \E k \in 1..(Len(Program(p)) + 1) :
                       todo = From(p, k) /\ (Alive(s) => files = Held(p, k))

Progress ==
  /\ \A p \in Proc : OnProgram(p, prog[p], st[p], fd[p])
  /\ Len(prog["sh"]) >= 6 => st["left"] = "unborn"
  /\ Len(prog["sh"]) >= 5 => st["right"] = "unborn"
  /\ Len(prog["sh"]) = 7 => Queued(pipe) = 0

\* cat's buffer is full of what it is to write, or has room.
CatBuffers ==
  /\ \A p \in Proc : /\ Len(buf[p]) <= CHUNK
                     /\ writing[p] => buf[p] # <<>>
                     /\ ~writing[p] => Len(buf[p]) < CHUNK
  /\ ~writing["right"] => buf["right"] = <<>>

\* A writer that found tx_busy clear and the handler that found the uart empty
\* have room for a byte each.
UartRoom ==
  /\ thr <= 2
  /\ ~txBusy => thr <= 1
  /\ handler[1] = "put" => thr <= 1 /\ (~txBusy => thr = 0)

\* EndsMatchFds, of any descriptors and references.
Refs(files, x) == {y \in Proc \X FD : files[y[1]][y[2]] = x}
Counted(files, refs) == \A x \in Ends : refs[x] = Cardinality(Refs(files, x))
Flags(q, refs) == (q.readopen <=> refs["R"] > 0) /\ (q.writeopen <=> refs["W"] > 0)

Inv ==
  /\ Types /\ Progress /\ CatBuffers /\ UartRoom
  /\ Counted(fd, fref) /\ Flags(pipe, fref) /\ NoLostWakeup /\ NothingLost
-----------------------------------------------------------------------------
(* Counters: numbers modulo UINT.                                           *)

LEMMA Modulo ==
  ASSUME NEW n \in Nat \ {0}
  PROVE  /\ \A a \in Int : a % n \in 0..(n - 1)
         /\ \A a \in 0..(n - 1) : a % n = a
         /\ \A a \in n..(2 * n - 1) : a % n = a - n
         /\ \A a \in (1 - n)..(-1) : a % n = a + n
  <1>1. \A a \in Int : a % n \in 0..(n - 1)
    OBVIOUS
  <1>2. \A a \in 0..(n - 1) : a % n = a
    OBVIOUS
  <1>3. \A a \in n..(2 * n - 1) : a % n = a - n
    OBVIOUS
  <1>4. \A a \in (1 - n)..(-1) : a % n = a + n
    OBVIOUS
  <1> QED
    BY <1>1, <1>2, <1>3, <1>4

\* Remainders of numbers as far apart as a multiple of n.
LEMMA SameRemainder ==
  ASSUME NEW n \in Nat \ {0}, NEW x \in Int, NEW y \in Int,
         NEW r \in 0..(n - 1), NEW t \in 0..(n - 1), n * x + r = n * y + t
  PROVE  r = t
  OBVIOUS

LEMMA Division ==
  ASSUME NEW n \in Nat \ {0}, NEW a \in Int
  PROVE  a \div n \in Int /\ a % n \in 0..(n - 1) /\ a = n * (a \div n) + (a % n)
  OBVIOUS

\* The difference after a step forward of the first counter, or of the second.
LEMMA Around ==
  ASSUME NEW n \in Nat, NEW i \in Nat, NEW j \in Nat, NEW k \in Nat, NEW a \in Int, NEW m \in Int,
         i < n, j < n, m = IF i >= j THEN i - j ELSE i - j + n
  PROVE  /\ m + k < n /\ a = (IF i + k < n THEN i + k ELSE i + k - n) =>
              \/ 0 <= a - j /\ a - j < n /\ a - j = m + k
              \/ 0 - n < a - j /\ a - j < 0 /\ a - j + n = m + k
         /\ k <= m /\ a = (IF j + k < n THEN j + k ELSE j + k - n) =>
              \/ 0 <= i - a /\ i - a < n /\ i - a = m - k
              \/ 0 - n < i - a /\ i - a < 0 /\ i - a + n = m - k
  <1>1. (i >= j /\ m = i - j) \/ (i < j /\ m = i - j + n)
    OBVIOUS
  <1>2. ASSUME m + k < n, a = i + k \/ a = i + k - n, a = i + k <=> i + k < n
        PROVE  \/ 0 <= a - j /\ a - j < n /\ a - j = m + k
               \/ 0 - n < a - j /\ a - j < 0 /\ a - j + n = m + k
    <2>1. CASE i >= j /\ m = i - j
      BY <1>2, <2>1
    <2>2. CASE i < j /\ m = i - j + n
      BY <1>2, <2>2
    <2> QED
      BY <1>1, <2>1, <2>2
  <1>3. ASSUME k <= m, a = j + k \/ a = j + k - n, a = j + k <=> j + k < n
        PROVE  \/ 0 <= i - a /\ i - a < n /\ i - a = m - k
               \/ 0 - n < i - a /\ i - a < 0 /\ i - a + n = m - k
    <2>1. CASE i >= j /\ m = i - j
      BY <1>3, <2>1
    <2>2. CASE i < j /\ m = i - j + n
      BY <1>3, <2>2
    <2> QED
      BY <1>1, <2>1, <2>2
  <1>4. a = (IF i + k < n THEN i + k ELSE i + k - n) =>
          (a = i + k \/ a = i + k - n) /\ (a = i + k <=> i + k < n)
    OBVIOUS
  <1>5. a = (IF j + k < n THEN j + k ELSE j + k - n) =>
          (a = j + k \/ a = j + k - n) /\ (a = j + k <=> j + k < n)
    OBVIOUS
  <1> QED
    BY <1>2, <1>3, <1>4, <1>5

\* Adding and subtracting go round together.
LEMMA Counters ==
  ASSUME NEW i \in Counter, NEW j \in Counter
  PROVE  /\ Minus(i, j) \in Counter /\ Minus(i, i) = 0
         /\ \A k \in Int : Add(i, k) \in Counter
         /\ Add(j, Minus(i, j)) = i
         /\ Minus(i, j) = 0 => i = j
         /\ \A k \in Nat : Minus(i, j) + k < UINT => Minus(Add(i, k), j) = Minus(i, j) + k
         /\ \A k \in Nat : k <= Minus(i, j) => Minus(i, Add(j, k)) = Minus(i, j) - k
  <1> DEFINE m == Minus(i, j)
  <1>0. UINT \in Nat \ {0} /\ i \in Nat /\ j \in Nat /\ i < UINT /\ j < UINT
    BY RingAssumption DEF Counter
  <1>m. /\ \A a \in Int : a % UINT \in 0..(UINT - 1)
        /\ \A a \in Int : 0 <= a /\ a < UINT => a % UINT = a
        /\ \A a \in Int : UINT <= a /\ a < 2 * UINT => a % UINT = a - UINT
        /\ \A a \in Int : 0 - UINT < a /\ a < 0 => a % UINT = a + UINT
    <2>1. /\ \A a \in Int : 0 <= a /\ a < UINT => a \in 0..(UINT - 1)
          /\ \A a \in Int : UINT <= a /\ a < 2 * UINT => a \in UINT..(2 * UINT - 1)
          /\ \A a \in Int : 0 - UINT < a /\ a < 0 => a \in (1 - UINT)..(-1)
      BY <1>0
    <2> QED
      BY <1>0, <2>1, Modulo, Zenon
  <1>1. m = IF i >= j THEN i - j ELSE i - j + UINT
    <2>0. /\ i - j \in Int
          /\ i >= j => 0 <= i - j /\ i - j < UINT
          /\ ~(i >= j) => 0 - UINT < i - j /\ i - j < 0
      BY <1>0
    <2>1. i >= j => (i - j) % UINT = i - j
      BY <1>m, <2>0, Zenon
    <2>2. ~(i >= j) => (i - j) % UINT = i - j + UINT
      BY <1>m, <2>0, Zenon
    <2> QED
      BY <2>1, <2>2 DEF Minus
  <1>2. ASSUME NEW x \in Nat, x < UINT, NEW k \in Nat, k < UINT
        PROVE  Add(x, k) = IF x + k < UINT THEN x + k ELSE x + k - UINT
    <2>1. x + k < UINT => (x + k) % UINT = x + k
      BY <1>0, <1>2, <1>m
    <2>2. ~(x + k < UINT) => (x + k) % UINT = x + k - UINT
      BY <1>0, <1>2, <1>m
    <2> QED
      BY <2>1, <2>2 DEF Add
  <1>3. \A k \in Int : Add(i, k) \in Counter
    BY <1>0, <1>m DEF Add, Counter
  <1>4. m \in Counter /\ Minus(i, i) = 0
    BY <1>0, <1>1, <1>m DEF Counter, Minus
  <1> HIDE DEF m
  <1>5. Add(j, m) = i
    <2>1. m \in Nat /\ m < UINT
      BY <1>0, <1>1
    <2> QED
      BY <1>0, <1>1, <1>2, <2>1
  <1>6. ASSUME NEW k \in Nat, m + k < UINT
        PROVE  Minus(Add(i, k), j) = m + k
    <2>1. k < UINT /\ m \in Nat
      BY <1>0, <1>1, <1>6
    <2>2. Add(i, k) = IF i + k < UINT THEN i + k ELSE i + k - UINT
      BY <1>0, <1>2, <2>1
    <2> DEFINE d == Add(i, k) - j
    <2>3. /\ d \in Int
          /\ \/ 0 <= d /\ d < UINT /\ d = m + k
             \/ 0 - UINT < d /\ d < 0 /\ d + UINT = m + k
      <3>1. Add(i, k) \in Int
        BY <1>0, <1>3, <2>1, <2>2
      <3> QED
        BY <1>0, <1>1, <1>6, <2>1, <2>2, <3>1, Around
    <2>4. Minus(Add(i, k), j) = d % UINT
      BY DEF Minus
    <2> HIDE DEF d
    <2> QED
      BY <1>0, <1>m, <2>3, <2>4
  <1>7. ASSUME NEW k \in Nat, k <= m
        PROVE  Minus(i, Add(j, k)) = m - k
    <2>1. k < UINT /\ m \in Nat
      BY <1>0, <1>1, <1>7
    <2>2. Add(j, k) = IF j + k < UINT THEN j + k ELSE j + k - UINT
      BY <1>0, <1>2, <2>1
    <2> DEFINE d == i - Add(j, k)
    <2>3. /\ d \in Int
          /\ \/ 0 <= d /\ d < UINT /\ d = m - k
             \/ 0 - UINT < d /\ d < 0 /\ d + UINT = m - k
      <3>1. Add(j, k) \in Int
        BY <1>0, <1>3, <2>1, <2>2
      <3> QED
        BY <1>0, <1>1, <1>7, <2>1, <2>2, <3>1, Around
    <2>4. Minus(i, Add(j, k)) = d % UINT
      BY DEF Minus
    <2> HIDE DEF d
    <2> QED
      BY <1>0, <1>m, <2>3, <2>4
  <1>8. m = 0 => i = j
    BY <1>0, <1>1
  <1> QED
    BY <1>3, <1>4, <1>5, <1>6, <1>7, <1>8 DEF m
-----------------------------------------------------------------------------
(* Least elements, and the rings.                                           *)

\* fdalloc takes the lowest free descriptor, kexit closes the lowest open one.
LEMMA Least ==
  ASSUME NEW S \in SUBSET Nat, S # {}
  PROVE  Min(S) \in S /\ \A x \in S : Min(S) <= x
  <1> DEFINE R == OpToRel(<, Nat)
  <1>1. IsWellFoundedOn(R, Nat)
    BY NatLessThanWellFounded
  <1>2. \A x, y \in Nat : <<x, y>> \in R <=> x < y
    BY DEF OpToRel
  <1> HIDE DEF R
  <1>3. PICK x \in S : \A y \in S : ~(<<y, x>> \in R)
    BY <1>1, WFMin
  <1>4. ASSUME NEW y \in S PROVE x <= y
    <2>1. x \in Nat /\ y \in Nat
      OBVIOUS
    <2>2. ~(y < x)
      BY <1>2, <1>3, <2>1
    <2> QED
      BY <2>1, <2>2
  <1> QED
    BY <1>4 DEF Min

LEMMA MinOfTwo ==
  ASSUME NEW a \in Nat, NEW b \in Nat
  PROVE  Min({a, b}) = IF a <= b THEN a ELSE b
  BY Least, {a, b} \in SUBSET Nat

\* A counter that has wrapped leads to the same place of the ring.
LEMMA Wrapped ==
  ASSUME NEW size \in Nat \ {0}, UINT % size = 0, UINT \in Nat \ {0}, NEW a \in Nat
  PROVE  (a % UINT) % size = a % size
  <1> DEFINE r == a % UINT
             c == UINT \div size
             q == a \div UINT
             x == r \div size
             y == a \div size
  <1>1. a = UINT * q + r /\ r \in Nat /\ q \in Int
    BY Division
  <1>2. r = size * x + (r % size) /\ x \in Int /\ r % size \in 0..(size - 1)
    BY <1>1, Division
  <1>3. a = size * y + (a % size) /\ y \in Int /\ a % size \in 0..(size - 1)
    BY Division
  <1>4. UINT = size * c /\ c \in Int
    BY Division
  <1> HIDE DEF r, c, q, x, y
  <1>5. UINT * q = size * (c * q) /\ c * q \in Int
    BY <1>1, <1>4
  <1>6. size * (c * q) + size * x = size * (c * q + x) /\ c * q + x \in Int
    BY <1>2, <1>5
  <1>7. size * (c * q + x) + (r % size) = size * y + (a % size)
    <2>1. size * (c * q) \in Int /\ size * x \in Int
      BY <1>2, <1>5
    <2> QED
      BY <1>1, <1>2, <1>3, <1>5, <1>6, <2>1
  <1>8. r % size = a % size
    BY <1>2, <1>3, <1>6, <1>7, SameRemainder
  <1> QED
    BY <1>8 DEF r

LEMMA AddAdd ==
  ASSUME NEW i \in Nat, NEW m \in Nat, NEW n \in Nat
  PROVE  Add(Add(i, m), n) = Add(i, m + n)
  <1>0. UINT \in Nat \ {0}
    BY RingAssumption
  <1> DEFINE r == (i + m) % UINT
             q == (i + m) \div UINT
             x == (r + n) \div UINT
             y == (i + (m + n)) \div UINT
  <1>1. i + m = UINT * q + r /\ r \in Nat /\ q \in Int
    BY <1>0, Division
  <1>2. r + n = UINT * x + ((r + n) % UINT) /\ x \in Int /\ (r + n) % UINT \in 0..(UINT - 1)
    <2>1. r + n \in Int
      BY <1>1
    <2> QED
      BY <1>0, <2>1, Division, Zenon
  <1>3. /\ i + (m + n) = UINT * y + ((i + (m + n)) % UINT) /\ y \in Int
        /\ (i + (m + n)) % UINT \in 0..(UINT - 1)
    <2>1. i + (m + n) \in Int
      OBVIOUS
    <2> QED
      BY <1>0, <2>1, Division, Zenon
  <1> HIDE DEF r, q, x, y
  <1>4. UINT * q + UINT * x = UINT * (q + x) /\ q + x \in Int
    BY <1>0, <1>1, <1>2
  <1>5. UINT * (q + x) + ((r + n) % UINT) = UINT * y + ((i + (m + n)) % UINT)
    <2>1. UINT * q \in Int /\ UINT * x \in Int
      BY <1>0, <1>1, <1>2
    <2> QED
      BY <1>1, <1>2, <1>3, <1>4, <2>1
  <1>6. (r + n) % UINT = (i + (m + n)) % UINT
    BY <1>0, <1>2, <1>3, <1>4, <1>5, SameRemainder
  <1> QED
    BY <1>6 DEF r, Add

\* Fewer than size steps apart, counters have different places.
LEMMA Places ==
  ASSUME NEW size \in Nat \ {0}, UINT % size = 0, NEW i \in Nat,
         NEW a \in 0..(size - 1), NEW b \in 0..(size - 1),
         Add(i, a) % size = Add(i, b) % size
  PROVE  a = b
  <1> DEFINE x == (i + a) \div size
             y == (i + b) \div size
             r == (i + a) % size
  <1>0. i + a \in Nat /\ i + b \in Nat /\ UINT \in Nat \ {0}
    BY RingAssumption
  <1>1. (i + a) % size = (i + b) % size
    BY <1>0, Wrapped, Zenon DEF Add
  <1>2. i + a = size * x + r /\ x \in Int /\ r \in Int
    BY Division
  <1>3. i + b = size * y + r /\ y \in Int
    <2>1. i + b \in Int
      OBVIOUS
    <2>2. i + b = size * y + ((i + b) % size) /\ y \in Int
      BY <2>1, Division, Zenon
    <2> QED
      BY <1>1, <2>2
  <1> HIDE DEF x, y, r
  <1>4. size * x - size * y = size * (x - y)
    BY <1>2, <1>3
  <1>5. a - b = size * (x - y)
    <2>1. size * x \in Int /\ size * y \in Int
      BY <1>2, <1>3
    <2> QED
      BY <1>2, <1>3, <1>4, <2>1
  <1>6. size * 0 + (a - b) = size * (x - y) + 0 /\ size * (x - y) \in Int
    BY <1>2, <1>3, <1>5
  <1>7. CASE a >= b
    <2>1. a - b \in 0..(size - 1) /\ 0 \in 0..(size - 1) /\ x - y \in Int
      BY <1>2, <1>3, <1>7
    <2> QED
      BY <1>6, <2>1, SameRemainder
  <1>8. CASE b >= a
    <2>1. b - a \in 0..(size - 1) /\ 0 \in 0..(size - 1) /\ y - x \in Int
      BY <1>2, <1>3, <1>8
    <2>2. size * (y - x) = 0 - size * (x - y)
      BY <1>2, <1>3
    <2>3. size * 0 + (b - a) = size * (y - x) + 0
      BY <1>5, <1>6, <2>1, <2>2
    <2> QED
      BY <2>1, <2>3, SameRemainder
  <1> QED
    BY <1>7, <1>8

LEMMA Joined ==
  ASSUME NEW x \in Seq(Key), NEW y \in Seq(Key), NEW z \in Seq(Key)
  PROVE  (x \o y) \o z = x \o (y \o z)
  BY ConcatAssociative

LEMMA Beginning ==
  ASSUME NEW x \in Seq(Key), NEW k \in 0..Len(x)
  PROVE  /\ SubSeq(x, 1, k) \in Seq(Key) /\ Len(SubSeq(x, 1, k)) = k
         /\ \A j \in 1..k : SubSeq(x, 1, k)[j] = x[j]
  <1>1. k \in Nat /\ k \in Int /\ 1 \in Int /\ \A j \in 1..k : x[j] \in Key
    BY LenProperties, ElementOfSeq
  <1>2. /\ SubSeq(x, 1, k) \in Seq(Key)
        /\ Len(SubSeq(x, 1, k)) = IF 1 <= k THEN k - 1 + 1 ELSE 0
        /\ \A j \in 1..(k - 1 + 1) : SubSeq(x, 1, k)[j] = x[1 + j - 1]
    BY <1>1, SubSeqProperties
  <1> QED
    BY <1>1, <1>2

LEMMA EntriesFacts ==
  ASSUME NEW size \in Nat \ {0}, NEW ring \in [Place(size) -> Key], NEW i \in Counter, NEW k \in Nat
  PROVE  LET s == Entries(ring, i, k) IN
         /\ s \in Seq(Key) /\ Len(s) = k
         /\ \A j \in 1..k : s[j] = ring[Add(i, j - 1) % size]
  <1> DEFINE s == Entries(ring, i, k)
  <1>1. Cardinality(DOMAIN ring) = size
    BY FS_Interval DEF Place
  <1>2. s = [j \in 1..k |-> ring[Add(i, j - 1) % size]]
    BY <1>1 DEF Entries
  <1>3. ASSUME NEW j \in 1..k
        PROVE  ring[Add(i, j - 1) % size] \in Key
    <2>1. Add(i, j - 1) \in Int
      BY RingAssumption DEF Add, Counter
    <2>2. Add(i, j - 1) % size \in Place(size)
      BY <2>1, Modulo, Zenon DEF Place
    <2> QED
      BY <2>2
  <1>4. s \in [1..k -> Key]
    BY <1>2, <1>3
  <1> QED
    BY <1>2, <1>4, SeqDef

\* The pipe's ring has the size it needs, and no place holds two bytes.
LEMMA PipeRing ==
  ASSUME NEW q \in PipeType
  PROVE  /\ PIPESIZE \in Nat \ {0} /\ UINT \in Nat /\ PIPESIZE < UINT
         /\ Queued(q) \in Counter /\ q.nread \in Counter /\ q.nwrite \in Counter
         /\ q.data \in [Place(PIPESIZE) -> Key]
         /\ q.nwrite = Add(q.nread, Queued(q))
         /\ \A a, b \in 0..(PIPESIZE - 1) :
              Add(q.nread, a) % PIPESIZE = Add(q.nread, b) % PIPESIZE => a = b
  <1>1. q.nread \in Counter /\ q.nwrite \in Counter /\ q.data \in [Place(PIPESIZE) -> Key]
    BY DEF PipeType
  <1>2. q.nwrite = Add(q.nread, Queued(q)) /\ Queued(q) \in Counter
    BY <1>1, Counters DEF Queued
  <1>3. q.nread \in Nat /\ PIPESIZE \in Nat \ {0} /\ UINT % PIPESIZE = 0
    BY <1>1, RingAssumption DEF Counter
  <1> QED
    BY <1>1, <1>2, <1>3, RingAssumption, Places, Zenon

\* What pipewrite puts into the ring comes after what is in it.
LEMMA PutInRing ==
  ASSUME NEW q \in PipeType, NEW s \in Seq(Key), Queued(q) + Len(s) <= PIPESIZE
  PROVE  LET t == Piped(q, s) IN
         /\ t \in PipeType /\ Queued(t) = Queued(q) + Len(s)
         /\ t.readopen = q.readopen /\ t.writeopen = q.writeopen
         /\ Ahead(t, PIPESIZE) = Ahead(q, PIPESIZE) \o s
  <1> DEFINE t == Piped(q, s)
             m == Queued(q)
             n == Len(s)
             here(i) == {j \in 1..n : Add(q.nwrite, j - 1) % PIPESIZE = i}
             data == [i \in Place(PIPESIZE) |-> IF here(i) = {} THEN q.data[i] ELSE s[Max(here(i))]]
  <1>0. n \in Nat /\ s \in [1..n -> Key] /\ DOMAIN s = 1..n
    BY LenProperties
  <1>1. /\ PIPESIZE \in Nat \ {0} /\ UINT \in Nat /\ PIPESIZE < UINT /\ m \in Nat /\ m < UINT
        /\ q.nread \in Nat
    BY PipeRing DEF Counter
  <1>2. Fits(q, s) = n
    <2>1. PIPESIZE - m \in Nat /\ n <= PIPESIZE - m
      BY <1>0, <1>1
    <2> QED
      BY <1>0, <2>1, MinOfTwo DEF Fits, Room
  <1>3. t = [q EXCEPT !.nwrite = Add(@, n), !.data = data]
    BY <1>2, PipeRing DEF Piped
  <1>4. /\ t.data = data /\ t.nread = q.nread /\ t.nwrite = Add(q.nwrite, n)
        /\ t.readopen = q.readopen /\ t.writeopen = q.writeopen
    BY <1>3 DEF PipeType
  <1>5. \A j \in 1..n : Add(q.nwrite, j - 1) = Add(q.nread, m + (j - 1))
    <2>1. ASSUME NEW j \in 1..n
          PROVE  Add(q.nwrite, j - 1) = Add(q.nread, m + (j - 1))
      <3>1. j - 1 \in Nat
        BY <1>0
      <3>2. q.nwrite = Add(q.nread, m)
        BY PipeRing
      <3> HIDE DEF m
      <3>3. Add(Add(q.nread, m), j - 1) = Add(q.nread, m + (j - 1))
        BY <1>1, <3>1, AddAdd, Zenon
      <3> QED
        BY <3>2, <3>3, Zenon
    <2> QED
      BY <2>1
  <1>6. ASSUME NEW j \in 1..n
        PROVE  /\ here(Add(q.nread, m + (j - 1)) % PIPESIZE) = {j}
    <2>1. ASSUME NEW l \in 1..n, Add(q.nwrite, l - 1) % PIPESIZE = Add(q.nread, m + (j - 1)) % PIPESIZE
          PROVE  l = j
      <3>1. m + (j - 1) \in 0..(PIPESIZE - 1) /\ m + (l - 1) \in 0..(PIPESIZE - 1)
        BY <1>0, <1>1
      <3>2. m + (j - 1) = m + (l - 1)
        BY <1>5, <2>1, <3>1, PipeRing, Zenon
      <3> QED
        BY <1>0, <1>1, <3>2
    <2> QED
      BY <2>1, <1>5
  <1>7. \A j \in 1..n : Max({j}) = j
    BY <1>0 DEF Max
  <1>8. ASSUME NEW o \in 0..(m - 1)
        PROVE  here(Add(q.nread, o) % PIPESIZE) = {}
    <2>1. ASSUME NEW l \in 1..n, Add(q.nwrite, l - 1) % PIPESIZE = Add(q.nread, o) % PIPESIZE
          PROVE  FALSE
      <3>1. o \in 0..(PIPESIZE - 1) /\ m + (l - 1) \in 0..(PIPESIZE - 1) /\ m + (l - 1) # o
        BY <1>0, <1>1
      <3> QED
        BY <1>5, <2>1, <3>1, PipeRing, Zenon
    <2> QED
      BY <2>1
  <1>9. \A i \in Int : Add(q.nread, i) % PIPESIZE \in Place(PIPESIZE)
    <2>1. \A i \in Int : Add(q.nread, i) \in Int
      BY <1>1, RingAssumption DEF Add, Counter
    <2>2. \A a \in Int : a % PIPESIZE \in 0..(PIPESIZE - 1)
      BY RingAssumption, Modulo, Zenon
    <2> QED
      BY <2>1, <2>2, Zenon DEF Place
  <1>10. ASSUME NEW i \in Place(PIPESIZE)
         PROVE  data[i] \in Key
    <2>1. CASE here(i) = {}
      BY <2>1, PipeRing
    <2>2. CASE here(i) # {}
      <3>1. PICK j \in 1..n : Add(q.nwrite, j - 1) % PIPESIZE = i
        BY <2>2
      <3>2. here(i) = {j}
        BY <1>5, <1>6, <3>1
      <3> QED
        BY <1>0, <1>7, <2>2, <3>2
    <2> QED
      BY <2>1, <2>2
  <1>11. t \in PipeType
    <2>1. q.nwrite \in Counter /\ n \in Int
      BY <1>0, PipeRing
    <2>2. Add(q.nwrite, n) \in Counter
      BY <2>1, Counters, Zenon
    <2>3. data \in [Place(PIPESIZE) -> Key]
      BY <1>10
    <2> HIDE DEF data
    <2> QED
      BY <1>3, <2>2, <2>3 DEF PipeType
  <1>12. Queued(t) = m + n
    <2>1. m + n < UINT
      BY <1>0, <1>1
    <2> QED
      BY <1>0, <1>4, <2>1, PipeRing, Counters DEF Queued
  <1>13. /\ Ahead(q, PIPESIZE) = Entries(q.data, q.nread, m)
         /\ Ahead(t, PIPESIZE) = Entries(data, q.nread, m + n)
    <2>1. Min({PIPESIZE, m}) = m /\ Min({PIPESIZE, m + n}) = m + n
      <3>1. m <= PIPESIZE /\ m + n \in Nat /\ m + n <= PIPESIZE
        BY <1>0, <1>1
      <3>2. Min({PIPESIZE, m}) = m
        BY <1>1, <3>1, MinOfTwo
      <3>3. Min({PIPESIZE, m + n}) = m + n
        BY <1>1, <3>1, MinOfTwo
      <3> QED
        BY <3>2, <3>3
    <2> QED
      BY <1>4, <1>12, <2>1 DEF Ahead
  <1> DEFINE a == Entries(q.data, q.nread, m)
             b == Entries(data, q.nread, m + n)
  <1>14. /\ a \in Seq(Key) /\ Len(a) = m
         /\ \A j \in 1..m : a[j] = q.data[Add(q.nread, j - 1) % PIPESIZE]
    BY <1>1, PipeRing, EntriesFacts, ZenonT(30)
  <1>15. /\ b \in Seq(Key) /\ Len(b) = m + n
         /\ \A j \in 1..(m + n) : b[j] = data[Add(q.nread, j - 1) % PIPESIZE]
    <2>1. m + n \in Nat /\ data \in [Place(PIPESIZE) -> Key]
      BY <1>0, <1>1, <1>10
    <2> HIDE DEF data
    <2> QED
      BY <1>1, <2>1, PipeRing, EntriesFacts, ZenonT(30)
  <1>16. /\ a \o s \in Seq(Key) /\ Len(a \o s) = m + n
         /\ \A j \in 1..(m + n) : (a \o s)[j] = IF j <= m THEN a[j] ELSE s[j - m]
    <2>1. Len(a) + Len(s) = m + n
      BY <1>14
    <2>2. /\ a \o s \in Seq(Key) /\ Len(a \o s) = Len(a) + Len(s)
          /\ \A j \in 1..(Len(a) + Len(s)) : (a \o s)[j] = IF j <= Len(a) THEN a[j] ELSE s[j - Len(a)]
      BY <1>14, ConcatProperties, Zenon
    <2> HIDE DEF a, m, n
    <2> QED
      BY <1>14, <2>1, <2>2
  <1> HIDE DEF a, b
  <1>17. ASSUME NEW j \in 1..(m + n)
         PROVE  b[j] = (a \o s)[j]
    <2>1. CASE j <= m
      <3>1. j \in 1..m /\ j - 1 \in 0..(m - 1)
        BY <1>0, <1>1, <2>1
      <3>2. data[Add(q.nread, j - 1) % PIPESIZE] = q.data[Add(q.nread, j - 1) % PIPESIZE]
        BY <1>8, <1>9, <3>1
      <3> HIDE DEF data
      <3> QED
        BY <1>14, <1>15, <1>16, <2>1, <3>1, <3>2
    <2>2. CASE ~(j <= m)
      <3>1. j - m \in 1..n /\ j - 1 = m + ((j - m) - 1) /\ m + ((j - m) - 1) \in Int
        BY <1>0, <1>1, <2>2
      <3>2. data[Add(q.nread, m + ((j - m) - 1)) % PIPESIZE] = s[j - m]
        BY <1>6, <1>7, <1>9, <3>1
      <3> HIDE DEF data
      <3> QED
        BY <1>15, <1>16, <2>2, <3>1, <3>2
    <2> QED
      BY <2>1, <2>2
  <1>18. b = a \o s
    BY <1>15, <1>16, <1>17, SeqEqual, Zenon
  <1> QED
    BY <1>4, <1>11, <1>12, <1>13, <1>18 DEF a, b

\* What piperead takes is what comes first, and the rest stays in order.
LEMMA TakeFromRing ==
  ASSUME NEW q \in PipeType, Queued(q) <= PIPESIZE, NEW n \in Nat \ {0}
  PROVE  LET t == Drained(q, n)
             s == Ahead(q, n) IN
         /\ t \in PipeType /\ Queued(t) <= PIPESIZE
         /\ t.readopen = q.readopen /\ t.writeopen = q.writeopen
         /\ s \in Seq(Key) /\ Len(s) <= n
         /\ s # <<>> => Queued(t) < PIPESIZE
         /\ s = <<>> => Queued(q) = 0
         /\ Queued(q) = 0 => Queued(t) = 0
         /\ Ahead(q, PIPESIZE) = s \o Ahead(t, PIPESIZE)
  <1> DEFINE t == Drained(q, n)
             m == Queued(q)
             k == Min({n, m})
             a == Entries(q.data, q.nread, k)
             b == Entries(q.data, Add(q.nread, k), m - k)
             c == Entries(q.data, q.nread, m)
  <1>1. /\ PIPESIZE \in Nat \ {0} /\ UINT \in Nat /\ PIPESIZE < UINT /\ m \in Nat /\ m < UINT
        /\ q.nread \in Counter /\ q.nread \in Nat /\ q.data \in [Place(PIPESIZE) -> Key]
    BY PipeRing DEF Counter
  <1>2. k = IF n <= m THEN n ELSE m
    BY <1>1, MinOfTwo
  <1>3. k \in Nat /\ k <= m /\ m - k \in Nat /\ m - k <= PIPESIZE
    BY <1>1, <1>2
  <1> HIDE DEF k
  <1>4. t = [q EXCEPT !.nread = Add(@, k)]
    BY DEF Drained, k
  <1>5. /\ t.data = q.data /\ t.nread = Add(q.nread, k) /\ t.nwrite = q.nwrite
        /\ t.readopen = q.readopen /\ t.writeopen = q.writeopen
    BY <1>4 DEF PipeType
  <1>6. Add(q.nread, k) \in Counter
    <2>1. q.nread \in Counter /\ k \in Int
      BY <1>3 DEF PipeType
    <2> QED
      BY <2>1, Counters, Zenon
  <1>7. t \in PipeType
    BY <1>4, <1>6 DEF PipeType
  <1>8. Queued(t) = m - k
    BY <1>3, <1>5, PipeRing, Counters DEF Queued
  <1>9. /\ Ahead(q, PIPESIZE) = c /\ Ahead(q, n) = a /\ Ahead(t, PIPESIZE) = b
    <2>1. Min({PIPESIZE, m}) = m
      BY <1>1, MinOfTwo
    <2>2. Min({PIPESIZE, m - k}) = m - k
      BY <1>1, <1>3, MinOfTwo
    <2> QED
      BY <1>5, <1>8, <2>1, <2>2 DEF Ahead, k
  <1>10. /\ a \in Seq(Key) /\ Len(a) = k
         /\ \A j \in 1..k : a[j] = q.data[Add(q.nread, j - 1) % PIPESIZE]
    BY <1>1, <1>3, EntriesFacts, ZenonT(30)
  <1>11. /\ b \in Seq(Key) /\ Len(b) = m - k
         /\ \A j \in 1..(m - k) : b[j] = q.data[Add(Add(q.nread, k), j - 1) % PIPESIZE]
    BY <1>1, <1>3, <1>6, EntriesFacts, ZenonT(30)
  <1>12. /\ c \in Seq(Key) /\ Len(c) = m
         /\ \A j \in 1..m : c[j] = q.data[Add(q.nread, j - 1) % PIPESIZE]
    BY <1>1, PipeRing, EntriesFacts, ZenonT(30)
  <1> HIDE DEF a, b, c
  <1>13. /\ a \o b \in Seq(Key) /\ Len(a \o b) = m
         /\ \A j \in 1..m : (a \o b)[j] = IF j <= k THEN a[j] ELSE b[j - k]
    <2>1. Len(a) + Len(b) = m
      BY <1>1, <1>3, <1>10, <1>11
    <2>2. /\ a \o b \in Seq(Key) /\ Len(a \o b) = Len(a) + Len(b)
          /\ \A j \in 1..(Len(a) + Len(b)) : (a \o b)[j] = IF j <= Len(a) THEN a[j] ELSE b[j - Len(a)]
      BY <1>10, <1>11, ConcatProperties, Zenon
    <2> HIDE DEF m
    <2> QED
      BY <1>10, <2>1, <2>2
  <1>14. ASSUME NEW j \in 1..m
         PROVE  c[j] = (a \o b)[j]
    <2>1. CASE j <= k
      <3>1. j \in 1..k
        BY <1>1, <1>3, <2>1
      <3> QED
        BY <1>10, <1>12, <1>13, <2>1, <3>1, Zenon
    <2>2. CASE ~(j <= k)
      <3>1. j - k \in 1..(m - k) /\ j - 1 = k + ((j - k) - 1) /\ (j - k) - 1 \in Nat
        BY <1>1, <1>3, <2>2
      <3>2. Add(Add(q.nread, k), (j - k) - 1) = Add(q.nread, j - 1)
        <4>1. Add(Add(q.nread, k), (j - k) - 1) = Add(q.nread, k + ((j - k) - 1))
          BY <1>1, <1>3, <3>1, AddAdd, ZenonT(30)
        <4> QED
          BY <3>1, <4>1, Zenon
      <3> QED
        BY <1>11, <1>12, <1>13, <2>2, <3>1, <3>2
    <2> QED
      BY <2>1, <2>2
  <1>15. c = a \o b
    BY <1>12, <1>13, <1>14, SeqEqual, Zenon
  <1>16. a = <<>> <=> k = 0
    BY <1>3, <1>10, EmptySeq
  <1>17. k <= n /\ (k = 0 => m = 0) /\ (m = 0 => m - k = 0) /\ (k # 0 => m - k < PIPESIZE)
    BY <1>1, <1>2, <1>3
  <1> QED
    BY <1>3, <1>5, <1>7, <1>8, <1>9, <1>10, <1>15, <1>16, <1>17
-----------------------------------------------------------------------------
(* The console.                                                             *)

\* consoleintr does not touch the read counter.
LEMMA TypedFacts ==
  ASSUME NEW c \in ConsType, NEW ch \in Key
  PROVE  Typed(c, ch) \in ConsType /\ Typed(c, ch).r = c.r
  <1>0. UINT \in Nat \ {0} /\ c.e \in Counter /\ c.w \in Counter /\ c.r \in Counter
    BY RingAssumption DEF ConsType
  <1>1. \A k \in Int : Minus(c.e, k) \in Counter /\ Add(c.e, k) \in Counter
    <2>1. ASSUME NEW k \in Int PROVE Minus(c.e, k) \in Counter
      <3>1. c.e - k \in Int
        BY <1>0 DEF Counter
      <3> QED
        BY <1>0, <3>1, Modulo, Zenon DEF Minus, Counter
    <2> QED
      BY <1>0, <2>1, Counters, Zenon
  <1>2. LineStart(c) \in Counter
    <2> DEFINE back == {k \in 0..Minus(c.e, c.w) : \/ k = Minus(c.e, c.w)
                          \/ c.buf[Minus(c.e, k + 1) % INPUT_BUF_SIZE] = NL}
    <2>1. Minus(c.e, c.w) \in Nat
      BY <1>0, <1>1 DEF Counter
    <2>2. Minus(c.e, c.w) \in back /\ back \in SUBSET Nat
      BY <2>1
    <2> HIDE DEF back
    <2>3. Min(back) \in Nat
      BY <2>2, Least
    <2> QED
      BY <1>1, <2>3 DEF LineStart, back
  <1>3. /\ [c EXCEPT !.e = Minus(@, 1)] \in ConsType
        /\ [c EXCEPT !.e = LineStart(c)] \in ConsType
    BY <1>1, <1>2 DEF ConsType
  <1>4. ASSUME NEW w \in Counter
        PROVE  [c EXCEPT !.buf[c.e % INPUT_BUF_SIZE] = ch, !.e = Add(@, 1), !.w = w] \in ConsType
    <2>1. [c.buf EXCEPT ![c.e % INPUT_BUF_SIZE] = ch] \in [Place(INPUT_BUF_SIZE) -> Key]
      BY DEF ConsType
    <2>2. Add(c.e, 1) \in Counter
      BY <1>1
    <2> QED
      BY <1>4, <2>1, <2>2 DEF ConsType
  <1>5. (IF Commits(c, ch) THEN Add(c.e, 1) ELSE c.w) \in Counter
    BY <1>0, <1>1
  <1>6. [c EXCEPT !.buf[c.e % INPUT_BUF_SIZE] = ch, !.e = Add(@, 1),
                  !.w = IF Commits(c, ch) THEN Add(c.e, 1) ELSE @] \in ConsType
    BY <1>4, <1>5 DEF ConsType
  <1>7. /\ [c EXCEPT !.e = Minus(@, 1)].r = c.r /\ [c EXCEPT !.e = LineStart(c)].r = c.r
        /\ [c EXCEPT !.buf[c.e % INPUT_BUF_SIZE] = ch, !.e = Add(@, 1),
                     !.w = IF Commits(c, ch) THEN Add(c.e, 1) ELSE @].r = c.r
    BY DEF ConsType
  <1> QED
    BY <1>3, <1>6, <1>7 DEF Typed

\* consoleread of n bytes into a buffer b with room for them: it fits, and the
\* read goes on waiting only when there is nothing left to take.
LEMMA TakenFacts ==
  ASSUME NEW c \in ConsType, NEW n \in Nat \ {0}, NEW b \in Seq(Key), Len(b) + n = CHUNK
  PROVE  LET s == Taken(c, n)
             k == Consumed(s, Len(b))
             t == b \o Copied(s)
             done == s # <<>> /\ (Last(s) \in {NL, EOF} \/ Len(t) = CHUNK) IN
         /\ Copied(s) \in Seq(Key) /\ t \in Seq(Key) /\ Len(t) <= CHUNK
         /\ Add(c.r, k) \in Counter
         /\ k \in 0..Minus(c.w, c.r) /\ SubSeq(s, 1, k) = SubSeq(Ready(c), 1, k)
         /\ ~done => Len(t) < CHUNK /\ Add(c.r, k) = c.w
         /\ c.r = c.w => Add(c.r, k) = c.r
  <1> DEFINE m == Minus(c.w, c.r)
             a == Entries(c.buf, c.r, m)
             stops == {j \in 1..m : a[j] \in {NL, EOF} \/ j = n}
             l == IF stops = {} THEN m ELSE Min(stops)
             s == Taken(c, n)
             k == Consumed(s, Len(b))
             t == b \o Copied(s)
             done == s # <<>> /\ (Last(s) \in {NL, EOF} \/ Len(t) = CHUNK)
  <1>0. /\ UINT \in Nat \ {0} /\ INPUT_BUF_SIZE \in Nat \ {0} /\ CHUNK \in Nat
        /\ c.r \in Counter /\ c.w \in Counter /\ c.r \in Nat /\ c.r < UINT
        /\ c.buf \in [Place(INPUT_BUF_SIZE) -> Key]
    BY RingAssumption, PipelineAssumption DEF ConsType, Counter
  <1>1. m \in Nat /\ Add(c.r, m) = c.w /\ (c.r = c.w => m = 0)
    <2>1. m \in Counter /\ Add(c.r, m) = c.w /\ Minus(c.r, c.r) = 0
      BY <1>0, Counters, Zenon
    <2> QED
      BY <1>0, <2>1 DEF Counter
  <1>2. a \in Seq(Key) /\ Len(a) = m
    <2> HIDE DEF m
    <2>1. /\ INPUT_BUF_SIZE \in Nat \ {0} /\ c.buf \in [Place(INPUT_BUF_SIZE) -> Key]
          /\ c.r \in Counter /\ m \in Nat
      BY <1>0, <1>1
    <2> QED
      BY <2>1, EntriesFacts
  <1> HIDE DEF m, a
  <1>3. stops # {} => Min(stops) \in stops /\ \A j \in stops : Min(stops) <= j
    <2>1. stops \in SUBSET Nat
      BY <1>1
    <2> HIDE DEF stops
    <2> QED
      BY <2>1, Least
  <1>4. /\ l \in 0..m /\ l <= n
        /\ stops # {} => l \in 1..m /\ (a[l] \in {NL, EOF} \/ l = n)
        /\ stops = {} => l = m /\ m < n
    <2>1. n <= m => n \in stops
      BY <1>1
    <2>2. CASE stops = {}
      <3>1. l = m /\ ~(n <= m)
        BY <2>1, <2>2
      <3> HIDE DEF l, stops
      <3> QED
        BY <1>1, <2>2, <3>1
    <2>3. CASE stops # {}
      <3>1. l \in stops /\ l = Min(stops)
        BY <1>3, <2>3
      <3>2. l \in 1..m /\ (a[l] \in {NL, EOF} \/ l = n)
        BY <3>1
      <3>3. n <= m => l <= n
        BY <1>3, <2>1, <2>3, <3>1
      <3> HIDE DEF l, stops
      <3> QED
        BY <1>1, <2>3, <3>2, <3>3
    <2> QED
      BY <2>2, <2>3
  <1>5. s = SubSeq(a, 1, l)
    BY DEF Taken, Ready, m, a
  <1> HIDE DEF stops, l
  <1>6. s \in Seq(Key) /\ Len(s) = l /\ \A j \in 1..l : s[j] = a[j]
    <2>1. \A j \in 1..m : a[j] \in Key
      BY <1>2, ElementOfSeq
    <2>2. \A j \in 1..l : a[j] \in Key
      BY <1>1, <1>4, <2>1
    <2>3. l \in Int /\ 1 \in Int
      BY <1>4
    <2>4. /\ SubSeq(a, 1, l) \in Seq(Key)
          /\ Len(SubSeq(a, 1, l)) = IF 1 <= l THEN l - 1 + 1 ELSE 0
          /\ \A j \in 1..(l - 1 + 1) : SubSeq(a, 1, l)[j] = a[1 + j - 1]
      BY <2>2, <2>3, SubSeqProperties
    <2> QED
      BY <1>4, <1>5, <2>4
  <1> HIDE DEF s
  <1>7. s = <<>> <=> l = 0
    BY <1>4, <1>6, EmptySeq
  <1>8. /\ Copied(s) \in Seq(Key) /\ Len(Copied(s)) \in 0..l
        /\ (s = <<>> \/ Last(s) # EOF) => Copied(s) = s /\ Len(Copied(s)) = l /\ k = l
    <2>1. CASE s # <<>> /\ Last(s) = EOF
      <3>1. l \in Nat \ {0}
        BY <1>4, <1>7, <2>1
      <3>2. \A j \in 1..(l - 1) : s[j] \in Key
        BY <1>6, <3>1, ElementOfSeq
      <3>3. SubSeq(s, 1, l - 1) \in Seq(Key) /\ Len(SubSeq(s, 1, l - 1)) = l - 1
        <4>1. l - 1 \in Int /\ 1 \in Int
          BY <3>1
        <4>2. /\ SubSeq(s, 1, l - 1) \in Seq(Key)
              /\ Len(SubSeq(s, 1, l - 1)) = IF 1 <= l - 1 THEN l - 1 - 1 + 1 ELSE 0
          BY <3>2, <4>1, SubSeqProperties
        <4> QED
          BY <3>1, <4>2
      <3> QED
        BY <1>6, <2>1, <3>1, <3>3 DEF Copied, Front
    <2>2. CASE s = <<>> \/ Last(s) # EOF
      BY <1>4, <1>6, <2>2 DEF Copied, Consumed
    <2> QED
      BY <2>1, <2>2
  <1>9. t \in Seq(Key) /\ Len(t) = Len(b) + Len(Copied(s))
    BY <1>8, ConcatProperties
  <1>10. Len(b) \in Nat
    BY LenProperties
  <1>11. Len(t) <= CHUNK
    BY <1>0, <1>4, <1>8, <1>9, <1>10
  <1>12. Add(c.r, k) \in Counter
    <2>1. k \in Int
      BY <1>4, <1>6 DEF Consumed
    <2> QED
      BY <1>0, <2>1, Counters, Zenon
  <1>13. ASSUME ~done PROVE Len(t) < CHUNK /\ Add(c.r, k) = c.w
    <2>1. s = <<>> \/ Last(s) # EOF
      BY <1>13
    <2>2. stops = {}
      <3>1. ASSUME stops # {} PROVE FALSE
        <4>1. l \in 1..m /\ s # <<>> /\ (a[l] \in {NL, EOF} \/ l = n)
          BY <1>4, <1>7, <3>1
        <4>2. Last(s) = a[l]
          <5>1. l \in 1..l
            BY <1>4, <4>1
          <5> QED
            BY <1>6, <5>1 DEF Last
        <4>3. Last(s) \notin {NL, EOF} /\ Len(t) # CHUNK
          BY <1>13, <4>1
        <4>4. l = n
          BY <4>1, <4>2, <4>3
        <4> QED
          BY <1>8, <1>9, <2>1, <4>3, <4>4
      <3> QED
        BY <3>1
    <2>3. l = m /\ m < n
      BY <1>4, <2>2
    <2>4. k = m /\ Len(Copied(s)) = m
      BY <1>8, <2>1, <2>3
    <2>5. Len(t) < CHUNK
      BY <1>0, <1>1, <1>9, <1>10, <2>3, <2>4
    <2> QED
      BY <1>1, <2>4, <2>5
  <1>14. ASSUME c.r = c.w PROVE Add(c.r, k) = c.r
    <2>1. l = 0 /\ m = 0
      BY <1>1, <1>4, <1>14
    <2>2. k = m
      BY <1>7, <1>8, <2>1
    <2> QED
      BY <1>1, <1>14, <2>2
  <1>15. k \in 0..m /\ SubSeq(s, 1, k) = SubSeq(a, 1, k)
    <2>1. k \in 0..l
      <3>1. s # <<>> => l - 1 \in 0..l
        BY <1>4, <1>7
      <3> QED
        BY <1>4, <1>6, <3>1 DEF Consumed
    <2> HIDE DEF k
    <2>2. k \in 0..m
      BY <1>1, <1>4, <2>1
    <2>3. /\ SubSeq(s, 1, k) \in Seq(Key) /\ Len(SubSeq(s, 1, k)) = k
          /\ \A j \in 1..k : SubSeq(s, 1, k)[j] = s[j]
      BY <1>6, <2>1, Beginning
    <2>4. /\ SubSeq(a, 1, k) \in Seq(Key) /\ Len(SubSeq(a, 1, k)) = k
          /\ \A j \in 1..k : SubSeq(a, 1, k)[j] = a[j]
      BY <1>2, <2>2, Beginning
    <2>5. \A j \in 1..k : s[j] = a[j]
      BY <1>4, <1>6, <2>1
    <2> QED
      BY <2>2, <2>3, <2>4, <2>5, SeqEqual, Zenon
  <1> QED
    BY <1>8, <1>9, <1>11, <1>12, <1>13, <1>14, <1>15 DEF s, a, m, Ready
-----------------------------------------------------------------------------
(* The line discipline in a ring.                                           *)

\* Not more than the ring holds, and no line's end in the line being edited.
LineRing(c) ==
  /\ Minus(c.w, c.r) + Minus(c.e, c.w) <= INPUT_BUF_SIZE
  /\ \A j \in 1..Minus(c.e, c.w) : Line(c)[j] # NL

\* What LineDisciplineExact compares with.
Text(c, read) == <<read \o Ready(c), Line(c)>>

LEMMA StepBack ==
  ASSUME NEW x \in Counter, NEW k \in Counter
  PROVE  Minus(Add(x, k), k) = x
  <1>0. UINT \in Nat \ {0} /\ x \in Nat /\ k \in Nat /\ x < UINT /\ k < UINT
    BY RingAssumption DEF Counter
  <1>1. CASE x + k < UINT
    <2>1. x + k \in 0..(UINT - 1) /\ x \in 0..(UINT - 1) /\ (x + k) - k = x
      BY <1>0, <1>1
    <2>2. Add(x, k) = x + k /\ x % UINT = x
      BY <1>0, <2>1, Modulo, Zenon DEF Add
    <2> QED
      BY <2>1, <2>2 DEF Minus
  <1>2. CASE ~(x + k < UINT)
    <2>1. x + k \in UINT..(2 * UINT - 1) /\ x - UINT \in (1 - UINT)..(-1)
      BY <1>0, <1>2
    <2>2. (x + k) % UINT = (x + k) - UINT
      <3> DEFINE a == x + k
      <3>1. a \in UINT..(2 * UINT - 1)
        BY <2>1
      <3> HIDE DEF a
      <3>2. a % UINT = a - UINT
        BY <1>0, <3>1, Modulo, Zenon
      <3> QED
        BY <3>2 DEF a
    <2>3. (x - UINT) % UINT = (x - UINT) + UINT
      BY <1>0, <2>1, Modulo, Zenon
    <2>4. ((x + k) - UINT) - k = x - UINT /\ (x - UINT) + UINT = x
      BY <1>0
    <2>5. Add(x, k) - k = x - UINT
      BY <1>0, <2>2, <2>4 DEF Add
    <2> QED
      BY <2>3, <2>4, <2>5, Zenon DEF Minus
  <1> QED
    BY <1>1, <1>2

LEMMA RingBeginning ==
  ASSUME NEW size \in Nat \ {0}, NEW ring \in [Place(size) -> Key], NEW i \in Counter,
         NEW n \in Nat, NEW k \in 0..n
  PROVE  Entries(ring, i, k) = SubSeq(Entries(ring, i, n), 1, k)
  <1> DEFINE a == Entries(ring, i, n)
             b == Entries(ring, i, k)
  <1>1. /\ a \in Seq(Key) /\ Len(a) = n
        /\ \A j \in 1..n : a[j] = ring[Add(i, j - 1) % size]
    BY EntriesFacts
  <1>2. /\ b \in Seq(Key) /\ Len(b) = k
        /\ \A j \in 1..k : b[j] = ring[Add(i, j - 1) % size]
    BY EntriesFacts
  <1> HIDE DEF a, b
  <1>3. /\ SubSeq(a, 1, k) \in Seq(Key) /\ Len(SubSeq(a, 1, k)) = k
        /\ \A j \in 1..k : SubSeq(a, 1, k)[j] = a[j]
    BY <1>1, Beginning
  <1>4. \A j \in 1..k : b[j] = SubSeq(a, 1, k)[j]
    <2>1. \A j \in 1..k : j \in 1..n
      OBVIOUS
    <2> QED
      BY <1>1, <1>2, <1>3, <2>1, Zenon
  <1>5. b = SubSeq(a, 1, k)
    BY <1>2, <1>3, <1>4, SeqEqual, Zenon
  <1> QED
    BY <1>5 DEF a, b

LEMMA RingSplit ==
  ASSUME NEW size \in Nat \ {0}, NEW ring \in [Place(size) -> Key], NEW i \in Counter,
         NEW m \in Nat, NEW n \in Nat
  PROVE  Entries(ring, i, m + n) = Entries(ring, i, m) \o Entries(ring, Add(i, m), n)
  <1> DEFINE a == Entries(ring, i, m)
             b == Entries(ring, Add(i, m), n)
             c == Entries(ring, i, m + n)
  <1>0. i \in Nat /\ Add(i, m) \in Counter /\ m + n \in Nat
    <2>1. m \in Int /\ m + n \in Nat
      OBVIOUS
    <2>2. Add(i, m) \in Counter
      BY <2>1, Counters, Zenon
    <2> QED
      BY <2>1, <2>2 DEF Counter
  <1>1. /\ a \in Seq(Key) /\ Len(a) = m
        /\ \A j \in 1..m : a[j] = ring[Add(i, j - 1) % size]
    BY EntriesFacts
  <1>2. /\ b \in Seq(Key) /\ Len(b) = n
        /\ \A j \in 1..n : b[j] = ring[Add(Add(i, m), j - 1) % size]
    BY <1>0, EntriesFacts, ZenonT(30)
  <1>3. /\ c \in Seq(Key) /\ Len(c) = m + n
        /\ \A j \in 1..(m + n) : c[j] = ring[Add(i, j - 1) % size]
    BY <1>0, EntriesFacts
  <1> HIDE DEF a, b, c
  <1>4. /\ a \o b \in Seq(Key) /\ Len(a \o b) = m + n
        /\ \A j \in 1..(m + n) : (a \o b)[j] = IF j <= m THEN a[j] ELSE b[j - m]
    <2>1. /\ a \o b \in Seq(Key) /\ Len(a \o b) = Len(a) + Len(b)
          /\ \A j \in 1..(Len(a) + Len(b)) : (a \o b)[j] = IF j <= Len(a) THEN a[j] ELSE b[j - Len(a)]
      BY <1>1, <1>2, ConcatProperties, ZenonT(30)
    <2> QED
      BY <1>1, <1>2, <2>1
  <1>5. ASSUME NEW j \in 1..(m + n)
        PROVE  c[j] = (a \o b)[j]
    <2>1. CASE j <= m
      <3>1. j \in 1..m
        BY <2>1
      <3> QED
        BY <1>1, <1>3, <1>4, <2>1, <3>1, Zenon
    <2>2. CASE ~(j <= m)
      <3>1. j - m \in 1..n /\ j - 1 = m + ((j - m) - 1) /\ (j - m) - 1 \in Nat
        BY <2>2
      <3>2. Add(Add(i, m), (j - m) - 1) = Add(i, j - 1)
        <4>1. Add(Add(i, m), (j - m) - 1) = Add(i, m + ((j - m) - 1))
          BY <1>0, <3>1, AddAdd, ZenonT(30)
        <4> QED
          BY <3>1, <4>1, Zenon
      <3> QED
        BY <1>2, <1>3, <1>4, <2>2, <3>1, <3>2
    <2> QED
      BY <2>1, <2>2
  <1>6. c = a \o b
    BY <1>3, <1>4, <1>5, SeqEqual, Zenon
  <1> QED
    BY <1>6 DEF a, b, c

\* Rings that agree on k places from i on.
LEMMA SameEntries ==
  ASSUME NEW size \in Nat \ {0}, NEW ring \in [Place(size) -> Key], NEW new \in [Place(size) -> Key],
         NEW i \in Counter, NEW k \in Nat,
         \A j \in 1..k : new[Add(i, j - 1) % size] = ring[Add(i, j - 1) % size]
  PROVE  Entries(new, i, k) = Entries(ring, i, k)
  <1>1. Cardinality(DOMAIN ring) = size /\ Cardinality(DOMAIN new) = size
    BY FS_Interval DEF Place
  <1> QED
    BY <1>1 DEF Entries

LEMMA LastEntry ==
  ASSUME NEW size \in Nat \ {0}, NEW ring \in [Place(size) -> Key], NEW i \in Counter, NEW n \in Nat
  PROVE  Entries(ring, i, n + 1) = Append(Entries(ring, i, n), ring[Add(i, n) % size])
  <1> DEFINE a == Entries(ring, i, n)
             b == Entries(ring, i, n + 1)
             ch == ring[Add(i, n) % size]
  <1>1. n + 1 \in Nat
    OBVIOUS
  <1>2. /\ a \in Seq(Key) /\ Len(a) = n
        /\ \A j \in 1..n : a[j] = ring[Add(i, j - 1) % size]
    BY EntriesFacts
  <1>3. /\ b \in Seq(Key) /\ Len(b) = n + 1
        /\ \A j \in 1..(n + 1) : b[j] = ring[Add(i, j - 1) % size]
    BY <1>1, EntriesFacts
  <1> HIDE DEF a, b
  <1>4. ch \in Key /\ b[n + 1] = ch
    <2>1. n + 1 \in 1..(n + 1) /\ (n + 1) - 1 = n
      OBVIOUS
    <2>2. b[n + 1] = ch
      BY <1>3, <2>1
    <2>3. b[n + 1] \in Key
      BY <1>3, <2>1, ElementOfSeq
    <2> QED
      BY <2>2, <2>3
  <1> HIDE DEF ch
  <1>5. /\ Append(a, ch) \in Seq(Key) /\ Len(Append(a, ch)) = n + 1
        /\ \A j \in 1..n : Append(a, ch)[j] = a[j]
        /\ Append(a, ch)[n + 1] = ch
    BY <1>2, <1>4, AppendProperties
  <1>6. \A j \in 1..(n + 1) : b[j] = Append(a, ch)[j]
    <2>1. \A j \in 1..(n + 1) : j \in 1..n \/ j = n + 1
      OBVIOUS
    <2> QED
      BY <1>2, <1>3, <1>4, <1>5, <2>1
  <1>7. b = Append(a, ch)
    BY <1>3, <1>5, <1>6, SeqEqual, Zenon
  <1> QED
    BY <1>7 DEF a, b, ch

\* A key after n others that are in the ring has a place of its own.
LEMMA Apart ==
  ASSUME NEW size \in Nat \ {0}, UINT % size = 0, NEW i \in Counter,
         NEW n \in 0..(size - 1), NEW j \in 1..n
  PROVE  Add(i, j - 1) % size # Add(i, n) % size
  <1>1. i \in Nat
    BY DEF Counter
  <1>2. j - 1 \in 0..(size - 1) /\ j - 1 # n
    OBVIOUS
  <1> QED
    BY <1>1, <1>2, Places, Zenon

\* What the ring's counters and contents say of each other.
LEMMA LineFacts ==
  ASSUME NEW c \in ConsType, LineRing(c)
  PROVE  LET m == Minus(c.w, c.r)
             l == Minus(c.e, c.w) IN
         /\ INPUT_BUF_SIZE \in Nat \ {0} /\ UINT \in Nat /\ INPUT_BUF_SIZE < UINT
         /\ UINT % INPUT_BUF_SIZE = 0
         /\ c.r \in Counter /\ c.w \in Counter /\ c.e \in Counter
         /\ c.buf \in [Place(INPUT_BUF_SIZE) -> Key]
         /\ m \in Nat /\ l \in Nat /\ m + l <= INPUT_BUF_SIZE
         /\ Add(c.r, m) = c.w /\ Add(c.w, l) = c.e /\ Add(c.r, m + l) = c.e
         /\ Minus(c.e, c.r) = m + l /\ (l = 0 <=> c.e = c.w)
         /\ Ready(c) \in Seq(Key) /\ Len(Ready(c)) = m
         /\ Line(c) \in Seq(Key) /\ Len(Line(c)) = l
         /\ \A j \in 1..l : Line(c)[j] # NL
  <1> DEFINE m == Minus(c.w, c.r)
             l == Minus(c.e, c.w)
  <1>1. /\ INPUT_BUF_SIZE \in Nat \ {0} /\ UINT \in Nat /\ INPUT_BUF_SIZE < UINT
        /\ UINT % INPUT_BUF_SIZE = 0
        /\ c.r \in Counter /\ c.w \in Counter /\ c.e \in Counter
        /\ c.buf \in [Place(INPUT_BUF_SIZE) -> Key]
    BY RingAssumption DEF ConsType
  <1>2. m \in Counter /\ Add(c.r, m) = c.w
    BY <1>1, Counters
  <1>3. l \in Counter /\ Add(c.w, l) = c.e /\ (l = 0 => c.e = c.w) /\ Minus(c.w, c.w) = 0
    BY <1>1, Counters
  <1>4. m \in Nat /\ l \in Nat /\ m + l <= INPUT_BUF_SIZE /\ m + l < UINT /\ c.r \in Nat
    BY <1>1, <1>2, <1>3 DEF LineRing, Counter
  <1>5. Ready(c) \in Seq(Key) /\ Len(Ready(c)) = m
    <2>1. m \in Nat
      BY <1>4
    <2> HIDE DEF m
    <2>2. Entries(c.buf, c.r, m) \in Seq(Key) /\ Len(Entries(c.buf, c.r, m)) = m
      <3>1. INPUT_BUF_SIZE \in Nat \ {0} /\ c.r \in Counter
        BY <1>1
      <3>2. c.buf \in [Place(INPUT_BUF_SIZE) -> Key]
        BY <1>1
      <3> QED
        BY <2>1, <3>1, <3>2, EntriesFacts
    <2> QED
      BY <2>2 DEF Ready, m
  <1>6. Line(c) \in Seq(Key) /\ Len(Line(c)) = l
    <2>1. l \in Nat
      BY <1>4
    <2> HIDE DEF l
    <2>2. Entries(c.buf, c.w, l) \in Seq(Key) /\ Len(Entries(c.buf, c.w, l)) = l
      <3>1. INPUT_BUF_SIZE \in Nat \ {0} /\ c.w \in Counter
        BY <1>1
      <3>2. c.buf \in [Place(INPUT_BUF_SIZE) -> Key]
        BY <1>1
      <3> QED
        BY <2>1, <3>1, <3>2, EntriesFacts
    <2> QED
      BY <2>2 DEF Line, l
  <1>7. \A j \in 1..l : Line(c)[j] # NL
    BY DEF LineRing
  <1> HIDE DEF l
  <1>8. Minus(c.e, c.r) = m + l
    <2>1. Minus(Add(c.w, l), c.r) = Minus(c.w, c.r) + l
      BY <1>1, <1>4, Counters
    <2> QED
      BY <1>3, <2>1
  <1> HIDE DEF m
  <1>9. Add(c.r, m + l) = c.e
    <2>1. Add(Add(c.r, m), l) = Add(c.r, m + l)
      BY <1>4, AddAdd
    <2> QED
      BY <1>2, <1>3, <2>1
  <1> QED
    BY <1>1, <1>2, <1>3, <1>4, <1>5, <1>6, <1>7, <1>8, <1>9 DEF m, l

\* Erasing k characters of the line.
LEMMA Shortened ==
  ASSUME NEW c \in ConsType, LineRing(c), NEW k \in 0..Minus(c.e, c.w)
  PROVE  LET l == Minus(c.e, c.w)
             d == [c EXCEPT !.e = Minus(@, k)] IN
         /\ Minus(c.e, k) = Add(c.w, l - k)
         /\ d \in ConsType /\ LineRing(d) /\ Ready(d) = Ready(c)
         /\ Line(d) = SubSeq(Line(c), 1, l - k)
  <1> DEFINE l == Minus(c.e, c.w)
             m == Minus(c.w, c.r)
             d == [c EXCEPT !.e = Minus(@, k)]
  <1>1. /\ INPUT_BUF_SIZE \in Nat \ {0} /\ UINT \in Nat /\ INPUT_BUF_SIZE < UINT
        /\ c.r \in Counter /\ c.w \in Counter /\ c.e \in Counter /\ c.w \in Nat
        /\ c.buf \in [Place(INPUT_BUF_SIZE) -> Key]
        /\ m \in Nat /\ l \in Nat /\ m + l <= INPUT_BUF_SIZE /\ Add(c.w, l) = c.e
        /\ Line(c) \in Seq(Key) /\ Len(Line(c)) = l /\ \A j \in 1..l : Line(c)[j] # NL
    BY LineFacts DEF Counter
  <1> HIDE DEF l, m
  <1>2. /\ k \in Nat /\ k \in Counter /\ l - k \in Nat /\ (l - k) + k = l /\ l - k \in 0..l
        /\ l - k < UINT /\ m + (l - k) <= INPUT_BUF_SIZE
    BY <1>1 DEF l, Counter
  <1>3. Add(c.w, l - k) \in Counter
    <2>1. l - k \in Int
      BY <1>2
    <2> QED
      BY <1>1, <2>1, Counters, Zenon
  <1>4. Minus(c.e, k) = Add(c.w, l - k)
    <2>1. Add(Add(c.w, l - k), k) = Add(c.w, (l - k) + k)
      BY <1>1, <1>2, AddAdd, ZenonT(30)
    <2>2. Minus(Add(Add(c.w, l - k), k), k) = Add(c.w, l - k)
      BY <1>2, <1>3, StepBack, Zenon
    <2> QED
      BY <1>1, <1>2, <2>1, <2>2, Zenon
  <1>5. d \in ConsType /\ d.buf = c.buf /\ d.r = c.r /\ d.w = c.w /\ d.e = Add(c.w, l - k)
    BY <1>3, <1>4 DEF ConsType
  <1> HIDE DEF d
  <1>6. Minus(d.e, d.w) = l - k
    <2>1. /\ Minus(c.w, c.w) = 0 /\ 0 + (l - k) = l - k
          /\ \A i \in Nat : Minus(c.w, c.w) + i < UINT => Minus(Add(c.w, i), c.w) = Minus(c.w, c.w) + i
      BY <1>1, <1>2, Counters
    <2> QED
      BY <1>2, <1>5, <2>1
  <1>7. Line(d) = SubSeq(Line(c), 1, l - k)
    <2>1. Entries(c.buf, c.w, l - k) = SubSeq(Entries(c.buf, c.w, l), 1, l - k)
      BY <1>1, <1>2, RingBeginning, ZenonT(30)
    <2> QED
      BY <1>5, <1>6, <2>1 DEF Line, l
  <1>8. Ready(d) = Ready(c)
    BY <1>5 DEF Ready
  <1>9. LineRing(d)
    <2>1. \A j \in 1..(l - k) : SubSeq(Line(c), 1, l - k)[j] = Line(c)[j] /\ j \in 1..l
      BY <1>1, <1>2, Beginning
    <2>2. \A j \in 1..(l - k) : Line(d)[j] # NL
      BY <1>1, <1>7, <2>1
    <2>3. Minus(d.w, d.r) + Minus(d.e, d.w) <= INPUT_BUF_SIZE
      BY <1>2, <1>5, <1>6 DEF m
    <2> QED
      BY <1>6, <2>2, <2>3 DEF LineRing
  <1> QED
    BY <1>4, <1>5, <1>7, <1>8, <1>9 DEF d, l

\* "Kill line" ends at the end of the last line: the line has no newline in it.
LEMMA LineStartFacts ==
  ASSUME NEW c \in ConsType, LineRing(c)
  PROVE  LineStart(c) = Minus(c.e, Minus(c.e, c.w))
  <1> DEFINE l == Minus(c.e, c.w)
             back == {k \in 0..l : k = l \/ c.buf[Minus(c.e, k + 1) % INPUT_BUF_SIZE] = NL}
  <1>1. /\ l \in Nat /\ c.w \in Counter /\ c.buf \in [Place(INPUT_BUF_SIZE) -> Key]
        /\ INPUT_BUF_SIZE \in Nat \ {0} /\ \A j \in 1..l : Line(c)[j] # NL
    BY LineFacts
  <1>2. ASSUME NEW k \in 0..l, k # l
        PROVE  c.buf[Minus(c.e, k + 1) % INPUT_BUF_SIZE] # NL
    <2>1. k + 1 \in 0..l /\ l - k \in 1..l /\ l - (k + 1) = (l - k) - 1
      <3> HIDE DEF l
      <3> QED
        BY <1>1, <1>2
    <2>2. Minus(c.e, k + 1) = Add(c.w, l - (k + 1))
      BY <2>1, Shortened
    <2>3. Line(c)[l - k] = c.buf[Add(c.w, (l - k) - 1) % INPUT_BUF_SIZE]
      <3> HIDE DEF l
      <3>1. \A j \in 1..l : Entries(c.buf, c.w, l)[j] = c.buf[Add(c.w, j - 1) % INPUT_BUF_SIZE]
        BY <1>1, EntriesFacts, ZenonT(30)
      <3> QED
        BY <2>1, <3>1 DEF Line, l
    <2> QED
      BY <1>1, <2>1, <2>2, <2>3
  <1>3. back = {l}
    BY <1>1, <1>2
  <1>4. Min({l}) = l
    <2>1. {l} \in SUBSET Nat /\ {l} # {}
      BY <1>1
    <2> HIDE DEF l
    <2> QED
      BY <2>1, Least
  <1>5. LineStart(c) = Minus(c.e, Min(back))
    BY DEF LineStart
  <1> QED
    BY <1>3, <1>4, <1>5

\* consoleintr puts a character into the line, or ends the line with it.
LEMMA Typing ==
  ASSUME NEW c \in ConsType, LineRing(c), NEW ch \in Key, NEW commits \in BOOLEAN,
         ch = NL => commits, Minus(c.e, c.r) < INPUT_BUF_SIZE
  PROVE  LET d == [c EXCEPT !.buf[c.e % INPUT_BUF_SIZE] = ch, !.e = Add(@, 1),
                            !.w = IF commits THEN Add(c.e, 1) ELSE @] IN
         /\ d \in ConsType /\ LineRing(d)
         /\ commits => Ready(d) = Ready(c) \o Append(Line(c), ch) /\ Line(d) = <<>>
         /\ ~commits => Ready(d) = Ready(c) /\ Line(d) = Append(Line(c), ch)
  <1> DEFINE m == Minus(c.w, c.r)
             l == Minus(c.e, c.w)
             e == Add(c.e, 1)
             new == [c.buf EXCEPT ![c.e % INPUT_BUF_SIZE] = ch]
             d == [c EXCEPT !.buf[c.e % INPUT_BUF_SIZE] = ch, !.e = Add(@, 1),
                            !.w = IF commits THEN Add(c.e, 1) ELSE @]
  <1>1. /\ INPUT_BUF_SIZE \in Nat \ {0} /\ UINT \in Nat /\ INPUT_BUF_SIZE < UINT
        /\ UINT % INPUT_BUF_SIZE = 0
        /\ c.r \in Counter /\ c.w \in Counter /\ c.e \in Counter
        /\ c.buf \in [Place(INPUT_BUF_SIZE) -> Key]
        /\ m \in Nat /\ l \in Nat /\ m + l < INPUT_BUF_SIZE
        /\ Add(c.r, m) = c.w /\ Add(c.w, l) = c.e /\ Add(c.r, m + l) = c.e
        /\ Minus(c.e, c.r) = m + l
        /\ Line(c) \in Seq(Key) /\ Len(Line(c)) = l /\ \A j \in 1..l : Line(c)[j] # NL
        /\ Ready(c) = Entries(c.buf, c.r, m) /\ Line(c) = Entries(c.buf, c.w, l)
    BY LineFacts DEF Ready, Line
  <1> HIDE DEF m, l
  <1>2. e \in Counter
    BY <1>1, Counters
  <1>3. /\ l \in 0..(INPUT_BUF_SIZE - 1) /\ m + l \in 0..(INPUT_BUF_SIZE - 1) /\ m \in 0..(m + l)
        /\ l + 1 \in Nat /\ l + 1 < UINT /\ (m + l) + 1 < UINT /\ m + (l + 1) = (m + l) + 1
        /\ (m + l) + 1 <= INPUT_BUF_SIZE /\ m + (l + 1) \in Nat
    BY <1>1
  <1>a. /\ new \in [Place(INPUT_BUF_SIZE) -> Key] /\ new[c.e % INPUT_BUF_SIZE] = ch
        /\ \A x \in Place(INPUT_BUF_SIZE) : x # c.e % INPUT_BUF_SIZE => new[x] = c.buf[x]
    <2>1. c.e % INPUT_BUF_SIZE \in Place(INPUT_BUF_SIZE)
      BY <1>1 DEF Place, Counter
    <2> QED
      BY <1>1, <2>1
  <1> HIDE DEF new
  <1>b. \A i \in Counter, j \in Nat : Add(i, j) % INPUT_BUF_SIZE \in Place(INPUT_BUF_SIZE)
    <2>1. \A i \in Counter, j \in Nat : Add(i, j) \in Int
      BY RingAssumption DEF Add, Counter
    <2>2. \A a \in Int : a % INPUT_BUF_SIZE \in 0..(INPUT_BUF_SIZE - 1)
      BY <1>1, Modulo, Zenon
    <2> QED
      BY <2>1, <2>2, Zenon DEF Place
  <1>4. Entries(new, c.r, m) = Ready(c)
    <2>1. ASSUME NEW j \in 1..m
          PROVE  new[Add(c.r, j - 1) % INPUT_BUF_SIZE] = c.buf[Add(c.r, j - 1) % INPUT_BUF_SIZE]
      <3>1. j \in 1..(m + l) /\ j - 1 \in Nat
        BY <1>1
      <3>2. Add(c.r, j - 1) % INPUT_BUF_SIZE # Add(c.r, m + l) % INPUT_BUF_SIZE
        BY <1>1, <1>3, <3>1, Apart
      <3> QED
        BY <1>1, <1>a, <1>b, <3>1, <3>2
    <2>2. Entries(new, c.r, m) = Entries(c.buf, c.r, m)
      BY <1>1, <1>a, <2>1, SameEntries, SMTT(30)
    <2> QED
      BY <1>1, <2>2
  <1>5. Entries(new, c.w, l + 1) = Append(Line(c), ch)
    <2>1. ASSUME NEW j \in 1..l
          PROVE  new[Add(c.w, j - 1) % INPUT_BUF_SIZE] = c.buf[Add(c.w, j - 1) % INPUT_BUF_SIZE]
      <3>1. j - 1 \in Nat
        BY <1>1
      <3>2. Add(c.w, j - 1) % INPUT_BUF_SIZE # Add(c.w, l) % INPUT_BUF_SIZE
        BY <1>1, <1>3, Apart
      <3> QED
        BY <1>1, <1>a, <1>b, <3>1, <3>2
    <2>2. Entries(new, c.w, l) = Entries(c.buf, c.w, l)
      BY <1>1, <1>a, <2>1, SameEntries
    <2>3. Entries(new, c.w, l + 1) = Append(Entries(new, c.w, l), new[Add(c.w, l) % INPUT_BUF_SIZE])
      BY <1>1, <1>a, LastEntry, ZenonT(30)
    <2> QED
      BY <1>1, <1>a, <2>2, <2>3
  <1> HIDE DEF e
  <1>6. Entries(new, c.r, m + (l + 1)) = Ready(c) \o Append(Line(c), ch)
    <2>1. Entries(new, c.r, m + (l + 1)) = Entries(new, c.r, m) \o Entries(new, Add(c.r, m), l + 1)
      <3>1. INPUT_BUF_SIZE \in Nat \ {0} /\ c.r \in Counter /\ m \in Nat /\ l + 1 \in Nat
        BY <1>1, <1>3
      <3>2. new \in [Place(INPUT_BUF_SIZE) -> Key]
        BY <1>a
      <3> QED
        BY <3>1, <3>2, RingSplit, ZenonT(30)
    <2> QED
      BY <1>1, <1>4, <1>5, <2>1
  <1>7. Minus(e, c.w) = l + 1
    <2>1. Minus(Add(c.e, 1), c.w) = Minus(c.e, c.w) + 1
      BY <1>1, <1>3, Counters DEF l
    <2> QED
      BY <2>1 DEF e, l
  <1>8. Minus(e, c.r) = m + (l + 1)
    <2>1. Minus(c.e, c.r) + 1 < UINT
      BY <1>1, <1>3
    <2>2. Minus(Add(c.e, 1), c.r) = Minus(c.e, c.r) + 1
      <3>1. /\ c.e \in Counter /\ c.r \in Counter /\ 1 \in Nat
        BY <1>1
      <3> QED
        BY <2>1, <3>1, Counters, Zenon
    <2> QED
      BY <1>1, <1>3, <2>2 DEF e
  <1>9. Minus(e, e) = 0
    BY <1>2, Counters
  <1>10. /\ d.buf = new /\ d.r = c.r /\ d.e = e /\ d.w = (IF commits THEN e ELSE c.w)
    <2>1. c = [buf |-> c.buf, r |-> c.r, w |-> c.w, e |-> c.e]
      BY DEF ConsType
    <2>2. d.buf = new /\ d.r = c.r
      BY <2>1 DEF new
    <2>3. d.e = e
      BY <2>1 DEF e
    <2>4. d.w = IF commits THEN e ELSE c.w
      BY <2>1 DEF e
    <2> HIDE DEF d
    <2> QED
      BY <2>2, <2>3, <2>4
  <1>11. d \in ConsType
    <2>1. ASSUME NEW w \in Counter
          PROVE  [c EXCEPT !.buf[c.e % INPUT_BUF_SIZE] = ch, !.e = Add(@, 1), !.w = w] \in ConsType
      <3>1. [c.buf EXCEPT ![c.e % INPUT_BUF_SIZE] = ch] \in [Place(INPUT_BUF_SIZE) -> Key]
        BY <1>a DEF new
      <3>2. Add(c.e, 1) \in Counter
        BY <1>2 DEF e
      <3> QED
        BY <2>1, <3>1, <3>2 DEF ConsType
    <2>2. (IF commits THEN Add(c.e, 1) ELSE c.w) \in Counter
      BY <1>1, <1>2 DEF e
    <2> QED
      BY <2>1, <2>2 DEF ConsType
  <1> HIDE DEF d
  <1>12. CASE commits
    <2>1. Ready(d) = Ready(c) \o Append(Line(c), ch)
      BY <1>6, <1>8, <1>10, <1>12 DEF Ready
    <2>2. Line(d) = <<>> /\ Minus(d.e, d.w) = 0
      BY <1>9, <1>10, <1>12 DEF Line, Entries
    <2>3. LineRing(d)
      BY <1>3, <1>8, <1>10, <1>12, <2>2 DEF LineRing
    <2> QED
      BY <1>11, <1>12, <2>1, <2>2, <2>3 DEF d
  <1>13. CASE ~commits
    <2>1. Ready(d) = Ready(c)
      BY <1>4, <1>10, <1>13 DEF Ready, m
    <2>2. Line(d) = Append(Line(c), ch) /\ Minus(d.e, d.w) = l + 1
      BY <1>5, <1>7, <1>10, <1>13 DEF Line
    <2>3. LineRing(d)
      <3>1. \A j \in 1..(l + 1) : Append(Line(c), ch)[j] # NL
        <4>1. ch # NL
          BY <1>13
        <4>2. \A j \in 1..(l + 1) : j \in 1..l \/ j = l + 1
          BY <1>1
        <4>3. /\ \A j \in 1..l : Append(Line(c), ch)[j] = Line(c)[j]
              /\ Append(Line(c), ch)[l + 1] = ch
          BY <1>1, AppendProperties
        <4> QED
          BY <1>1, <4>1, <4>2, <4>3
      <3>2. Minus(d.w, d.r) + (l + 1) <= INPUT_BUF_SIZE
        BY <1>3, <1>10, <1>13 DEF m
      <3> QED
        BY <2>2, <3>1, <3>2 DEF LineRing
    <2> QED
      BY <1>11, <1>13, <2>1, <2>2, <2>3 DEF d
  <1> QED
    BY <1>12, <1>13
\* consoleintr is the line discipline without a buffer.
LEMMA TypedIsEdited ==
  ASSUME NEW c \in ConsType, LineRing(c), NEW ch \in Key, NEW read \in Seq(Key)
  PROVE  /\ LineRing(Typed(c, ch))
         /\ Text(Typed(c, ch), read) = Edited(Text(c, read), ch, Len(read))
  <1> DEFINE m == Minus(c.w, c.r)
             l == Minus(c.e, c.w)
             A == read \o Ready(c)
             L == Line(c)
             d == Typed(c, ch)
             E == Edited(Text(c, read), ch, Len(read))
  <1>1. /\ INPUT_BUF_SIZE \in Nat \ {0} /\ UINT \in Nat /\ INPUT_BUF_SIZE < UINT
        /\ c.r \in Counter /\ c.w \in Counter /\ c.e \in Counter
        /\ m \in Nat /\ l \in Nat /\ m + l <= INPUT_BUF_SIZE
        /\ Minus(c.e, c.r) = m + l /\ (l = 0 <=> c.e = c.w)
        /\ Ready(c) \in Seq(Key) /\ Len(Ready(c)) = m
        /\ L \in Seq(Key) /\ Len(L) = l
    BY LineFacts
  <1> HIDE DEF m, l
  <1>2. A \in Seq(Key) /\ Len(A) = Len(read) + m /\ Len(read) \in Nat
    <2>1. A \in Seq(Key) /\ Len(A) = Len(read) + Len(Ready(c))
      BY <1>1, ConcatProperties
    <2> QED
      BY <1>1, <2>1, LenProperties
  <1>3. Len(A) + Len(L) - Len(read) = m + l
    BY <1>1, <1>2
  <1>4. L = <<>> <=> l = 0
    BY <1>1, EmptySeq
  <1> HIDE DEF A, L
  <1>5. Text(c, read) = <<A, L>>
    BY DEF Text, A, L
  <1>6. E = IF ch = ERASE THEN <<A, IF L = <<>> THEN <<>> ELSE Front(L)>>
            ELSE IF ch = KILLLINE THEN <<A, <<>>>>
            ELSE IF m + l = INPUT_BUF_SIZE THEN <<A, L>>
            ELSE IF ch \in {NL, EOF} \/ m + l + 1 = INPUT_BUF_SIZE
                 THEN <<A \o Append(L, ch), <<>>>>
            ELSE <<A, Append(L, ch)>>
    BY <1>3, <1>5 DEF Edited
  <1> HIDE DEF E
  <1>7. CASE ~Echoes(c, ch)
    <2>1. d = c
      BY <1>7 DEF Typed
    <2>2. CASE ch \in {ERASE, KILLLINE}
      <3>1. L = <<>>
        BY <1>1, <1>4, <1>7, <2>2 DEF Echoes
      <3> QED
        BY <1>5, <1>6, <2>1, <2>2, <3>1 DEF E
    <2>3. CASE ch \notin {ERASE, KILLLINE}
      <3>1. m + l = INPUT_BUF_SIZE
        <4>1. ~(m + l < INPUT_BUF_SIZE)
          BY <1>1, <1>7, <2>3 DEF Echoes
        <4> QED
          BY <1>1, <4>1
      <3> QED
        BY <1>5, <1>6, <2>1, <2>3, <3>1 DEF E
    <2> QED
      BY <2>2, <2>3
  <1>8. CASE Echoes(c, ch) /\ ch = ERASE
    <2>1. 1 \in 0..l /\ L # <<>>
      BY <1>1, <1>4, <1>8, <1>7 DEF Echoes
    <2>2. d = [c EXCEPT !.e = Minus(@, 1)]
      BY <1>8 DEF Typed
    <2>3. LineRing(d) /\ Ready(d) = Ready(c) /\ Line(d) = SubSeq(L, 1, l - 1)
      BY <2>1, <2>2, Shortened DEF l, L
    <2>4. SubSeq(L, 1, l - 1) = Front(L)
      BY <1>1 DEF Front
    <2> QED
      BY <1>6, <1>8, <2>1, <2>3, <2>4 DEF Text, A, E
  <1>9. CASE Echoes(c, ch) /\ ch # ERASE /\ ch = KILLLINE
    <2>1. d = [c EXCEPT !.e = Minus(@, l)]
      BY <1>9, LineStartFacts DEF Typed, l
    <2>2. l \in 0..l /\ l - l = 0
      BY <1>1
    <2>3. LineRing(d) /\ Ready(d) = Ready(c) /\ Line(d) = SubSeq(L, 1, 0)
      BY <2>1, <2>2, Shortened, ZenonT(30) DEF l, L
    <2>4. SubSeq(L, 1, 0) = <<>>
      OBVIOUS
    <2> QED
      BY <1>6, <1>9, <2>3, <2>4 DEF Text, A, E
  <1>10. CASE Echoes(c, ch) /\ ch \notin {ERASE, KILLLINE}
    <2> DEFINE commits == Commits(c, ch)
    <2>1. m + l < INPUT_BUF_SIZE
      BY <1>1, <1>10 DEF Echoes
    <2>2. Minus(Add(c.e, 1), c.r) = m + l + 1
      <3>1. Minus(c.e, c.r) + 1 < UINT
        BY <1>1, <2>1
      <3>2. c.e \in Counter /\ c.r \in Counter /\ 1 \in Nat
        BY <1>1
      <3>3. Minus(Add(c.e, 1), c.r) = Minus(c.e, c.r) + 1
        BY <3>1, <3>2, Counters, Zenon
      <3> QED
        BY <1>1, <3>3
    <2>3. commits <=> ch \in {NL, EOF} \/ m + l + 1 = INPUT_BUF_SIZE
      BY <2>2 DEF Commits, Full, ConsType
    <2>4. d = [c EXCEPT !.buf[c.e % INPUT_BUF_SIZE] = ch, !.e = Add(@, 1),
                        !.w = IF commits THEN Add(c.e, 1) ELSE @]
      BY <1>10 DEF Typed
    <2>5. commits \in BOOLEAN /\ (ch = NL => commits) /\ Minus(c.e, c.r) < INPUT_BUF_SIZE
      BY <1>1, <2>1, <2>3 DEF Commits, Full
    <2> HIDE DEF commits
    <2>6. /\ LineRing(d)
          /\ commits => Ready(d) = Ready(c) \o Append(L, ch) /\ Line(d) = <<>>
          /\ ~commits => Ready(d) = Ready(c) /\ Line(d) = Append(L, ch)
      <3>1. LET x == [c EXCEPT !.buf[c.e % INPUT_BUF_SIZE] = ch, !.e = Add(@, 1),
                               !.w = IF commits THEN Add(c.e, 1) ELSE @] IN
            /\ LineRing(x)
            /\ commits => Ready(x) = Ready(c) \o Append(Line(c), ch) /\ Line(x) = <<>>
            /\ ~commits => Ready(x) = Ready(c) /\ Line(x) = Append(Line(c), ch)
        BY <2>5, Typing
      <3> HIDE DEF d
      <3> QED
        BY <2>4, <3>1 DEF L
    <2>7. Append(L, ch) \in Seq(Key)
      BY <1>1, AppendProperties
    <2>8. A \o Append(L, ch) = read \o (Ready(c) \o Append(L, ch))
      BY <1>1, <2>7, Joined, Zenon DEF A
    <2>9. m + l # INPUT_BUF_SIZE
      BY <1>1, <2>1
    <2> HIDE DEF d
    <2>10. CASE commits
      BY <1>6, <1>10, <2>3, <2>6, <2>8, <2>9, <2>10 DEF Text, E, d
    <2>11. CASE ~commits
      BY <1>6, <1>10, <2>3, <2>6, <2>9, <2>11 DEF Text, A, E, d
    <2> QED
      BY <2>10, <2>11
  <1> QED
    BY <1>7, <1>8, <1>9, <1>10

\* consoleread takes k keys: what was ready is what it took and what still is.
LEMMA TakenIsReady ==
  ASSUME NEW c \in ConsType, LineRing(c), NEW k \in 0..Minus(c.w, c.r), NEW read \in Seq(Key)
  PROVE  LET d == [c EXCEPT !.r = Add(@, k)] IN
         /\ LineRing(d)
         /\ read \o SubSeq(Ready(c), 1, k) \in Seq(Key)
         /\ Text(d, read \o SubSeq(Ready(c), 1, k)) = Text(c, read)
  <1> DEFINE m == Minus(c.w, c.r)
             l == Minus(c.e, c.w)
             d == [c EXCEPT !.r = Add(@, k)]
             s == SubSeq(Ready(c), 1, k)
  <1>1. /\ INPUT_BUF_SIZE \in Nat \ {0} /\ UINT \in Nat /\ INPUT_BUF_SIZE < UINT
        /\ c.r \in Counter /\ c.w \in Counter
        /\ c.buf \in [Place(INPUT_BUF_SIZE) -> Key]
        /\ m \in Nat /\ l \in Nat /\ m + l <= INPUT_BUF_SIZE
        /\ Ready(c) \in Seq(Key) /\ Len(Ready(c)) = m
    BY LineFacts
  <1>2. d.buf = c.buf /\ d.r = Add(c.r, k) /\ d.w = c.w /\ d.e = c.e
    BY DEF ConsType
  <1> HIDE DEF d
  <1>3. Minus(c.w, Add(c.r, k)) = m - k
    BY <1>1, Counters
  <1> HIDE DEF m
  <1>4. /\ k \in Nat /\ m - k \in Nat /\ k + (m - k) = m /\ m - k <= m /\ k \in 0..m
        /\ (m - k) + l <= INPUT_BUF_SIZE
    BY <1>1 DEF m
  <1>5. Line(d) = Line(c)
    BY <1>2 DEF Line
  <1>6. LineRing(d)
    <2>1. \A j \in 1..l : Line(c)[j] # NL
      BY DEF LineRing
    <2>2. Minus(d.w, d.r) = m - k /\ Minus(d.e, d.w) = l
      BY <1>2, <1>3
    <2> HIDE DEF l
    <2> QED
      BY <1>4, <1>5, <2>1, <2>2 DEF LineRing
  <1>7. Ready(c) = s \o Ready(d)
    <2>1. Entries(c.buf, c.r, k + (m - k)) = Entries(c.buf, c.r, k) \o Entries(c.buf, Add(c.r, k), m - k)
      <3> DEFINE x == m - k
      <3>1. x \in Nat /\ k \in Nat
        BY <1>4
      <3> HIDE DEF x
      <3>2. Entries(c.buf, c.r, k + x) = Entries(c.buf, c.r, k) \o Entries(c.buf, Add(c.r, k), x)
        <4>1. INPUT_BUF_SIZE \in Nat \ {0} /\ c.r \in Counter /\ k \in Nat /\ x \in Nat
          BY <1>1, <3>1
        <4>2. c.buf \in [Place(INPUT_BUF_SIZE) -> Key]
          BY <1>1
        <4> QED
          BY <4>1, <4>2, RingSplit, ZenonT(30)
      <3> QED
        BY <3>2 DEF x
    <2>2. Entries(c.buf, c.r, k) = SubSeq(Entries(c.buf, c.r, m), 1, k)
      BY <1>1, <1>4, RingBeginning, ZenonT(30)
    <2> QED
      BY <1>2, <1>3, <1>4, <2>1, <2>2 DEF Ready, m
  <1>8. s \in Seq(Key)
    BY <1>1, <1>4, Beginning
  <1>9. Ready(d) \in Seq(Key)
    <2>1. Add(c.r, k) \in Counter
      <3>1. c.r \in Counter /\ k \in Int
        BY <1>1, <1>4
      <3> QED
        BY <3>1, Counters, Zenon
    <2>2. Entries(c.buf, Add(c.r, k), m - k) \in Seq(Key)
      BY <1>1, <1>4, <2>1, EntriesFacts
    <2> QED
      BY <1>2, <1>3, <2>2 DEF Ready
  <1> HIDE DEF s
  <1>10. read \o s \in Seq(Key) /\ (read \o s) \o Ready(d) = read \o Ready(c)
    BY <1>7, <1>8, <1>9, Joined, ConcatProperties
  <1> QED
    BY <1>5, <1>6, <1>10 DEF Text, s, d
-----------------------------------------------------------------------------
(* Programs: what each call finds, and what it does to the descriptors.     *)

LEMMA Lengths ==
  /\ Len(ShellRuns) = 7 /\ Len(LeftRuns) = 5 /\ Len(RightRuns) = 5
  /\ DOMAIN ShellRuns = 1..7 /\ DOMAIN LeftRuns = 1..5 /\ DOMAIN RightRuns = 1..5
  BY DEF ShellRuns, LeftRuns, RightRuns

LEMMA ProgramFacts ==
  ASSUME NEW p \in Proc
  PROVE  /\ Len(Program(p)) = IF p = "sh" THEN 7 ELSE 5
         /\ From(p, 1) = Program(p)
         /\ From(p, Len(Program(p)) + 1) = <<>>
         /\ \A k \in 1..Len(Program(p)) :
              /\ From(p, k) # <<>> /\ Head(From(p, k)) = Program(p)[k]
              /\ Tail(From(p, k)) = From(p, k + 1)
              /\ Len(From(p, k)) = Len(Program(p)) + 1 - k
  <1> DEFINE s == Program(p)
             S == {s[i] : i \in 1..Len(s)}
  <1>0. \/ p = "sh" /\ s = ShellRuns
        \/ p = "left" /\ s = LeftRuns
        \/ p = "right" /\ s = RightRuns
    BY DEF Program, Proc
  <1>1. Len(s) = (IF p = "sh" THEN 7 ELSE 5) /\ Len(s) \in Nat /\ DOMAIN s = 1..Len(s)
    BY <1>0, Lengths
  <1>2. s \in Seq(S)
    <2>1. s = [i \in 1..Len(s) |-> s[i]]
      <3>1. ShellRuns = [i \in DOMAIN ShellRuns |-> ShellRuns[i]]
        BY DEF ShellRuns
      <3>2. LeftRuns = [i \in DOMAIN LeftRuns |-> LeftRuns[i]]
        BY DEF LeftRuns
      <3>3. RightRuns = [i \in DOMAIN RightRuns |-> RightRuns[i]]
        BY DEF RightRuns
      <3> QED
        BY <1>0, <1>1, <3>1, <3>2, <3>3
    <2>2. s \in [1..Len(s) -> S]
      BY <2>1
    <2> QED
      BY <1>1, <2>2, SeqDef
  <1> HIDE DEF s, S
  <1>3. From(p, 1) = s /\ From(p, Len(s) + 1) = <<>>
    BY <1>1, <1>2, SubSeqFull, SubSeqEmpty DEF From, s
  <1>4. ASSUME NEW k \in 1..Len(s)
        PROVE  /\ From(p, k) # <<>> /\ Head(From(p, k)) = s[k]
               /\ Tail(From(p, k)) = From(p, k + 1)
               /\ Len(From(p, k)) = Len(s) + 1 - k
    <2>1. Len(s) \in k..Len(s)
      BY <1>1
    <2>2. Head(From(p, k)) = s[k] /\ Tail(From(p, k)) = From(p, k + 1)
      BY <1>2, <2>1, HeadTailOfSubSeq DEF From, s
    <2>3. From(p, k) \in Seq(S) /\ Len(From(p, k)) = Len(s) + 1 - k
      <3>1. \A i \in k..Len(s) : s[i] \in S
        BY <1>1 DEF S
      <3>2. k \in Int /\ Len(s) \in Int
        BY <1>1
      <3>3. /\ SubSeq(s, k, Len(s)) \in Seq(S)
            /\ Len(SubSeq(s, k, Len(s))) = IF k <= Len(s) THEN Len(s) - k + 1 ELSE 0
        BY <3>1, <3>2, SubSeqProperties
      <3> QED
        BY <1>1, <3>3 DEF From, s
    <2>4. From(p, k) # <<>>
      BY <1>1, <2>3, EmptySeq
    <2> QED
      BY <2>2, <2>3, <2>4
  <1> QED
    BY <1>1, <1>3, <1>4 DEF s

LEMMA FilesFacts ==
  ASSUME NEW a, NEW b, NEW c, NEW d, NEW x
  PROVE  LET t == Files(a, b, c, d) IN
         /\ DOMAIN t = FD /\ t[0] = a /\ t[1] = b /\ t[3] = c /\ t[4] = d
         /\ [t EXCEPT ![0] = x] = Files(x, b, c, d) /\ [t EXCEPT ![1] = x] = Files(a, x, c, d)
         /\ [t EXCEPT ![3] = x] = Files(a, b, x, d) /\ [t EXCEPT ![4] = x] = Files(a, b, c, x)
  <1> DEFINE t == Files(a, b, c, d)
  <1>1. t = [f \in FD |-> t[f]] /\ t[0] = a /\ t[1] = b /\ t[3] = c /\ t[4] = d
    BY DEF Files, FD
  <1>2. \A u, v, w, y : /\ Files(u, v, w, y)[0] = u /\ Files(u, v, w, y)[1] = v
                       /\ Files(u, v, w, y)[3] = w /\ Files(u, v, w, y)[4] = y
                       /\ Files(u, v, w, y) = [f \in FD |-> Files(u, v, w, y)[f]]
    BY DEF Files, FD
  <1> HIDE DEF t
  <1>3. [t EXCEPT ![0] = x] = Files(x, b, c, d)
    BY <1>1, <1>2 DEF FD
  <1>4. [t EXCEPT ![1] = x] = Files(a, x, c, d)
    BY <1>1, <1>2 DEF FD
  <1>5. [t EXCEPT ![3] = x] = Files(a, b, x, d)
    BY <1>1, <1>2 DEF FD
  <1>6. [t EXCEPT ![4] = x] = Files(a, b, c, x)
    BY <1>1, <1>2 DEF FD
  <1> QED
    BY <1>1, <1>3, <1>4, <1>5, <1>6 DEF t

LEMMA HeldTable ==
  /\ Held("sh", 1) = Files("cons", "cons", "none", "none")
  /\ \A k \in 2..4 : Held("sh", k) = Files("cons", "cons", "R", "W")
  /\ Held("sh", 5) = Files("cons", "cons", "none", "W")
  /\ \A k \in 6..8 : Held("sh", k) = Files("cons", "cons", "none", "none")
  /\ \A c \in {"left", "right"} : Held(c, 1) = Files("cons", "cons", "R", "W")
  /\ Held("left", 2) = Files("cons", "none", "R", "W")
  /\ Held("left", 3) = Files("cons", "W", "R", "W")
  /\ Held("left", 4) = Files("cons", "W", "none", "W")
  /\ Held("left", 5) = Files("cons", "W", "none", "none")
  /\ Held("right", 2) = Files("none", "cons", "R", "W")
  /\ Held("right", 3) = Files("R", "cons", "R", "W")
  /\ Held("right", 4) = Files("R", "cons", "none", "W")
  /\ Held("right", 5) = Files("R", "cons", "none", "none")
  BY DEF Held

LEMMA CloseCall ==
  ASSUME NEW p \in Proc, NEW k \in 1..Len(Program(p)), Program(p)[k][1] = "close"
  PROVE  LET f == Program(p)[k][2] IN
         f \in FD /\ Held(p, k + 1) = [Held(p, k) EXCEPT ![f] = "none"]
  <1>1. CASE p = "sh"
    <2>1. k \in {4, 5}
      BY <1>1, Lengths DEF Program, ShellRuns
    <2>2. Program(p)[4][2] = 3 /\ Program(p)[5][2] = 4
      BY <1>1 DEF Program, ShellRuns
    <2>3. CASE k = 4
      BY <1>1, <2>2, <2>3, HeldTable, FilesFacts DEF FD
    <2>4. CASE k = 5
      BY <1>1, <2>2, <2>4, HeldTable, FilesFacts DEF FD
    <2> QED
      BY <2>1, <2>3, <2>4
  <1>2. CASE p = "left"
    <2>1. k \in {1, 3, 4}
      BY <1>2, Lengths DEF Program, LeftRuns
    <2>2. Program(p)[1][2] = 1 /\ Program(p)[3][2] = 3 /\ Program(p)[4][2] = 4
      BY <1>2 DEF Program, LeftRuns
    <2>3. CASE k = 1
      BY <1>2, <2>2, <2>3, HeldTable, FilesFacts DEF FD
    <2>4. CASE k = 3
      BY <1>2, <2>2, <2>4, HeldTable, FilesFacts DEF FD
    <2>5. CASE k = 4
      BY <1>2, <2>2, <2>5, HeldTable, FilesFacts DEF FD
    <2> QED
      BY <2>1, <2>3, <2>4, <2>5
  <1>3. CASE p = "right"
    <2>1. k \in {1, 3, 4}
      BY <1>3, Lengths DEF Program, RightRuns
    <2>2. Program(p)[1][2] = 0 /\ Program(p)[3][2] = 3 /\ Program(p)[4][2] = 4
      BY <1>3 DEF Program, RightRuns
    <2>3. CASE k = 1
      BY <1>3, <2>2, <2>3, HeldTable, FilesFacts DEF FD
    <2>4. CASE k = 3
      BY <1>3, <2>2, <2>4, HeldTable, FilesFacts DEF FD
    <2>5. CASE k = 4
      BY <1>3, <2>2, <2>5, HeldTable, FilesFacts DEF FD
    <2> QED
      BY <2>1, <2>3, <2>4, <2>5
  <1> QED
    BY <1>1, <1>2, <1>3 DEF Proc

LEMMA DupCall ==
  ASSUME NEW p \in Proc, NEW k \in 1..Len(Program(p)), Program(p)[k][1] = "dup"
  PROVE  LET f == Program(p)[k][2] IN
         /\ f \in FD /\ Held(p, k)[f] \in Ends
         /\ \E g \in FD : /\ {h \in FD : Held(p, k)[h] = "none"} = {g}
                          /\ Held(p, k + 1) = [Held(p, k) EXCEPT ![g] = Held(p, k)[f]]
  <1>1. p # "sh" /\ k = 2
    BY Lengths DEF Program, ShellRuns, LeftRuns, RightRuns
  <1>2. CASE p = "left"
    <2>1. Program(p)[k][2] = 4
      BY <1>1, <1>2 DEF Program, LeftRuns
    <2>2. {h \in FD : Held(p, k)[h] = "none"} = {1}
      BY <1>1, <1>2, HeldTable, FilesFacts DEF FD
    <2>3. Held(p, k)[4] = "W" /\ Held(p, k + 1) = [Held(p, k) EXCEPT ![1] = "W"]
      BY <1>1, <1>2, HeldTable, FilesFacts DEF FD
    <2> QED
      BY <2>1, <2>2, <2>3 DEF FD, Ends
  <1>3. CASE p = "right"
    <2>1. Program(p)[k][2] = 3
      BY <1>1, <1>3 DEF Program, RightRuns
    <2>2. {h \in FD : Held(p, k)[h] = "none"} = {0}
      BY <1>1, <1>3, HeldTable, FilesFacts DEF FD
    <2>3. Held(p, k)[3] = "R" /\ Held(p, k + 1) = [Held(p, k) EXCEPT ![0] = "R"]
      BY <1>1, <1>3, HeldTable, FilesFacts DEF FD
    <2> QED
      BY <2>1, <2>2, <2>3 DEF FD, Ends
  <1> QED
    BY <1>1, <1>2, <1>3 DEF Proc

LEMMA ShellCalls ==
  ASSUME NEW k \in 1..7
  PROVE  LET i == Program("sh")[k] IN
         /\ i[1] = "pipe" => k = 1
         /\ i[1] = "fork" => k \in 2..3 /\ i[2] = IF k = 2 THEN "left" ELSE "right"
         /\ i[1] = "wait" => k \in 6..7
         /\ i[1] # "cat" /\ i[1] # "dup"
  BY Lengths DEF Program, ShellRuns

LEMMA CatCall ==
  ASSUME NEW p \in Proc, NEW k \in 1..Len(Program(p)), Program(p)[k][1] = "cat"
  PROVE  /\ p # "sh" /\ k = 5
         /\ Held("left", 5)[0] = "cons" /\ Held("left", 5)[1] = "W"
         /\ Held("right", 5)[0] = "R" /\ Held("right", 5)[1] = "cons"
  <1>1. p # "sh" /\ k = 5
    BY Lengths DEF Program, ShellRuns, LeftRuns, RightRuns
  <1> QED
    BY <1>1, HeldTable, FilesFacts

\* The shell's descriptors around pipe, fork and wait.
LEMMA ShellHolds ==
  /\ \A f \in FD : Held("sh", 1)[f] \notin Ends
  /\ Held("sh", 2) = [Held("sh", 1) EXCEPT ![3] = "R", ![4] = "W"]
  /\ \A k \in 2..3, c \in {"left", "right"} :
       /\ Held("sh", k + 1) = Held("sh", k) /\ Held(c, 1) = Held("sh", k)
       /\ {f \in FD : Held("sh", k)[f] = "R"} = {3} /\ {f \in FD : Held("sh", k)[f] = "W"} = {4}
  /\ \A k \in 6..7 : Held("sh", k + 1) = Held("sh", k)
  <1>1. \A f \in FD : Held("sh", 1)[f] \notin Ends
    BY HeldTable, FilesFacts DEF FD, Ends
  <1>2. Held("sh", 2) = [Held("sh", 1) EXCEPT ![3] = "R", ![4] = "W"]
    BY HeldTable, FilesFacts
  <1>3. ASSUME NEW k \in 2..3, NEW c \in {"left", "right"}
        PROVE  /\ Held("sh", k + 1) = Held("sh", k) /\ Held(c, 1) = Held("sh", k)
               /\ {f \in FD : Held("sh", k)[f] = "R"} = {3}
               /\ {f \in FD : Held("sh", k)[f] = "W"} = {4}
    <2>1. Held("sh", k) = Files("cons", "cons", "R", "W")
      BY HeldTable
    <2>2. Held("sh", k + 1) = Files("cons", "cons", "R", "W")
      BY HeldTable
    <2> QED
      BY <2>1, <2>2, HeldTable, FilesFacts DEF FD
  <1>4. \A k \in 6..7 : Held("sh", k + 1) = Held("sh", k)
    BY HeldTable
  <1> QED
    BY <1>1, <1>2, <1>3, <1>4
-----------------------------------------------------------------------------
(* Descriptors and references.                                              *)

LEMMA RefsFinite ==
  ASSUME NEW files, NEW x
  PROVE  IsFiniteSet(Refs(files, x)) /\ Cardinality(Refs(files, x)) \in Nat
  <1>1. IsFiniteSet({"sh"}) /\ IsFiniteSet({0})
    BY FS_Singleton
  <1>2. IsFiniteSet({"sh"} \cup {"left"}) /\ IsFiniteSet({0} \cup {1})
    BY <1>1, FS_AddElement
  <1>3. IsFiniteSet(({"sh"} \cup {"left"}) \cup {"right"}) /\ IsFiniteSet(({0} \cup {1}) \cup {3})
    BY <1>2, FS_AddElement
  <1>4. IsFiniteSet((({0} \cup {1}) \cup {3}) \cup {4})
    BY <1>3, FS_AddElement
  <1>5. Proc = ({"sh"} \cup {"left"}) \cup {"right"} /\ FD = (({0} \cup {1}) \cup {3}) \cup {4}
    BY DEF Proc, FD
  <1>6. IsFiniteSet(Proc \X FD)
    BY <1>3, <1>4, <1>5, FS_Product
  <1> QED
    BY <1>6, FS_Subset, FS_CardinalityType DEF Refs

LEMMA GainRef ==
  ASSUME NEW files, NEW new, NEW x, NEW y, y \notin Refs(files, x), Refs(new, x) = Refs(files, x) \cup {y}
  PROVE  Cardinality(Refs(new, x)) = Cardinality(Refs(files, x)) + 1
  BY RefsFinite, FS_AddElement

\* fileclose.
LEMMA CloseRef ==
  ASSUME NEW files \in FdType, NEW refs \in [Ends -> Nat], Counted(files, refs),
         NEW p \in Proc, NEW f \in FD, NEW x \in Ends, files[p][f] = x
  PROVE  LET new == [files EXCEPT ![p][f] = "none"]
             less == [refs EXCEPT ![x] = @ - 1] IN
         new \in FdType /\ refs[x] >= 1 /\ less \in [Ends -> Nat] /\ Counted(new, less)
  <1> DEFINE new == [files EXCEPT ![p][f] = "none"]
             less == [refs EXCEPT ![x] = @ - 1]
  <1>1. new \in FdType
    BY DEF FdType
  <1>2. \A q \in Proc, g \in FD : new[q][g] = IF q = p /\ g = f THEN "none" ELSE files[q][g]
    BY DEF FdType
  <1> HIDE DEF new
  <1>3. Refs(files, x) = Refs(new, x) \cup {<<p, f>>} /\ <<p, f>> \notin Refs(new, x)
    BY <1>2 DEF Refs, Ends
  <1>4. \A z \in Ends \ {x} : Refs(files, z) = Refs(new, z)
    BY <1>2 DEF Refs, Ends
  <1>5. Cardinality(Refs(files, x)) = Cardinality(Refs(new, x)) + 1
    BY <1>3, GainRef
  <1>6. refs[x] = Cardinality(Refs(new, x)) + 1 /\ Cardinality(Refs(new, x)) \in Nat
    BY <1>5, RefsFinite DEF Counted
  <1>7. less[x] = Cardinality(Refs(new, x)) /\ refs[x] >= 1 /\ less \in [Ends -> Nat]
    BY <1>6
  <1>8. Counted(new, less)
    BY <1>4, <1>7 DEF Counted
  <1> QED
    BY <1>1, <1>7, <1>8 DEF new

\* filedup.
LEMMA DupRef ==
  ASSUME NEW files \in FdType, NEW refs \in [Ends -> Nat], Counted(files, refs),
         NEW p \in Proc, NEW f \in FD, NEW g \in FD, NEW x \in Ends,
         files[p][f] = "none", files[p][g] = x
  PROVE  LET new == [files EXCEPT ![p][f] = x]
             more == [refs EXCEPT ![x] = @ + 1] IN
         /\ new \in FdType /\ refs[x] >= 1 /\ more \in [Ends -> Nat] /\ Counted(new, more)
  <1> DEFINE new == [files EXCEPT ![p][f] = x]
             more == [refs EXCEPT ![x] = @ + 1]
             old == [files EXCEPT ![p][g] = "none"]
  <1>1. new \in FdType
    BY DEF FdType
  <1>2. \A q \in Proc, h \in FD : new[q][h] = IF q = p /\ h = f THEN x ELSE files[q][h]
    BY DEF FdType
  <1> HIDE DEF new
  <1>3. Refs(new, x) = Refs(files, x) \cup {<<p, f>>} /\ <<p, f>> \notin Refs(files, x)
    BY <1>2 DEF Refs, Ends
  <1>4. \A z \in Ends \ {x} : Refs(files, z) = Refs(new, z)
    BY <1>2 DEF Refs, Ends
  <1>5. Cardinality(Refs(new, x)) = Cardinality(Refs(files, x)) + 1
    BY <1>3, GainRef
  <1>6. more[x] = Cardinality(Refs(new, x)) /\ more \in [Ends -> Nat]
    BY <1>5 DEF Counted
  <1>7. Counted(new, more)
    BY <1>4, <1>6 DEF Counted
  <1>8. refs[x] >= 1
    BY CloseRef
  <1> QED
    BY <1>1, <1>6, <1>7, <1>8 DEF new

\* kfork gives the child, which has nothing, the shell's descriptors.
LEMMA ForkRefs ==
  ASSUME NEW files \in FdType, NEW refs \in [Ends -> Nat], Counted(files, refs),
         NEW c \in Proc \ {"sh"}, NEW k \in 2..3, files["sh"] = Held("sh", k), files[c] = Closed
  PROVE  LET new == [files EXCEPT ![c] = files["sh"]]
             more == [x \in Ends |-> refs[x] + Cardinality({f \in FD : files["sh"][f] = x})] IN
         /\ new \in FdType /\ more \in [Ends -> Nat] /\ Counted(new, more)
         /\ \A x \in Ends : refs[x] >= 1 /\ more[x] >= 1
  <1> DEFINE new == [files EXCEPT ![c] = files["sh"]]
             more == [x \in Ends |-> refs[x] + Cardinality({f \in FD : files["sh"][f] = x})]
             at == [x \in Ends |-> IF x = "R" THEN 3 ELSE 4]
  <1>1. new \in FdType
    BY DEF FdType, Proc
  <1>2. \A q \in Proc : new[q] = IF q = c THEN files["sh"] ELSE files[q]
    BY DEF FdType
  <1>3. \A f \in FD : files[c][f] = "none"
    BY DEF Closed
  <1>4. ASSUME NEW x \in Ends
        PROVE  at[x] \in FD /\ {f \in FD : files["sh"][f] = x} = {at[x]} /\ files["sh"][at[x]] = x
    <2>1. {f \in FD : files["sh"][f] = x} = {at[x]}
      BY ShellHolds DEF Ends
    <2> QED
      BY <2>1
  <1> HIDE DEF new, at
  <1>5. ASSUME NEW x \in Ends
        PROVE  /\ more[x] = refs[x] + 1 /\ refs[x] >= 1
               /\ more[x] = Cardinality(Refs(new, x))
    <2>1. Cardinality({f \in FD : files["sh"][f] = x}) = 1
      BY <1>4, FS_Singleton
    <2>2. <<c, at[x]>> \notin Refs(files, x)
      BY <1>3 DEF Refs, Ends
    <2>3. Refs(new, x) = Refs(files, x) \cup {<<c, at[x]>>}
      <3>1. \A f \in FD : files["sh"][f] = x <=> f = at[x]
        BY <1>4
      <3> QED
        BY <1>2, <1>3, <1>4, <3>1 DEF Refs, Ends
    <2>4. Cardinality(Refs(new, x)) = Cardinality(Refs(files, x)) + 1
      BY <2>2, <2>3, GainRef
    <2>5. refs[x] >= 1
      BY <1>4, CloseRef, ZenonT(30) DEF Proc
    <2> QED
      BY <2>1, <2>4, <2>5 DEF Counted
  <1>6. more \in [Ends -> Nat]
    BY <1>5
  <1>7. \A x \in Ends : more[x] >= 1
    BY <1>5
  <1> QED
    BY <1>1, <1>5, <1>6, <1>7 DEF new, Counted
-----------------------------------------------------------------------------
(* The invariant holds at the start.                                        *)

LEMMA InitInv == Init => Inv
  <1> SUFFICES ASSUME Init PROVE Inv
    OBVIOUS
  <1>0. /\ UINT \in Nat \ {0} /\ PIPESIZE \in Nat \ {0} /\ INPUT_BUF_SIZE \in Nat \ {0}
        /\ RXFIFO \in Nat /\ CHUNK \in Nat \ {0} /\ Scripts \subseteq Seq(Key)
    BY RingAssumption, PipelineAssumption
  <1>1. 0 \in Counter /\ NL \in Key
    BY <1>0 DEF Counter, Key
  <1>2. cons \in ConsType
    BY <1>0, <1>1 DEF Init, NoInput, ConsType, Place
  <1>3. pipe \in PipeType /\ pipe.nread = 0 /\ pipe.nwrite = 0 /\ ~pipe.readopen /\ ~pipe.writeopen
    BY <1>0, <1>1 DEF Init, NewPipe, PipeType, Place
  <1>4. Queued(pipe) = 0
    BY <1>1, <1>3, Counters DEF Queued
  <1>5. \A p \in Proc, f \in FD : fd[p][f] \notin Ends
    BY DEF Init, Ends
  <1>6. Types
    <2>1. <<>> \in Seq(Key) /\ Len(<<>>) = 0
      BY EmptySeq
    <2>2. fd \in FdType
      BY DEF Init, FdType
    <2>3. /\ Queued(pipe) <= PIPESIZE /\ fref \in [Ends -> Nat] /\ st \in [Proc -> States]
          /\ inCall \in [Proc -> BOOLEAN] /\ buf \in [Proc -> Seq(Key)] /\ writing \in [Proc -> BOOLEAN]
      BY <1>0, <1>4, <2>1 DEF Init, States
    <2>4. /\ killed \in SUBSET Proc /\ thr \in Nat /\ rx \in Seq(Key) /\ Len(rx) <= RXFIFO
          /\ txBusy \in BOOLEAN /\ irq \in BOOLEAN
      <3>1. killed = {} /\ thr = 0 /\ rx = <<>> /\ txBusy = FALSE /\ irq = FALSE
        BY DEF Init
      <3> QED
        <4>1. Len(rx) = 0 /\ rx \in Seq(Key)
          BY <2>1, <3>1, Zenon
        <4>2. 0 <= RXFIFO
          BY <1>0
        <4> QED
          BY <3>1, <4>1, <4>2
    <2>6. handler = <<"idle">> /\ DOMAIN prog = Proc
      BY DEF Init
    <2>5. script \in Seq(Key) /\ sent \in Seq(Key) /\ out \in Seq(Key)
      BY <1>0, <2>1 DEF Init
    <2> QED
      BY <1>2, <1>3, <2>2, <2>3, <2>4, <2>5, <2>6 DEF Types
  <1>7. Progress
    <2>1. prog["sh"] = From("sh", 1) /\ Len(prog["sh"]) = 7
      BY ProgramFacts, Lengths DEF Init, Program, Proc
    <2>2. fd["sh"] = Held("sh", 1)
      <3>1. fd["sh"] = [f \in FD |-> IF f < 3 THEN "cons" ELSE "none"]
        BY DEF Init, Proc
      <3>2. fd["sh"] = Files("cons", "cons", "none", "none")
        BY <3>1 DEF Files, FD
      <3> QED
        BY <3>2, HeldTable
    <2>3. OnProgram("sh", prog["sh"], st["sh"], fd["sh"])
      <3>1. 1 \in 1..(Len(Program("sh")) + 1)
        BY ProgramFacts DEF Proc
      <3> QED
        BY <2>1, <2>2, <3>1 DEF Init, OnProgram, Proc
    <2>4. \A p \in Proc : p # "sh" => OnProgram(p, prog[p], st[p], fd[p])
      BY DEF Init, OnProgram, Closed, Proc
    <2> QED
      BY <1>4, <2>3, <2>4 DEF Progress, Init, Proc
  <1>8. CatBuffers
    BY <1>0, EmptySeq DEF Init, CatBuffers, Proc
  <1>9. UartRoom
    BY DEF Init, UartRoom
  <1>10. Counted(fd, fref) /\ Flags(pipe, fref)
    <2>1. \A x \in Ends : Refs(fd, x) = {}
      BY <1>5 DEF Refs
    <2>2. Cardinality({}) = 0
      BY FS_EmptySet
    <2> QED
      <3>1. fref["R"] = 0 /\ fref["W"] = 0 /\ \A x \in Ends : fref[x] = 0
        BY DEF Init, Ends
      <3> QED
        BY <1>3, <2>1, <2>2, <3>1 DEF Counted, Flags
  <1>11. NoLostWakeup
    BY DEF Init, NoLostWakeup
  <1>12. NothingLost
    <2>1. Ahead(pipe, PIPESIZE) = <<>>
      <3>1. Min({PIPESIZE, 0}) = 0
        BY <1>0, MinOfTwo
      <3>2. Ahead(pipe, PIPESIZE) = Entries(pipe.data, pipe.nread, 0)
        BY <1>4, <3>1 DEF Ahead
      <3> QED
        BY <3>2 DEF Entries
    <2>2. <<>> \o <<>> = <<>>
      BY EmptySeq, ConcatEmptySeq
    <2> QED
      BY <2>1, <2>2 DEF Init, NothingLost, Proc
  <1> QED
    BY <1>6, <1>7, <1>8, <1>9, <1>10, <1>11, <1>12 DEF Inv
-----------------------------------------------------------------------------
(* Where a running process is.                                              *)

LEMMA At ==
  ASSUME Progress, NEW p \in Proc, NEW op, Runs(p, op)
  PROVE  \E k \in 1..Len(Program(p)) :
           /\ prog[p] = From(p, k) /\ Head(prog[p]) = Program(p)[k] /\ Program(p)[k][1] = op
           /\ Tail(prog[p]) = From(p, k + 1) /\ Len(prog[p]) = Len(Program(p)) + 1 - k
           /\ fd[p] = Held(p, k)
  <1>1. st[p] = "ready" /\ prog[p] # <<>> /\ Head(prog[p])[1] = op
    BY DEF Runs
  <1>2. PICK k \in 1..(Len(Program(p)) + 1) : prog[p] = From(p, k) /\ fd[p] = Held(p, k)
    BY <1>1 DEF Progress, OnProgram, Alive
  <1>3. k # Len(Program(p)) + 1
    BY <1>1, <1>2, ProgramFacts
  <1>4. k \in 1..Len(Program(p))
    <2>1. Len(Program(p)) \in Nat
      BY ProgramFacts
    <2> QED
      BY <1>3, <2>1
  <1> QED
    BY <1>1, <1>2, <1>4, ProgramFacts, ZenonT(30)

LEMMA AtCat ==
  ASSUME Progress, NEW p \in Proc, Runs(p, "cat")
  PROVE  /\ p # "sh" /\ st[p] = "ready" /\ Len(prog["sh"]) # 7
         /\ fd[p][0] = "cons" => p = "left"
         /\ fd[p][0] = "R" => p = "right"
         /\ fd[p][1] = "W" => p = "left"
         /\ fd[p][1] = "cons" => p = "right"
  <1>1. PICK k \in 1..Len(Program(p)) : fd[p] = Held(p, k) /\ Program(p)[k][1] = "cat"
    BY At
  <1>2. p # "sh" /\ k = 5
    BY <1>1, CatCall
  <1>3. p = "left" \/ p = "right"
    BY <1>2 DEF Proc
  <1>4. st[p] = "ready"
    BY DEF Runs
  <1>5. Len(prog["sh"]) # 7
    <2>1. ASSUME Len(prog["sh"]) = 7 PROVE FALSE
      <3>1. Len(prog["sh"]) >= 6 /\ Len(prog["sh"]) >= 5
        BY <2>1
      <3>2. st["left"] = "unborn" /\ st["right"] = "unborn"
        BY <3>1 DEF Progress
      <3> QED
        BY <1>3, <1>4, <3>2
    <2> QED
      BY <2>1
  <1> QED
    BY <1>1, <1>2, <1>3, <1>4, <1>5, CatCall

\* A step that leaves programs and descriptors alone, and lets nobody be born.
LEMMA ProgressKept ==
  ASSUME Progress, fd' = fd, prog' = prog,
         \A p \in Proc : \/ st'[p] = st[p]
                         \/ Alive(st[p]) /\ Alive(st'[p])
                         \/ st[p] # "unborn" /\ st'[p] \in {"exit", "zombie", "reaped"},
         Len(prog["sh"]) = 7 => Queued(pipe') = 0
  PROVE  Progress'
  <1>1. ASSUME NEW p \in Proc
        PROVE  OnProgram(p, prog'[p], st'[p], fd'[p])
    BY DEF Progress, OnProgram, Alive
  <1>2. /\ st["left"] = "unborn" => st'["left"] = "unborn"
        /\ st["right"] = "unborn" => st'["right"] = "unborn"
    BY DEF Alive, Proc
  <1> QED
    BY <1>1, <1>2 DEF Progress

\* fileclose and pipeclose.
LEMMA CloseEndFacts ==
  ASSUME Inv, NEW p \in Proc, NEW f \in FD, NEW s \in {"ready", "exit"},
         fd[p][f] \in Ends, st[p] \in {"ready", "exit"}, CloseEnd(p, f, s)
  PROVE  /\ fd' = [fd EXCEPT ![p][f] = "none"] /\ fd' \in FdType /\ fref' \in [Ends -> Nat]
         /\ Counted(fd', fref') /\ Flags(pipe', fref')
         /\ pipe' \in PipeType /\ Queued(pipe') = Queued(pipe)
         /\ Ahead(pipe', PIPESIZE) = Ahead(pipe, PIPESIZE)
         /\ st' \in [Proc -> States] /\ st'[p] = s
         /\ \A q \in Proc \ {p} : /\ st'[q] = st[q] \/ (Alive(st[q]) /\ st'[q] = "ready")
                                  /\ st'[q] = "nread" => pipe'.writeopen = pipe.writeopen
                                  /\ st'[q] = "nwrite" => pipe'.readopen = pipe.readopen
  <1> DEFINE x == fd[p][f]
  <1>0. /\ x \in Ends /\ fd \in FdType /\ fref \in [Ends -> Nat] /\ pipe \in PipeType
        /\ st \in [Proc -> States] /\ Counted(fd, fref) /\ Flags(pipe, fref)
    BY DEF Inv, Types
  <1>1. /\ fd' = [fd EXCEPT ![p][f] = "none"] /\ fref' = [fref EXCEPT ![x] = @ - 1]
        /\ \/ fref[x] > 1 /\ pipe' = pipe /\ st' = [st EXCEPT ![p] = s]
           \/ /\ fref[x] = 1
              /\ pipe' = IF x = "W" THEN [pipe EXCEPT !.writeopen = FALSE]
                                    ELSE [pipe EXCEPT !.readopen = FALSE]
              /\ st' = WakeAnd(IF x = "W" THEN "nread" ELSE "nwrite", p, s)
    BY DEF CloseEnd
  <1>2. /\ fd' \in FdType /\ fref[x] >= 1 /\ fref' \in [Ends -> Nat] /\ Counted(fd', fref')
    BY <1>0, <1>1, CloseRef
  <1>3. fref'[x] = fref[x] - 1 /\ \A y \in Ends \ {x} : fref'[y] = fref[y]
    BY <1>0, <1>1
  <1>4. CASE fref[x] > 1
    <2>1. pipe' = pipe /\ st' = [st EXCEPT ![p] = s]
      BY <1>1, <1>4
    <2>2. \A y \in Ends : fref'[y] > 0 <=> fref[y] > 0
      BY <1>0, <1>3, <1>4
    <2> QED
      BY <1>0, <1>1, <1>2, <2>1, <2>2 DEF Flags, Ends, States
  <1>5. CASE fref[x] = 1
    <2>1. /\ pipe' = IF x = "W" THEN [pipe EXCEPT !.writeopen = FALSE]
                                ELSE [pipe EXCEPT !.readopen = FALSE]
          /\ st' = WakeAnd(IF x = "W" THEN "nread" ELSE "nwrite", p, s)
      BY <1>1, <1>5
    <2>2. /\ pipe' \in PipeType /\ pipe'.data = pipe.data /\ pipe'.nread = pipe.nread
          /\ pipe'.nwrite = pipe.nwrite
          /\ pipe'.writeopen = (IF x = "W" THEN FALSE ELSE pipe.writeopen)
          /\ pipe'.readopen = (IF x = "W" THEN pipe.readopen ELSE FALSE)
      BY <1>0, <2>1 DEF PipeType
    <2>3. Queued(pipe') = Queued(pipe) /\ Ahead(pipe', PIPESIZE) = Ahead(pipe, PIPESIZE)
      BY <2>2 DEF Queued, Ahead
    <2>4. fref'[x] = 0
      BY <1>0, <1>3, <1>5
    <2>5. Flags(pipe', fref')
      BY <1>0, <1>3, <2>2, <2>4 DEF Flags, Ends
    <2>6. /\ st' \in [Proc -> States] /\ st'[p] = s
          /\ \A q \in Proc \ {p} :
               st'[q] = IF st[q] = (IF x = "W" THEN "nread" ELSE "nwrite") THEN "ready" ELSE st[q]
      BY <1>0, <2>1 DEF WakeAnd, States
    <2>7. \A q \in Proc \ {p} : /\ st'[q] = st[q] \/ (Alive(st[q]) /\ st'[q] = "ready")
                                /\ st'[q] = "nread" => pipe'.writeopen = pipe.writeopen
                                /\ st'[q] = "nwrite" => pipe'.readopen = pipe.readopen
      BY <2>2, <2>6 DEF Alive
    <2> QED
      BY <1>1, <1>2, <2>2, <2>3, <2>5, <2>6, <2>7
  <1> QED
    BY <1>0, <1>1, <1>2, <1>4, <1>5
-----------------------------------------------------------------------------
(* System calls on descriptors, fork, wait and exit.                        *)

\* p's program goes on by a call; the other programs do not.
LEMMA Advances ==
  ASSUME Inv, NEW p \in Proc, NEW k \in 1..Len(Program(p)), prog[p] = From(p, k), fd[p] = Held(p, k),
         Len(prog[p]) = Len(Program(p)) + 1 - k, Tail(prog[p]) = From(p, k + 1),
         prog' = [prog EXCEPT ![p] = Tail(@)],
         p # "sh" \/ k # 1, Queued(pipe') = Queued(pipe),
         st[p] = "ready", Alive(st'[p]), fd'[p] = Held(p, k + 1),
         \A q \in Proc \ {p} : fd'[q] = fd[q] /\ (st'[q] = st[q] \/ (Alive(st[q]) /\ Alive(st'[q]))),
         DOMAIN prog = Proc
  PROVE  Progress'
  <1>1. k + 1 \in 1..(Len(Program(p)) + 1) /\ Len(Program(p)) \in Nat
    BY ProgramFacts
  <1>2. prog'[p] = From(p, k + 1) /\ \A q \in Proc \ {p} : prog'[q] = prog[q]
    OBVIOUS
  <1>3. \A q \in Proc : OnProgram(q, prog'[q], st'[q], fd'[q])
    BY <1>1, <1>2, SMTT(30) DEF Inv, Progress, OnProgram, Alive
  <1>4. /\ Len(prog'["sh"]) >= 6 => st["left"] = "unborn" /\ Len(prog["sh"]) >= 6
        /\ Len(prog'["sh"]) >= 5 => st["right"] = "unborn" /\ Len(prog["sh"]) >= 5
        /\ Len(prog'["sh"]) = 7 => Queued(pipe) = 0
    <2>1. CASE p # "sh"
      BY <1>2, <2>1 DEF Inv, Progress, Proc
    <2>2. CASE p = "sh"
      <3>1. Len(Program("sh")) = 7 /\ k # 1 /\ k \in 1..7 /\ Len(prog["sh"]) = 7 + 1 - k
        <4>1. Len(Program("sh")) = 7
          BY <2>2, ProgramFacts
        <4> QED
          BY <2>2, <4>1
      <3>2. Len(prog["sh"]) = 8 - k
        BY <2>2, <3>1
      <3>3. prog'["sh"] = <<>> \/ Len(prog'["sh"]) = 7 - k
        <4>1. CASE k = 7
          BY <1>2, <2>2, <3>1, <4>1, ProgramFacts
        <4>2. CASE k # 7
          <5>1. k + 1 \in 1..Len(Program("sh"))
            <6>1. k + 1 \in 1..7
              BY <3>1, <4>2
            <6> QED
              BY <3>1, <6>1
          <5>2. Len(From("sh", k + 1)) = 7 + 1 - (k + 1)
            BY <3>1, <5>1, ProgramFacts DEF Proc
          <5> QED
            BY <1>2, <2>2, <3>1, <5>2
        <4> QED
          BY <4>1, <4>2
      <3>4. Len(<<>>) = 0
        OBVIOUS
      <3>5. \A n, m \in Int : (m = n - 1 /\ n \in 1..6) \/ m = 0 =>
                /\ m >= 6 => n >= 6
                /\ m >= 5 => n >= 5
                /\ m # 7
        OBVIOUS
      <3>6. /\ Len(prog["sh"]) \in Int /\ Len(prog'["sh"]) \in Int
            /\ \/ Len(prog'["sh"]) = Len(prog["sh"]) - 1 /\ Len(prog["sh"]) \in 1..6
               \/ Len(prog'["sh"]) = 0
        BY <3>1, <3>2, <3>3, <3>4
      <3>7. /\ Len(prog'["sh"]) >= 6 => Len(prog["sh"]) >= 6
            /\ Len(prog'["sh"]) >= 5 => Len(prog["sh"]) >= 5
            /\ Len(prog'["sh"]) # 7
        BY <3>5, <3>6
      <3> QED
        BY <3>7 DEF Inv, Progress
    <2> QED
      BY <2>1, <2>2
  <1>5. /\ st["left"] = "unborn" => st'["left"] = "unborn"
        /\ st["right"] = "unborn" => st'["right"] = "unborn"
    BY DEF Alive, Proc
  <1> QED
    BY <1>3, <1>4, <1>5 DEF Progress

LEMMA CloseInv ==
  ASSUME Inv, NEW p \in Proc, Close(p)
  PROVE  Inv'
  <1>1. PICK k \in 1..Len(Program(p)) :
          /\ prog[p] = From(p, k) /\ Head(prog[p]) = Program(p)[k] /\ Program(p)[k][1] = "close"
          /\ Tail(prog[p]) = From(p, k + 1) /\ Len(prog[p]) = Len(Program(p)) + 1 - k
          /\ fd[p] = Held(p, k)
    BY At DEF Close, Inv
  <1> DEFINE f == Program(p)[k][2]
  <1>2. f \in FD /\ Held(p, k + 1) = [Held(p, k) EXCEPT ![f] = "none"]
    BY <1>1, CloseCall
  <1>3. st[p] = "ready"
    BY DEF Close, Runs
  <1>4. /\ prog' = [prog EXCEPT ![p] = Tail(@)]
        /\ \/ fd[p][f] \in Ends /\ CloseEnd(p, f, "ready")
           \/ fd[p][f] \notin Ends /\ fd' = [fd EXCEPT ![p][f] = "none"] /\ UNCHANGED <<fref, pipe, st>>
        /\ UNCHANGED <<cons, inCall, buf, writing, killed, ttyVars, userVars, histVars>>
    BY <1>1 DEF Close, Advance
  <1> HIDE DEF f
  <1>5. /\ fd' = [fd EXCEPT ![p][f] = "none"] /\ fd' \in FdType /\ fref' \in [Ends -> Nat]
        /\ Counted(fd', fref') /\ Flags(pipe', fref')
        /\ pipe' \in PipeType /\ Queued(pipe') = Queued(pipe)
        /\ Ahead(pipe', PIPESIZE) = Ahead(pipe, PIPESIZE)
        /\ st' \in [Proc -> States] /\ st'[p] = "ready"
        /\ \A q \in Proc \ {p} : /\ st'[q] = st[q] \/ (Alive(st[q]) /\ st'[q] = "ready")
                                 /\ st'[q] = "nread" => pipe'.writeopen = pipe.writeopen
                                 /\ st'[q] = "nwrite" => pipe'.readopen = pipe.readopen
    <2>1. CASE fd[p][f] \in Ends /\ CloseEnd(p, f, "ready")
      BY <1>2, <1>3, <2>1, CloseEndFacts
    <2>2. CASE fd[p][f] \notin Ends /\ fd' = [fd EXCEPT ![p][f] = "none"] /\ UNCHANGED <<fref, pipe, st>>
      <3>1. fd \in FdType
        BY DEF Inv, Types
      <3>2. fd' \in FdType /\ \A q \in Proc, g \in FD : fd'[q][g] = IF q = p /\ g = f THEN "none" ELSE fd[q][g]
        BY <1>2, <2>2, <3>1 DEF FdType
      <3>3. \A x \in Ends : Refs(fd', x) = Refs(fd, x)
        BY <1>2, <2>2, <3>2 DEF Refs, Ends
      <3>4. Counted(fd', fref') /\ Flags(pipe', fref')
        BY <2>2, <3>3 DEF Inv, Counted, Flags
      <3> QED
        BY <1>3, <2>2, <3>2, <3>4 DEF Inv, Types
    <2> QED
      BY <1>4, <2>1, <2>2
  <1>6. Types'
    BY <1>4, <1>5 DEF Inv, Types, ttyVars, userVars, histVars
  <1>7. Progress'
    <2>1. DOMAIN prog = Proc
      BY DEF Inv, Types
    <2>2. fd'[p] = Held(p, k + 1) /\ \A q \in Proc \ {p} : fd'[q] = fd[q]
      BY <1>1, <1>2, <1>5 DEF Inv, Types, FdType
    <2>3. p # "sh" \/ k # 1
      BY <1>1, Lengths DEF Program, ShellRuns
    <2> QED
      <3>1. Alive(st'[p]) /\ \A q \in Proc \ {p} : st'[q] = st[q] \/ (Alive(st[q]) /\ Alive(st'[q]))
        BY <1>5 DEF Alive
      <3>2. prog' = [prog EXCEPT ![p] = Tail(@)] /\ Queued(pipe') = Queued(pipe)
        BY <1>4, <1>5
      <3> QED
        BY <1>1, <1>3, <2>1, <2>2, <2>3, <3>1, <3>2, Advances
  <1>8. CatBuffers' /\ UartRoom'
    BY <1>4 DEF Inv, CatBuffers, UartRoom, ttyVars
  <1>9. NoLostWakeup'
    BY <1>4, <1>5 DEF Inv, NoLostWakeup, ttyVars, Room
  <1>10. NothingLost'
    BY <1>4, <1>5 DEF Inv, NothingLost, histVars
  <1> QED
    BY <1>5, <1>6, <1>7, <1>8, <1>9, <1>10 DEF Inv
-----------------------------------------------------------------------------
LEMMA DupInv ==
  ASSUME Inv, NEW p \in Proc, Dup(p)
  PROVE  Inv'
  <1>1. PICK k \in 1..Len(Program(p)) :
          /\ prog[p] = From(p, k) /\ Head(prog[p]) = Program(p)[k] /\ Program(p)[k][1] = "dup"
          /\ Tail(prog[p]) = From(p, k + 1) /\ Len(prog[p]) = Len(Program(p)) + 1 - k
          /\ fd[p] = Held(p, k)
    BY At DEF Dup, Inv
  <1> DEFINE f == Program(p)[k][2]
             x == fd[p][f]
  <1>2. f \in FD /\ x \in Ends
    BY <1>1, DupCall
  <1>3. PICK g \in FD : /\ {h \in FD : Held(p, k)[h] = "none"} = {g}
                        /\ Held(p, k + 1) = [Held(p, k) EXCEPT ![g] = Held(p, k)[f]]
    BY <1>1, DupCall
  <1>4. Min({h \in FD : fd[p][h] = "none"}) = g /\ fd[p][g] = "none"
    <2>1. {h \in FD : fd[p][h] = "none"} = {g} /\ {g} \in SUBSET Nat /\ {g} # {}
      BY <1>1, <1>3 DEF FD
    <2> QED
      BY <2>1, Least
  <1>5. st[p] = "ready"
    BY DEF Dup, Runs
  <1>6. /\ prog' = [prog EXCEPT ![p] = Tail(@)]
        /\ fd' = [fd EXCEPT ![p][g] = x] /\ fref' = [fref EXCEPT ![x] = @ + 1]
        /\ UNCHANGED <<cons, pipe, st, inCall, buf, writing, killed, ttyVars, userVars, histVars>>
    BY <1>1, <1>4 DEF Dup, Advance
  <1> HIDE DEF f
  <1>7. /\ fd \in FdType /\ fref \in [Ends -> Nat] /\ Counted(fd, fref)
    BY DEF Inv, Types
  <1>8. fd' \in FdType /\ fref[x] >= 1 /\ fref' \in [Ends -> Nat] /\ Counted(fd', fref')
    BY <1>2, <1>4, <1>6, <1>7, DupRef
  <1>9. Flags(pipe', fref')
    <2>1. \A y \in Ends : fref'[y] > 0 <=> fref[y] > 0
      BY <1>2, <1>6, <1>7, <1>8
    <2> QED
      BY <1>6, <2>1 DEF Inv, Flags, Ends
  <1>10. Types'
    BY <1>6, <1>8 DEF Inv, Types, ttyVars, userVars, histVars
  <1>11. Progress'
    <2>1. DOMAIN prog = Proc
      BY DEF Inv, Types
    <2>2. fd'[p] = Held(p, k + 1) /\ \A q \in Proc \ {p} : fd'[q] = fd[q]
      BY <1>1, <1>2, <1>3, <1>6, <1>7 DEF FdType
    <2>3. p # "sh"
      BY <1>1, Lengths DEF Program, ShellRuns
    <2>4. Alive(st'[p]) /\ st' = st /\ pipe' = pipe
      BY <1>5, <1>6 DEF Alive
    <2> QED
      BY <1>1, <1>5, <1>6, <2>1, <2>2, <2>3, <2>4, Advances
  <1>12. CatBuffers' /\ UartRoom' /\ NoLostWakeup' /\ NothingLost'
    BY <1>6 DEF Inv, CatBuffers, UartRoom, NoLostWakeup, NothingLost, ttyVars, histVars
  <1> QED
    BY <1>8, <1>9, <1>10, <1>11, <1>12 DEF Inv

LEMMA NewPipeFacts ==
  /\ NewPipe \in PipeType /\ Queued(NewPipe) = 0 /\ NewPipe.readopen /\ NewPipe.writeopen
  /\ \A q \in PipeType : Queued(q) = 0 => Ahead(q, PIPESIZE) = <<>>
  <1>0. UINT \in Nat \ {0} /\ PIPESIZE \in Nat \ {0} /\ 0 \in Counter /\ NL \in Key
    BY RingAssumption DEF Counter, Key
  <1>1. /\ NewPipe \in PipeType /\ NewPipe.readopen /\ NewPipe.writeopen
        /\ NewPipe.nread = 0 /\ NewPipe.nwrite = 0
    BY <1>0 DEF NewPipe, PipeType, Place
  <1>2. Queued(NewPipe) = 0
    BY <1>0, <1>1, Counters DEF Queued
  <1>3. ASSUME NEW q \in PipeType, Queued(q) = 0
        PROVE  Ahead(q, PIPESIZE) = <<>>
    <2>1. Min({PIPESIZE, 0}) = 0
      BY <1>0, MinOfTwo
    <2>2. Ahead(q, PIPESIZE) = Entries(q.data, q.nread, 0)
      BY <1>3, <2>1 DEF Ahead
    <2> QED
      BY <2>2 DEF Entries
  <1> QED
    BY <1>1, <1>2, <1>3

\* pipe comes first: nobody has an end yet.
LEMMA PipeInv ==
  ASSUME Inv, Pipe
  PROVE  Inv'
  <1>1. PICK k \in 1..Len(Program("sh")) :
          /\ prog["sh"] = From("sh", k) /\ Program("sh")[k][1] = "pipe"
          /\ Tail(prog["sh"]) = From("sh", k + 1) /\ Len(prog["sh"]) = Len(Program("sh")) + 1 - k
          /\ fd["sh"] = Held("sh", k)
    BY At DEF Pipe, Inv, Proc
  <1>2. k = 1 /\ Len(Program("sh")) = 7
    BY <1>1, ProgramFacts, ShellCalls DEF Proc
  <1>3. Len(prog["sh"]) = 7 /\ fd["sh"] = Held("sh", 1) /\ Tail(prog["sh"]) = From("sh", 2)
    BY <1>1, <1>2
  <1>4. st["sh"] = "ready" /\ st["left"] = "unborn" /\ st["right"] = "unborn" /\ Queued(pipe) = 0
    <2>1. 7 >= 6 /\ 7 >= 5
      OBVIOUS
    <2> QED
      BY <1>3, <2>1 DEF Pipe, Runs, Inv, Progress
  <1>5. fd["left"] = Closed /\ fd["right"] = Closed /\ prog["left"] = <<>> /\ prog["right"] = <<>>
    BY <1>4 DEF Inv, Progress, OnProgram, Proc
  <1>6. \A p \in Proc, f \in FD : fd[p][f] \notin Ends
    BY <1>3, <1>5, ShellHolds DEF Closed, Ends, Proc
  <1>7. /\ fd \in FdType /\ fref \in [Ends -> Nat] /\ Counted(fd, fref) /\ DOMAIN prog = Proc
        /\ pipe \in PipeType /\ st \in [Proc -> States]
    BY DEF Inv, Types
  <1>8. UNCHANGED <<cons, inCall, buf, writing, killed, ttyVars, userVars, histVars>>
    BY DEF Pipe
  <1>9. CASE /\ pipe' = NewPipe /\ fref' = [x \in Ends |-> 1]
             /\ fd' = [fd EXCEPT !["sh"][3] = "R", !["sh"][4] = "W"]
             /\ Advance("sh") /\ UNCHANGED st
    <2>1. /\ fd' \in FdType /\ fd'["sh"] = Held("sh", 2) /\ \A p \in Proc \ {"sh"} : fd'[p] = fd[p]
      BY <1>3, <1>7, <1>9, ShellHolds DEF FdType, Proc, Ends
    <2>2. fref' \in [Ends -> Nat] /\ fref'["R"] = 1 /\ fref'["W"] = 1
      BY <1>9 DEF Ends
    <2>3. Counted(fd', fref')
      <3>1. /\ Held("sh", 2)[3] = "R" /\ Held("sh", 2)[4] = "W"
            /\ \A f \in FD : (Held("sh", 2)[f] = "R" <=> f = 3) /\ (Held("sh", 2)[f] = "W" <=> f = 4)
        BY HeldTable, FilesFacts DEF FD
      <3>2. Refs(fd', "R") = {<<"sh", 3>>} /\ Refs(fd', "W") = {<<"sh", 4>>}
        BY <1>6, <2>1, <3>1 DEF Refs, Ends, Proc, FD
      <3>3. Cardinality({<<"sh", 3>>}) = 1 /\ Cardinality({<<"sh", 4>>}) = 1
        BY FS_Singleton
      <3> QED
        BY <2>2, <3>2, <3>3 DEF Counted, Ends
    <2>4. Flags(pipe', fref')
      BY <1>9, <2>2, NewPipeFacts DEF Flags
    <2>5. pipe' \in PipeType /\ Queued(pipe') = 0 /\ Queued(pipe') <= PIPESIZE
      <3>1. 0 <= PIPESIZE
        BY RingAssumption
      <3> QED
        BY <1>9, <3>1, NewPipeFacts
    <2>6. prog' = [prog EXCEPT !["sh"] = Tail(@)]
      BY <1>9 DEF Advance
    <2>7. Types'
      BY <1>7, <1>8, <1>9, <2>1, <2>2, <2>5, <2>6 DEF Inv, Types, ttyVars, userVars, histVars
    <2>8. Progress'
      <3>1. prog'["sh"] = From("sh", 2) /\ prog'["left"] = <<>> /\ prog'["right"] = <<>>
        BY <1>3, <1>5, <1>7, <2>6 DEF Proc
      <3>2. Len(From("sh", 2)) = 6
        <4>1. 2 \in 1..Len(Program("sh")) /\ 7 + 1 - 2 = 6
          BY <1>2
        <4>2. Len(From("sh", 2)) = Len(Program("sh")) + 1 - 2
          BY <4>1, ProgramFacts DEF Proc
        <4> QED
          BY <1>2, <4>1, <4>2
      <3>3. 2 \in 1..(Len(Program("sh")) + 1)
        BY <1>2
      <3>4. OnProgram("sh", prog'["sh"], st'["sh"], fd'["sh"])
        BY <1>4, <1>9, <2>1, <3>1, <3>3 DEF OnProgram
      <3>5. \A p \in Proc \ {"sh"} : OnProgram(p, prog'[p], st'[p], fd'[p])
        BY <1>4, <1>5, <1>9, <2>1, <3>1 DEF OnProgram, Proc
      <3> QED
        BY <1>4, <1>9, <2>5, <3>1, <3>2, <3>4, <3>5 DEF Progress
    <2>9. CatBuffers' /\ UartRoom'
      BY <1>8 DEF Inv, CatBuffers, UartRoom, ttyVars
    <2>10. NoLostWakeup'
      BY <1>4, <1>8, <1>9 DEF NoLostWakeup, Proc
    <2>11. NothingLost'
      BY <1>4, <1>7, <1>8, <2>5, NewPipeFacts DEF Inv, NothingLost, histVars
    <2> QED
      BY <2>3, <2>4, <2>7, <2>8, <2>9, <2>10, <2>11 DEF Inv
  <1>10. CASE st' = [st EXCEPT !["sh"] = "exit"] /\ UNCHANGED <<pipe, fref, fd, prog>>
    <2>1. st' \in [Proc -> States]
      BY <1>7, <1>10 DEF States
    <2>2. Types'
      BY <1>7, <1>8, <1>10, <2>1 DEF Inv, Types, ttyVars, userVars, histVars
    <2>3. Progress'
      <3>1. \A p \in Proc : \/ st'[p] = st[p]
                            \/ st[p] # "unborn" /\ st'[p] \in {"exit", "zombie", "reaped"}
        BY <1>4, <1>7, <1>10
      <3> QED
        BY <1>4, <1>10, <3>1, ProgressKept DEF Inv
    <2>4. CatBuffers' /\ UartRoom'
      BY <1>8 DEF Inv, CatBuffers, UartRoom, ttyVars
    <2>5. NoLostWakeup'
      BY <1>4, <1>7, <1>8, <1>10 DEF NoLostWakeup, Proc
    <2>6. NothingLost' /\ Counted(fd', fref') /\ Flags(pipe', fref')
      BY <1>8, <1>10 DEF Inv, NothingLost, histVars
    <2> QED
      BY <2>2, <2>3, <2>4, <2>5, <2>6 DEF Inv
  <1> QED
    BY <1>9, <1>10 DEF Pipe

LEMMA ForkInv ==
  ASSUME Inv, Fork
  PROVE  Inv'
  <1>1. PICK k \in 1..Len(Program("sh")) :
          /\ prog["sh"] = From("sh", k) /\ Head(prog["sh"]) = Program("sh")[k]
          /\ Program("sh")[k][1] = "fork"
          /\ Tail(prog["sh"]) = From("sh", k + 1) /\ Len(prog["sh"]) = Len(Program("sh")) + 1 - k
          /\ fd["sh"] = Held("sh", k)
    BY At DEF Fork, Inv, Proc
  <1> DEFINE c == Program("sh")[k][2]
  <1>2. k \in 2..3 /\ c = (IF k = 2 THEN "left" ELSE "right") /\ Len(Program("sh")) = 7
    BY <1>1, ProgramFacts, ShellCalls DEF Proc
  <1>3. st["sh"] = "ready"
    BY DEF Fork, Runs
  <1>4. c \in Proc \ {"sh"}
    BY <1>2 DEF Proc
  <1>5. Len(prog["sh"]) = 8 - k
    <2>1. 7 + 1 - k = 8 - k
      BY <1>2
    <2> QED
      BY <1>1, <1>2, <2>1
  <1>6. st[c] = "unborn" /\ (k = 2 => st["right"] = "unborn")
    <2>1. k = 2 => Len(prog["sh"]) >= 6 /\ Len(prog["sh"]) >= 5
      BY <1>5
    <2>2. k = 3 => Len(prog["sh"]) >= 5
      BY <1>5
    <2> QED
      BY <1>2, <2>1, <2>2 DEF Inv, Progress
  <1>7. fd[c] = Closed
    BY <1>4, <1>6 DEF Inv, Progress, OnProgram
  <1>8. /\ fd \in FdType /\ fref \in [Ends -> Nat] /\ Counted(fd, fref) /\ DOMAIN prog = Proc
        /\ st \in [Proc -> States]
    BY DEF Inv, Types
  <1>9. /\ UNCHANGED <<cons, pipe, inCall, buf, writing, killed, ttyVars, userVars, histVars>>
        /\ \/ /\ fd' = [fd EXCEPT ![c] = fd["sh"]]
              /\ fref' = Shared("sh")
              /\ prog' = [prog EXCEPT !["sh"] = Tail(@), ![c] = IF c = "left" THEN LeftRuns ELSE RightRuns]
              /\ st' = [st EXCEPT ![c] = "ready"]
           \/ st' = [st EXCEPT !["sh"] = "exit"] /\ UNCHANGED <<fref, fd, prog>>
    BY <1>1 DEF Fork
  <1>11. CatBuffers' /\ UartRoom' /\ NothingLost'
    BY <1>9 DEF Inv, CatBuffers, UartRoom, NothingLost, ttyVars, histVars
  <1> HIDE DEF c
  <1>12. CASE /\ fd' = [fd EXCEPT ![c] = fd["sh"]]
              /\ fref' = Shared("sh")
              /\ prog' = [prog EXCEPT !["sh"] = Tail(@), ![c] = IF c = "left" THEN LeftRuns ELSE RightRuns]
              /\ st' = [st EXCEPT ![c] = "ready"]
    <2>1. fref' = [x \in Ends |-> fref[x] + Cardinality({f \in FD : fd["sh"][f] = x})]
      BY <1>12 DEF Shared
    <2>2. /\ fd' \in FdType /\ fref' \in [Ends -> Nat] /\ Counted(fd', fref')
          /\ \A x \in Ends : fref[x] >= 1 /\ fref'[x] >= 1
      <3>1. /\ fd' \in FdType /\ [x \in Ends |-> fref[x] + Cardinality({f \in FD : fd["sh"][f] = x})] \in [Ends -> Nat]
            /\ Counted(fd', [x \in Ends |-> fref[x] + Cardinality({f \in FD : fd["sh"][f] = x})])
            /\ \A x \in Ends : /\ fref[x] >= 1
                               /\ [y \in Ends |-> fref[y] + Cardinality({f \in FD : fd["sh"][f] = y})][x] >= 1
        BY <1>1, <1>2, <1>4, <1>7, <1>8, <1>12, ForkRefs, Zenon
      <3> QED
        BY <2>1, <3>1, Zenon
    <2>3. Flags(pipe', fref')
      <3>1. \A x \in Ends : fref[x] > 0 <=> fref'[x] > 0
        BY <1>8, <2>2
      <3> QED
        BY <1>9, <3>1 DEF Inv, Flags, Ends
    <2>4. Types'
      BY <1>8, <1>9, <1>12, <2>2 DEF Inv, Types, States, ttyVars, userVars, histVars
    <2>5. Progress'
      <3>1. /\ prog'["sh"] = From("sh", k + 1) /\ prog'[c] = From(c, 1)
            /\ \A p \in Proc \ {"sh", c} : prog'[p] = prog[p]
        <4>1. prog'[c] = Program(c)
          BY <1>4, <1>8, <1>12 DEF Program
        <4> QED
          BY <1>1, <1>4, <1>8, <1>12, <4>1, ProgramFacts DEF Proc
      <3>2. /\ fd'["sh"] = Held("sh", k + 1) /\ fd'[c] = Held(c, 1)
            /\ \A p \in Proc \ {"sh", c} : fd'[p] = fd[p]
        BY <1>1, <1>2, <1>4, <1>8, <1>12, ShellHolds DEF FdType, Proc
      <3>3. \A p \in Proc : st'[p] = IF p = c THEN "ready" ELSE st[p]
        BY <1>8, <1>12
      <3>4. k + 1 \in 1..8 /\ \A p \in Proc : 1 \in 1..(Len(Program(p)) + 1)
        <4>1. k + 1 \in 1..8
          BY <1>2
        <4>2. \A p \in Proc : Len(Program(p)) \in Nat
          BY ProgramFacts
        <4> QED
          BY <4>1, <4>2
      <3>5. OnProgram("sh", prog'["sh"], st'["sh"], fd'["sh"])
        <4>1. k + 1 \in 1..(Len(Program("sh")) + 1)
          BY <1>2, <3>4
        <4> QED
          BY <1>3, <1>4, <3>1, <3>2, <3>3, <4>1 DEF OnProgram, Proc
      <3>6. OnProgram(c, prog'[c], st'[c], fd'[c])
        BY <1>4, <3>1, <3>2, <3>3, <3>4 DEF OnProgram
      <3>7. \A p \in Proc \ {"sh", c} : OnProgram(p, prog'[p], st'[p], fd'[p])
        BY <3>1, <3>2, <3>3 DEF Inv, Progress
      <3>8. Len(prog'["sh"]) = 7 - k
        <4>1. k + 1 \in 1..Len(Program("sh"))
          BY <1>2
        <4>2. Len(From("sh", k + 1)) = Len(Program("sh")) + 1 - (k + 1)
          BY <4>1, ProgramFacts DEF Proc
        <4>3. 7 + 1 - (k + 1) = 7 - k
          BY <1>2
        <4> QED
          BY <1>2, <3>1, <4>2, <4>3
      <3>9. /\ ~(Len(prog'["sh"]) >= 6) /\ Len(prog'["sh"]) # 7
            /\ Len(prog'["sh"]) >= 5 => k = 2
        BY <1>2, <3>8
      <3>10. k = 2 => st'["right"] = "unborn"
        BY <1>2, <1>6, <3>3 DEF Proc
      <3>11. \A p \in Proc : OnProgram(p, prog'[p], st'[p], fd'[p])
        BY <3>5, <3>6, <3>7
      <3> QED
        BY <3>9, <3>10, <3>11 DEF Progress
    <2>6. NoLostWakeup'
      <3>1. \A p \in Proc : st'[p] = IF p = c THEN "ready" ELSE st[p]
        BY <1>8, <1>12
      <3> QED
        BY <1>9, <3>1 DEF Inv, NoLostWakeup, ttyVars
    <2> QED
      BY <1>11, <2>2, <2>3, <2>4, <2>5, <2>6 DEF Inv
  <1>13. CASE st' = [st EXCEPT !["sh"] = "exit"] /\ UNCHANGED <<fref, fd, prog>>
    <2>1. \A p \in Proc : st'[p] = IF p = "sh" THEN "exit" ELSE st[p]
      BY <1>8, <1>13
    <2>2. Types'
      BY <1>8, <1>9, <1>13 DEF Inv, Types, States, ttyVars, userVars, histVars
    <2>3. Progress'
      <3>1. \A p \in Proc : \/ st'[p] = st[p]
                            \/ st[p] # "unborn" /\ st'[p] \in {"exit", "zombie", "reaped"}
        BY <1>3, <2>1
      <3>2. Len(prog["sh"]) = 7 => Queued(pipe') = 0
        BY <1>9 DEF Inv, Progress
      <3> QED
        BY <1>13, <3>1, <3>2, ProgressKept DEF Inv
    <2>4. NoLostWakeup'
      BY <1>9, <2>1 DEF Inv, NoLostWakeup, ttyVars
    <2> QED
      BY <1>9, <1>11, <1>13, <2>2, <2>3, <2>4 DEF Inv
  <1> QED
    BY <1>9, <1>12, <1>13
-----------------------------------------------------------------------------
LEMMA WaitInv ==
  ASSUME Inv, Wait
  PROVE  Inv'
  <1>1. PICK k \in 1..Len(Program("sh")) :
          /\ prog["sh"] = From("sh", k) /\ Program("sh")[k][1] = "wait"
          /\ Tail(prog["sh"]) = From("sh", k + 1) /\ Len(prog["sh"]) = Len(Program("sh")) + 1 - k
          /\ fd["sh"] = Held("sh", k)
    BY At DEF Wait, Inv, Proc
  <1>2. k \in 6..7 /\ Held("sh", k + 1) = Held("sh", k)
    BY <1>1, ProgramFacts, ShellCalls, ShellHolds DEF Proc
  <1>3. st["sh"] = "ready" /\ st \in [Proc -> States] /\ DOMAIN prog = Proc
    BY DEF Wait, Runs, Inv, Types
  <1>4. /\ UNCHANGED <<cons, pipe, fileVars, inCall, buf, writing, killed, ttyVars, userVars, histVars>>
        /\ \/ Advance("sh") /\ \E c \in Proc : st[c] = "zombie" /\ st' = [st EXCEPT ![c] = "reaped"]
           \/ st' = [st EXCEPT !["sh"] = "child"] /\ UNCHANGED prog
    BY DEF Wait
  <1>5. CatBuffers' /\ UartRoom' /\ NothingLost' /\ Counted(fd', fref') /\ Flags(pipe', fref')
    BY <1>4 DEF Inv, CatBuffers, UartRoom, NothingLost, ttyVars, histVars, fileVars
  <1>6. CASE Advance("sh") /\ \E c \in Proc : st[c] = "zombie" /\ st' = [st EXCEPT ![c] = "reaped"]
    <2>1. PICK c \in Proc : st[c] = "zombie" /\ st' = [st EXCEPT ![c] = "reaped"]
      BY <1>6
    <2>2. \A p \in Proc : st'[p] = IF p = c THEN "reaped" ELSE st[p]
      BY <1>3, <2>1
    <2>3. c # "sh"
      BY <1>3, <2>1
    <2>4. prog' = [prog EXCEPT !["sh"] = Tail(@)]
      BY <1>6 DEF Advance
    <2>5. Types'
      BY <1>3, <1>4, <2>1, <2>4 DEF Inv, Types, States, ttyVars, userVars, histVars, fileVars
    <2>6. Progress'
      <3>1. prog'["sh"] = From("sh", k + 1) /\ \A p \in Proc \ {"sh"} : prog'[p] = prog[p]
        BY <1>1, <1>3, <2>4 DEF Proc
      <3>2. k + 1 \in 1..(Len(Program("sh")) + 1)
        BY <1>1, ProgramFacts DEF Proc
      <3>3. OnProgram("sh", prog'["sh"], st'["sh"], fd'["sh"])
        BY <1>1, <1>2, <1>3, <1>4, <2>2, <2>3, <3>1, <3>2 DEF OnProgram, fileVars, Proc
      <3>4. \A p \in Proc \ {"sh"} : OnProgram(p, prog'[p], st'[p], fd'[p])
        BY <1>4, <2>1, <2>2, <3>1 DEF Inv, Progress, OnProgram, Alive, fileVars
      <3>5. Len(prog'["sh"]) \in 0..1
        <4>1. Len(Program("sh")) = 7 /\ 7 \in 1..7 /\ 7 + 1 - 7 = 1 /\ 7 + 1 = 8 /\ 6 + 1 = 7
          BY ProgramFacts DEF Proc
        <4>2. CASE k = 7
          <5>1. From("sh", 8) = <<>>
            BY <4>1, ProgramFacts DEF Proc
          <5>2. prog'["sh"] = <<>>
            BY <3>1, <4>1, <4>2, <5>1
          <5> QED
            BY <5>2
        <4>3. CASE k = 6
          <5>1. Len(From("sh", 7)) = Len(Program("sh")) + 1 - 7
            BY <4>1, ProgramFacts, Zenon DEF Proc
          <5>2. Len(prog'["sh"]) = 1
            BY <3>1, <4>1, <4>3, <5>1
          <5> QED
            BY <5>2
        <4> QED
          BY <1>2, <4>2, <4>3
      <3>6. ~(Len(prog'["sh"]) >= 6) /\ ~(Len(prog'["sh"]) >= 5) /\ Len(prog'["sh"]) # 7
        <4>1. \A n \in 0..1 : ~(n >= 6) /\ ~(n >= 5) /\ n # 7
          OBVIOUS
        <4> QED
          BY <3>5, <4>1
      <3>7. \A p \in Proc : OnProgram(p, prog'[p], st'[p], fd'[p])
        BY <3>3, <3>4
      <3> QED
        BY <3>6, <3>7 DEF Progress
    <2>7. NoLostWakeup'
      BY <1>4, <2>2 DEF Inv, NoLostWakeup, ttyVars
    <2> QED
      BY <1>5, <2>5, <2>6, <2>7 DEF Inv
  <1>7. CASE st' = [st EXCEPT !["sh"] = "child"] /\ UNCHANGED prog
    <2>1. \A p \in Proc : st'[p] = IF p = "sh" THEN "child" ELSE st[p]
      BY <1>3, <1>7
    <2>2. Types'
      BY <1>3, <1>4, <1>7 DEF Inv, Types, States, ttyVars, userVars, histVars, fileVars
    <2>3. Progress'
      <3>1. \A p \in Proc : st'[p] = st[p] \/ (Alive(st[p]) /\ Alive(st'[p]))
        BY <1>3, <2>1 DEF Alive
      <3>2. Len(prog["sh"]) = 7 => Queued(pipe') = 0
        BY <1>4 DEF Inv, Progress
      <3> QED
        BY <1>4, <1>7, <3>1, <3>2, ProgressKept DEF Inv, fileVars
    <2>4. NoLostWakeup'
      BY <1>4, <2>1 DEF Inv, NoLostWakeup, ttyVars
    <2> QED
      BY <1>5, <2>2, <2>3, <2>4 DEF Inv
  <1> QED
    BY <1>4, <1>6, <1>7

LEMMA ExitInv ==
  ASSUME Inv, NEW p \in Proc, Exit(p)
  PROVE  Inv'
  <1> DEFINE open == {f \in FD : fd[p][f] \in Ends}
  <1>1. /\ UNCHANGED <<cons, prog, inCall, buf, writing, killed, ttyVars, userVars, histVars>>
        /\ st[p] \in {"ready", "exit"}
        /\ \/ open # {} /\ CloseEnd(p, Min(open), "exit")
           \/ /\ open = {} /\ st' = WakeAnd("child", p, "zombie")
              /\ fd' = [fd EXCEPT ![p] = [f \in FD |-> "none"]] /\ UNCHANGED <<fref, pipe>>
    BY DEF Exit
  <1>2. fd \in FdType /\ st \in [Proc -> States]
    BY DEF Inv, Types
  <1>3. CatBuffers' /\ UartRoom'
    BY <1>1 DEF Inv, CatBuffers, UartRoom, ttyVars
  <1>4. CASE open # {} /\ CloseEnd(p, Min(open), "exit")
    <2>1. Min(open) \in open
      <3>1. open \in SUBSET Nat
        BY DEF FD
      <3> HIDE DEF open
      <3> QED
        BY <1>4, <3>1, Least
    <2> DEFINE f == Min(open)
    <2>2. f \in FD /\ fd[p][f] \in Ends /\ CloseEnd(p, f, "exit")
      BY <1>4, <2>1
    <2> HIDE DEF f
    <2>3. /\ fd' = [fd EXCEPT ![p][f] = "none"] /\ fd' \in FdType /\ fref' \in [Ends -> Nat]
          /\ Counted(fd', fref') /\ Flags(pipe', fref')
          /\ pipe' \in PipeType /\ Queued(pipe') = Queued(pipe)
          /\ Ahead(pipe', PIPESIZE) = Ahead(pipe, PIPESIZE)
          /\ st' \in [Proc -> States] /\ st'[p] = "exit"
          /\ \A q \in Proc \ {p} : /\ st'[q] = st[q] \/ (Alive(st[q]) /\ st'[q] = "ready")
                                   /\ st'[q] = "nread" => pipe'.writeopen = pipe.writeopen
                                   /\ st'[q] = "nwrite" => pipe'.readopen = pipe.readopen
      BY <1>1, <2>2, CloseEndFacts
    <2>4. Types'
      BY <1>1, <2>3 DEF Inv, Types, ttyVars, userVars, histVars
    <2>5. Progress'
      <3>1. \A q \in Proc \ {p} : fd'[q] = fd[q] /\ prog'[q] = prog[q]
        BY <1>1, <1>2, <2>3 DEF FdType
      <3>2. \A q \in Proc \ {p} : OnProgram(q, prog'[q], st'[q], fd'[q])
        BY <2>3, <3>1 DEF Inv, Progress, OnProgram, Alive
      <3>3. OnProgram(p, prog'[p], st'[p], fd'[p])
        BY <1>1, <2>3 DEF Inv, Progress, OnProgram, Alive
      <3>4. /\ st["left"] = "unborn" => st'["left"] = "unborn"
            /\ st["right"] = "unborn" => st'["right"] = "unborn"
        BY <1>1, <2>3 DEF Alive, Proc
      <3> QED
        BY <1>1, <2>3, <3>2, <3>3, <3>4 DEF Inv, Progress
    <2>6. NoLostWakeup'
      BY <1>1, <2>3 DEF Inv, NoLostWakeup, ttyVars, Room
    <2>7. NothingLost'
      BY <1>1, <2>3 DEF Inv, NothingLost, histVars
    <2> QED
      BY <1>3, <2>3, <2>4, <2>5, <2>6, <2>7 DEF Inv
  <1>5. CASE /\ open = {} /\ st' = WakeAnd("child", p, "zombie")
             /\ fd' = [fd EXCEPT ![p] = [f \in FD |-> "none"]] /\ UNCHANGED <<fref, pipe>>
    <2>1. /\ st' \in [Proc -> States] /\ st'[p] = "zombie"
          /\ \A q \in Proc \ {p} : st'[q] = IF st[q] = "child" THEN "ready" ELSE st[q]
      BY <1>2, <1>5 DEF WakeAnd, States
    <2>2. /\ fd' \in FdType
          /\ \A q \in Proc, f \in FD : fd'[q][f] = IF q = p THEN "none" ELSE fd[q][f]
          /\ \A q \in Proc \ {p} : fd'[q] = fd[q]
      BY <1>2, <1>5 DEF FdType
    <2>3. Counted(fd', fref') /\ Flags(pipe', fref')
      <3>1. \A x \in Ends : Refs(fd', x) = Refs(fd, x)
        BY <1>5, <2>2 DEF Refs, Ends
      <3> QED
        BY <1>5, <3>1 DEF Inv, Counted, Flags
    <2>4. Types'
      BY <1>1, <1>5, <2>1, <2>2 DEF Inv, Types, ttyVars, userVars, histVars
    <2>5. Progress'
      <3>1. \A q \in Proc \ {p} : OnProgram(q, prog'[q], st'[q], fd'[q])
        BY <1>1, <2>1, <2>2 DEF Inv, Progress, OnProgram, Alive
      <3>2. OnProgram(p, prog'[p], st'[p], fd'[p])
        BY <1>1, <2>1 DEF Inv, Progress, OnProgram, Alive
      <3>3. /\ st["left"] = "unborn" => st'["left"] = "unborn"
            /\ st["right"] = "unborn" => st'["right"] = "unborn"
        BY <1>1, <2>1 DEF Proc
      <3> QED
        BY <1>1, <1>5, <3>1, <3>2, <3>3 DEF Inv, Progress
    <2>6. NoLostWakeup'
      BY <1>1, <1>5, <2>1 DEF Inv, NoLostWakeup, ttyVars
    <2>7. NothingLost'
      BY <1>1, <1>5 DEF Inv, NothingLost, histVars
    <2> QED
      BY <1>3, <2>3, <2>4, <2>5, <2>6, <2>7 DEF Inv
  <1> QED
    BY <1>1, <1>4, <1>5
-----------------------------------------------------------------------------
(* The uart, its handler, the user, and kills.                              *)

LEMMA KillInv ==
  ASSUME Inv, NEW p \in Proc, Kill(p)
  PROVE  Inv'
  <1>1. /\ st[p] \notin {"unborn", "zombie", "reaped"} /\ killed' = killed \cup {p}
        /\ st' = [st EXCEPT ![p] = IF @ = "exit" THEN @ ELSE "ready"]
        /\ UNCHANGED <<cons, pipe, fileVars, prog, inCall, buf, writing, ttyVars, userVars, histVars>>
    BY DEF Kill
  <1>2. st \in [Proc -> States]
    BY DEF Inv, Types
  <1>3. /\ st' \in [Proc -> States]
        /\ \A q \in Proc : st'[q] = IF q = p /\ st[p] # "exit" THEN "ready" ELSE st[q]
    BY <1>1, <1>2 DEF States
  <1>4. Types'
    BY <1>1, <1>3 DEF Inv, Types, ttyVars, userVars, histVars, fileVars
  <1>5. Progress'
    <2>1. \A q \in Proc : st'[q] = st[q] \/ (Alive(st[q]) /\ Alive(st'[q]))
      BY <1>1, <1>3 DEF Alive
    <2>2. Len(prog["sh"]) = 7 => Queued(pipe') = 0
      BY <1>1 DEF Inv, Progress
    <2> QED
      BY <1>1, <2>1, <2>2, ProgressKept DEF Inv, fileVars
  <1>6. NoLostWakeup'
    BY <1>1, <1>3 DEF Inv, NoLostWakeup, ttyVars
  <1>7. CatBuffers' /\ UartRoom' /\ NothingLost' /\ Counted(fd', fref') /\ Flags(pipe', fref')
    BY <1>1 DEF Inv, CatBuffers, UartRoom, NothingLost, ttyVars, histVars, fileVars
  <1> QED
    BY <1>4, <1>5, <1>6, <1>7 DEF Inv

\* The handler, the uart and the user leave processes alone, except for wakeups.
LEMMA QuietInv ==
  ASSUME Inv, Types', UartRoom', NoLostWakeup',
         UNCHANGED <<pipe, fileVars, prog, buf, writing, sent, out>>,
         \A q \in Proc : st'[q] = st[q] \/ (Alive(st[q]) /\ Alive(st'[q]))
  PROVE  Inv'
  <1>1. Progress'
    <2>1. Len(prog["sh"]) = 7 => Queued(pipe') = 0
      BY DEF Inv, Progress
    <2> QED
      BY <2>1, ProgressKept DEF Inv, fileVars
  <1>2. CatBuffers' /\ NothingLost' /\ Counted(fd', fref') /\ Flags(pipe', fref')
    BY DEF Inv, CatBuffers, NothingLost, fileVars
  <1> QED
    BY <1>1, <1>2 DEF Inv

LEMMA HandlerInv ==
  ASSUME Inv, Handler
  PROVE  Inv'
  <1>0. /\ Types /\ UartRoom /\ NoLostWakeup /\ thr \in Nat /\ txBusy \in BOOLEAN
        /\ st \in [Proc -> States] /\ cons \in ConsType /\ rx \in Seq(Key) /\ Len(rx) <= RXFIFO
        /\ handler \in {<<"idle">>, <<"tx">>, <<"rx">>} \cup ({"echo", "put"} \X Key)
    BY DEF Inv, Types
  <1>1. CASE Ack
    <2>1. Types' /\ UartRoom' /\ NoLostWakeup'
      BY <1>0, <1>1 DEF Ack, Types, UartRoom, NoLostWakeup, fileVars, procVars, userVars, histVars
    <2> QED
      BY <1>1, <2>1, QuietInv DEF Ack, fileVars, procVars, histVars
  <1>2. CASE TxDone
    <2>1. \/ thr = 0 /\ txBusy' = FALSE /\ st' = Wake("tx")
          \/ thr # 0 /\ txBusy' = txBusy /\ st' = st
      BY <1>2 DEF TxDone
    <2>2. /\ st' \in [Proc -> States] /\ txBusy' \in BOOLEAN
          /\ \A q \in Proc : st'[q] = st[q] \/ (st[q] = "tx" /\ st'[q] = "ready")
          /\ \A q \in Proc : st'[q] = "tx" => txBusy' = txBusy
      BY <1>0, <2>1 DEF Wake, States
    <2>3. Types'
      BY <1>0, <1>2, <2>2 DEF TxDone, Types, fileVars, userVars, histVars
    <2>4. UartRoom'
      BY <1>0, <1>2, <2>1 DEF TxDone, UartRoom
    <2>5. NoLostWakeup'
      BY <1>0, <1>2, <2>2 DEF TxDone, NoLostWakeup
    <2>6. \A q \in Proc : st'[q] = st[q] \/ (Alive(st[q]) /\ Alive(st'[q]))
      BY <2>2 DEF Alive
    <2> QED
      BY <1>2, <2>3, <2>4, <2>5, <2>6, QuietInv DEF TxDone, histVars
  <1>3. CASE GetC
    <2>1. \/ handler' = <<"idle">> /\ rx' = rx
          \/ /\ rx # <<>> /\ rx' = Tail(rx)
             /\ handler' = <<"rx">> \/ handler' = <<"echo", Head(rx)>>
      BY <1>3 DEF GetC
    <2>2. /\ rx' \in Seq(Key) /\ Len(rx') <= RXFIFO /\ handler'[1] # "put"
          /\ handler' \in {<<"idle">>, <<"tx">>, <<"rx">>} \cup ({"echo", "put"} \X Key)
      <3>1. CASE handler' = <<"idle">> /\ rx' = rx
        BY <1>0, <3>1
      <3>2. CASE rx # <<>> /\ rx' = Tail(rx) /\ (handler' = <<"rx">> \/ handler' = <<"echo", Head(rx)>>)
        <4>1. Head(rx) \in Key /\ rx' \in Seq(Key) /\ Len(rx') = Len(rx) - 1 /\ Len(rx) \in Nat
          BY <1>0, <3>2, HeadTailProperties, LenProperties
        <4>2. Len(rx') <= RXFIFO
          BY <1>0, <4>1, PipelineAssumption
        <4> QED
          BY <3>2, <4>1, <4>2
      <3> QED
        BY <2>1, <3>1, <3>2
    <2>3. Types' /\ UartRoom' /\ NoLostWakeup'
      BY <1>0, <1>3, <2>2 DEF GetC, Types, UartRoom, NoLostWakeup, fileVars, procVars, userVars
    <2> QED
      BY <1>3, <2>3, QuietInv DEF GetC, fileVars, procVars
  <1>4. CASE EchoWaits
    <2>1. handler \in {"echo", "put"} \X Key
      BY <1>0, <1>4 DEF EchoWaits
    <2>2. handler' = <<"put", handler[2]>> /\ handler[2] \in Key /\ thr = 0 /\ thr' = 0
      BY <1>4, <2>1 DEF EchoWaits
    <2>3. Types' /\ UartRoom' /\ NoLostWakeup'
      BY <1>0, <1>4, <2>2 DEF EchoWaits, Types, UartRoom, NoLostWakeup, fileVars, procVars, userVars, histVars
    <2> QED
      BY <1>4, <2>3, QuietInv DEF EchoWaits, fileVars, procVars, histVars
  <1>5. CASE EchoPuts
    <2>1. handler \in {"echo", "put"} \X Key /\ handler[1] = "put"
      BY <1>0, <1>5 DEF EchoPuts
    <2> DEFINE c == Typed(cons, handler[2])
    <2>2. /\ cons' = c /\ st' = (IF c.w # cons.w THEN Wake("consr") ELSE st)
          /\ thr' = thr + 1 /\ handler' = <<"rx">> /\ txBusy' = txBusy
      BY <1>5 DEF EchoPuts
    <2>3. c \in ConsType /\ c.r = cons.r
      BY <1>0, <2>1, TypedFacts
    <2> HIDE DEF c
    <2>4. /\ st' \in [Proc -> States]
          /\ \A q \in Proc : st'[q] = st[q] \/ (st[q] = "consr" /\ st'[q] = "ready")
          /\ \A q \in Proc : st'[q] = "consr" => cons'.w = cons.w
      BY <1>0, <2>2 DEF Wake, States
    <2>5. Types'
      BY <1>0, <1>5, <2>2, <2>3, <2>4 DEF EchoPuts, Types, fileVars, userVars, histVars
    <2>6. UartRoom'
      <3>1. thr <= 1 /\ (~txBusy => thr = 0)
        BY <1>0, <2>1 DEF UartRoom
      <3> QED
        BY <1>0, <2>2, <3>1 DEF UartRoom
    <2>7. NoLostWakeup'
      BY <1>0, <1>5, <2>2, <2>3, <2>4 DEF EchoPuts, NoLostWakeup
    <2>8. \A q \in Proc : st'[q] = st[q] \/ (Alive(st[q]) /\ Alive(st'[q]))
      BY <2>4 DEF Alive
    <2> QED
      BY <1>5, <2>5, <2>6, <2>7, <2>8, QuietInv DEF EchoPuts, histVars
  <1> QED
    BY <1>1, <1>2, <1>3, <1>4, <1>5 DEF Handler

LEMMA OutsideInv ==
  ASSUME Inv, Sent \/ Type
  PROVE  Inv'
  <1>0. /\ Types /\ UartRoom /\ NoLostWakeup /\ thr \in Nat /\ irq \in BOOLEAN
        /\ rx \in Seq(Key) /\ script \in Seq(Key)
    BY DEF Inv, Types
  <1>1. CASE Sent
    <2>1. thr > 0 /\ thr' = thr - 1 /\ irq' = (irq \/ thr = 1) /\ txBusy' = txBusy /\ handler' = handler
      BY <1>1 DEF Sent
    <2>2. Types'
      BY <1>0, <1>1, <2>1 DEF Sent, Types, fileVars, procVars, userVars, histVars
    <2>3. UartRoom'
      BY <1>0, <2>1 DEF UartRoom
    <2>4. NoLostWakeup'
      BY <1>0, <1>1 DEF Sent, NoLostWakeup, procVars
    <2> QED
      BY <1>1, <2>2, <2>3, <2>4, QuietInv DEF Sent, fileVars, procVars, histVars
  <1>2. CASE Type
    <2>1. \/ /\ script # <<>> /\ Len(rx) < RXFIFO
             /\ rx' = Append(rx, Head(script)) /\ script' = Tail(script)
          \/ rx' = <<EOF>> /\ script' = script
      BY <1>2 DEF Type
    <2>2. rx' \in Seq(Key) /\ Len(rx') <= RXFIFO /\ script' \in Seq(Key)
      <3>1. RXFIFO \in Nat \ {0} /\ EOF \in Key /\ Len(rx) \in Nat
        BY <1>0, LenProperties, PipelineAssumption DEF Key
      <3>2. CASE script # <<>> /\ Len(rx) < RXFIFO /\ rx' = Append(rx, Head(script)) /\ script' = Tail(script)
        <4>1. Head(script) \in Key /\ script' \in Seq(Key)
          BY <1>0, <3>2, HeadTailProperties
        <4>2. rx' \in Seq(Key) /\ Len(rx') = Len(rx) + 1
          BY <1>0, <3>2, <4>1, AppendProperties
        <4> QED
          BY <3>1, <3>2, <4>1, <4>2
      <3>3. CASE rx' = <<EOF>> /\ script' = script
        <4>1. <<EOF>> \in Seq(Key) /\ Len(<<EOF>>) = 1
          BY <3>1
        <4> QED
          BY <1>0, <3>1, <3>3, <4>1
      <3> QED
        BY <2>1, <3>2, <3>3
    <2>3. Types' /\ UartRoom' /\ NoLostWakeup'
      BY <1>0, <1>2, <2>2 DEF Type, Types, UartRoom, NoLostWakeup, fileVars, procVars, histVars
    <2> QED
      BY <1>2, <2>3, QuietInv DEF Type, fileVars, procVars, histVars
  <1> QED
    BY <1>1, <1>2
-----------------------------------------------------------------------------
(* cat's calls.                                                             *)

LEMMA ReadConsInv ==
  ASSUME Inv, NEW p \in Proc, ReadCons(p)
  PROVE  Inv'
  <1> DEFINE n == CHUNK - Len(buf[p])
             s == Taken(cons, n)
             k == Consumed(s, Len(buf[p]))
             b == buf[p] \o Copied(s)
             done == s # <<>> /\ (Last(s) \in {NL, EOF} \/ Len(b) = CHUNK)
  <1>1. /\ Runs(p, "cat") /\ ~writing[p] /\ fd[p][0] = "cons"
        /\ cons' = [cons EXCEPT !.r = Add(@, k)] /\ sent' = sent \o Copied(s)
        /\ buf' = [buf EXCEPT ![p] = b]
        /\ \/ done /\ b # <<>> /\ Returns(p, st) /\ writing' = [writing EXCEPT ![p] = TRUE]
           \/ done /\ b = <<>> /\ Leaves(p) /\ UNCHANGED writing
           \/ ~done /\ p \in killed /\ Leaves(p) /\ UNCHANGED writing
           \/ ~done /\ p \notin killed /\ Sleeps(p, "consr") /\ UNCHANGED writing
        /\ UNCHANGED <<pipe, fileVars, prog, ttyVars, userVars, text, out>>
    BY DEF ReadCons
  <1>2. p = "left" /\ st[p] = "ready" /\ Len(prog["sh"]) # 7
    BY <1>1, AtCat DEF Inv
  <1>3. /\ cons \in ConsType /\ buf \in [Proc -> Seq(Key)] /\ st \in [Proc -> States]
        /\ inCall \in [Proc -> BOOLEAN] /\ writing \in [Proc -> BOOLEAN] /\ killed \in SUBSET Proc
        /\ sent \in Seq(Key) /\ out \in Seq(Key) /\ pipe \in PipeType
    BY DEF Inv, Types
  <1>4. n \in Nat \ {0} /\ buf[p] \in Seq(Key) /\ Len(buf[p]) + n = CHUNK
    <2>1. Len(buf[p]) \in Nat /\ Len(buf[p]) < CHUNK /\ CHUNK \in Nat
      BY <1>1, <1>3, LenProperties, PipelineAssumption DEF Inv, CatBuffers
    <2> QED
      BY <1>3, <2>1
  <1>5. /\ Copied(s) \in Seq(Key) /\ b \in Seq(Key) /\ Len(b) <= CHUNK
        /\ Add(cons.r, k) \in Counter
        /\ ~done => Len(b) < CHUNK /\ Add(cons.r, k) = cons.w
        /\ cons.r = cons.w => Add(cons.r, k) = cons.r
    BY <1>3, <1>4, TakenFacts
  <1>6. b = <<>> => Len(b) < CHUNK
    <2>1. Len(<<>>) = 0 /\ 0 < CHUNK
      BY EmptySeq, PipelineAssumption
    <2> QED
      BY <2>1
  <1> DEFINE c == Copied(s)
  <1>7. sent' = sent \o c /\ b = buf[p] \o c /\ c \in Seq(Key)
    BY <1>1, <1>5
  <1>8. /\ cons' \in ConsType /\ cons'.w = cons.w
        /\ ~done => cons'.r = cons'.w
        /\ cons.r = cons.w => cons'.r = cons'.w
    BY <1>1, <1>3, <1>5 DEF ConsType
  <1> HIDE DEF n, s, k, b, done, c
  <1>9. /\ buf' \in [Proc -> Seq(Key)] /\ buf'[p] = b
        /\ \A q \in Proc \ {p} : buf'[q] = buf[q]
    BY <1>1, <1>3, <1>5
  <1>10. /\ st' \in [Proc -> States] /\ inCall' \in [Proc -> BOOLEAN] /\ killed' \in SUBSET Proc
         /\ writing' \in [Proc -> BOOLEAN] /\ killed \subseteq killed'
         /\ st'[p] \in {"ready", "exit", "consr"} /\ \A q \in Proc \ {p} : st'[q] = st[q] /\ writing'[q] = writing[q]
         /\ st'[p] = "consr" => ~done
         /\ writing'[p] => b # <<>>
         /\ ~writing'[p] => ~done \/ b = <<>>
    <2>1. \/ /\ done /\ b # <<>> /\ st' = st /\ killed' = killed
             /\ writing' = [writing EXCEPT ![p] = TRUE]
          \/ /\ ~done \/ b = <<>>
             /\ st' = [st EXCEPT ![p] = "exit"] /\ killed' = killed /\ writing' = writing
          \/ /\ ~done /\ writing' = writing /\ st' = [st EXCEPT ![p] = "consr"]
             /\ \E K \in SUBSET MayDie(p) : killed' = killed \cup K
      BY <1>1 DEF Returns, Leaves, Sleeps
    <2>2. inCall' \in [Proc -> BOOLEAN]
      BY <1>1, <1>3 DEF Returns, Leaves, Sleeps
    <2>3. MayDie(p) \subseteq Proc
      BY PipelineAssumption DEF MayDie
    <2>4. killed' \in SUBSET Proc /\ killed \subseteq killed'
      BY <1>3, <2>1, <2>3
    <2>5. /\ st' \in [Proc -> States] /\ writing' \in [Proc -> BOOLEAN]
          /\ st'[p] \in {"ready", "exit", "consr"}
          /\ \A q \in Proc \ {p} : st'[q] = st[q] /\ writing'[q] = writing[q]
      BY <1>2, <1>3, <2>1 DEF States
    <2>6. /\ st'[p] = "consr" => ~done
          /\ writing'[p] => b # <<>>
          /\ ~writing'[p] => ~done \/ b = <<>>
      BY <1>1, <1>2, <1>3, <2>1
    <2> QED
      BY <2>2, <2>4, <2>5, <2>6
  <1>11. Types'
    <2>1. sent' \in Seq(Key)
      BY <1>3, <1>7, ConcatProperties
    <2> QED
      BY <1>1, <1>8, <1>9, <1>10, <2>1 DEF Inv, Types, ttyVars, userVars, fileVars
  <1>12. Progress'
    <2>1. \A q \in Proc : \/ st'[q] = st[q] \/ (Alive(st[q]) /\ Alive(st'[q]))
                          \/ (st[q] # "unborn" /\ st'[q] \in {"exit", "zombie", "reaped"})
      BY <1>2, <1>10 DEF Alive
    <2> QED
      BY <1>1, <1>2, <2>1, ProgressKept DEF Inv, fileVars
  <1>13. CatBuffers'
    <2>1. \A q \in Proc \ {p} : /\ Len(buf'[q]) <= CHUNK
                                /\ writing'[q] => buf'[q] # <<>>
                                /\ ~writing'[q] => Len(buf'[q]) < CHUNK
      BY <1>9, <1>10 DEF Inv, CatBuffers
    <2>2. ~writing'["right"] => buf'["right"] = <<>>
      BY <1>2, <1>9, <1>10 DEF Inv, CatBuffers, Proc
    <2>3. /\ Len(buf'[p]) <= CHUNK
          /\ writing'[p] => buf'[p] # <<>>
          /\ ~writing'[p] => Len(buf'[p]) < CHUNK
      <3>1. Len(b) <= CHUNK /\ (~done \/ b = <<>> => Len(b) < CHUNK)
        BY <1>5, <1>6
      <3> QED
        BY <1>9, <1>10, <3>1
    <2> QED
      BY <2>1, <2>2, <2>3 DEF CatBuffers
  <1>14. NoLostWakeup'
    BY <1>1, <1>8, <1>10 DEF Inv, NoLostWakeup, ttyVars
  <1>15. NothingLost'
    <2> DEFINE a == Ahead(pipe, PIPESIZE)
               l == (out \o buf["right"]) \o a
    <2>1. a \in Seq(Key) /\ l \in Seq(Key) /\ sent = l \o buf[p]
      <3>1. a \in Seq(Key) /\ "right" \in Proc
        BY <1>3, TakeFromRing, RingAssumption DEF Inv, Types, Proc
      <3>2. out \o buf["right"] \in Seq(Key)
        BY <1>3, <3>1, ConcatProperties
      <3>3. l \in Seq(Key)
        BY <3>1, <3>2, ConcatProperties
      <3> QED
        BY <1>2, <3>1, <3>3 DEF Inv, NothingLost
    <2>2. buf'["right"] = buf["right"] /\ out' = out /\ pipe' = pipe
      BY <1>1, <1>2, <1>9 DEF Proc
    <2>3. NothingLost' <=> sent' = l \o b
      BY <1>2, <1>9, <2>2 DEF NothingLost
    <2> HIDE DEF l, a
    <2>4. (l \o buf[p]) \o c = l \o (buf[p] \o c)
      BY <1>4, <1>7, <2>1, Joined, ZenonT(30)
    <2> QED
      BY <1>7, <2>1, <2>3, <2>4
  <1>16. UartRoom' /\ Counted(fd', fref') /\ Flags(pipe', fref')
    BY <1>1 DEF Inv, UartRoom, ttyVars, fileVars
  <1> QED
    BY <1>11, <1>12, <1>13, <1>14, <1>15, <1>16 DEF Inv

LEMMA ReadPipeInv ==
  ASSUME Inv, NEW p \in Proc, ReadPipe(p)
  PROVE  Inv'
  <1> DEFINE s == Ahead(pipe, CHUNK)
             empty == Queued(pipe) = 0 /\ pipe.writeopen
             next == Drained(pipe, CHUNK)
  <1>1. /\ Runs(p, "cat") /\ ~writing[p] /\ fd[p][0] = "R"
        /\ \/ empty /\ p \in killed /\ Leaves(p) /\ UNCHANGED <<pipe, buf, writing>>
           \/ empty /\ p \notin killed /\ Sleeps(p, "nread") /\ UNCHANGED <<pipe, buf, writing>>
           \/ /\ ~empty
              /\ pipe' = next /\ buf' = [buf EXCEPT ![p] = s]
              /\ writing' = [writing EXCEPT ![p] = s # <<>>]
              /\ Returns(p, WakeAnd("nwrite", p, IF s = <<>> THEN "exit" ELSE "ready"))
        /\ UNCHANGED <<cons, fileVars, prog, ttyVars, userVars, histVars>>
    BY DEF ReadPipe
  <1>2. p = "right" /\ st[p] = "ready" /\ Len(prog["sh"]) # 7
    BY <1>1, AtCat DEF Inv
  <1>3. /\ buf \in [Proc -> Seq(Key)] /\ st \in [Proc -> States]
        /\ inCall \in [Proc -> BOOLEAN] /\ writing \in [Proc -> BOOLEAN] /\ killed \in SUBSET Proc
        /\ out \in Seq(Key) /\ pipe \in PipeType /\ Queued(pipe) <= PIPESIZE
        /\ buf[p] = <<>> /\ CHUNK \in Nat \ {0}
    BY <1>1, <1>2, PipelineAssumption DEF Inv, Types, CatBuffers
  <1>4. UartRoom' /\ Counted(fd', fref')
    BY <1>1 DEF Inv, UartRoom, ttyVars, fileVars
  <1>5. CASE empty /\ UNCHANGED <<pipe, buf, writing>> /\ (Leaves(p) \/ Sleeps(p, "nread"))
    <2>1. /\ st' \in [Proc -> States] /\ inCall' \in [Proc -> BOOLEAN] /\ killed' \in SUBSET Proc
          /\ killed \subseteq killed' /\ st'[p] \in {"exit", "nread"}
          /\ \A q \in Proc \ {p} : st'[q] = st[q]
      BY <1>3, <1>5, PipelineAssumption, ZenonT(30) DEF Leaves, Returns, Sleeps, MayDie, States
    <2>2. Types'
      BY <1>1, <1>5, <2>1 DEF Inv, Types, ttyVars, userVars, fileVars, histVars
    <2>3. Progress'
      <3>1. \A q \in Proc : \/ st'[q] = st[q] \/ (Alive(st[q]) /\ Alive(st'[q]))
                            \/ (st[q] # "unborn" /\ st'[q] \in {"exit", "zombie", "reaped"})
        BY <1>2, <2>1 DEF Alive
      <3> QED
        BY <1>1, <1>2, <3>1, ProgressKept DEF Inv, fileVars
    <2>4. NoLostWakeup'
      BY <1>1, <1>5, <2>1 DEF Inv, NoLostWakeup, ttyVars
    <2>5. CatBuffers' /\ NothingLost' /\ Flags(pipe', fref')
      BY <1>1, <1>5 DEF Inv, CatBuffers, NothingLost, histVars, fileVars
    <2> QED
      BY <1>4, <2>2, <2>3, <2>4, <2>5 DEF Inv
  <1>6. CASE /\ ~empty /\ pipe' = next /\ buf' = [buf EXCEPT ![p] = s]
             /\ writing' = [writing EXCEPT ![p] = s # <<>>]
             /\ Returns(p, WakeAnd("nwrite", p, IF s = <<>> THEN "exit" ELSE "ready"))
    <2>1. /\ next \in PipeType /\ Queued(next) <= PIPESIZE
          /\ next.readopen = pipe.readopen /\ next.writeopen = pipe.writeopen
          /\ s \in Seq(Key) /\ Len(s) <= CHUNK
          /\ s = <<>> => Queued(pipe) = 0
          /\ Queued(pipe) = 0 => Queued(next) = 0
          /\ Ahead(pipe, PIPESIZE) = s \o Ahead(next, PIPESIZE)
      BY <1>3, TakeFromRing
    <2>2. Ahead(next, PIPESIZE) \in Seq(Key)
      BY <2>1, TakeFromRing, RingAssumption
    <2>3. pipe' = next /\ ~empty
      BY <1>6
    <2> HIDE DEF s, next
    <2>4. /\ st' \in [Proc -> States] /\ inCall' \in [Proc -> BOOLEAN] /\ killed' = killed
          /\ st'[p] \in {"ready", "exit"}
          /\ \A q \in Proc \ {p} : st'[q] = IF st[q] = "nwrite" THEN "ready" ELSE st[q]
      BY <1>3, <1>6 DEF Returns, WakeAnd, States
    <2>5. /\ buf' \in [Proc -> Seq(Key)] /\ buf'[p] = s /\ writing' \in [Proc -> BOOLEAN]
          /\ (writing'[p] <=> s # <<>>)
          /\ \A q \in Proc \ {p} : buf'[q] = buf[q] /\ writing'[q] = writing[q]
      BY <1>3, <1>6, <2>1
    <2>6. Types'
      BY <1>1, <2>1, <2>3, <2>4, <2>5 DEF Inv, Types, ttyVars, userVars, fileVars, histVars
    <2>7. Progress'
      <3>1. \A q \in Proc : \/ st'[q] = st[q] \/ (Alive(st[q]) /\ Alive(st'[q]))
                            \/ (st[q] # "unborn" /\ st'[q] \in {"exit", "zombie", "reaped"})
        BY <1>2, <2>4 DEF Alive
      <3> QED
        BY <1>1, <1>2, <3>1, ProgressKept DEF Inv, fileVars
    <2>8. CatBuffers'
      <3>1. s = <<>> => Len(s) < CHUNK
        BY <1>3
      <3>2. \A q \in Proc \ {p} : /\ Len(buf'[q]) <= CHUNK
                                  /\ writing'[q] => buf'[q] # <<>>
                                  /\ ~writing'[q] => Len(buf'[q]) < CHUNK
        BY <2>5 DEF Inv, CatBuffers
      <3>3. /\ Len(buf'[p]) <= CHUNK
            /\ writing'[p] => buf'[p] # <<>>
            /\ ~writing'[p] => Len(buf'[p]) < CHUNK /\ buf'[p] = <<>>
        BY <2>1, <2>5, <3>1
      <3> QED
        BY <1>2, <3>2, <3>3 DEF CatBuffers
    <2>9. NoLostWakeup'
      BY <1>1, <2>1, <2>3, <2>4 DEF Inv, NoLostWakeup, ttyVars
    <2>10. NothingLost'
      <3> DEFINE a == Ahead(next, PIPESIZE)
                 l == buf["left"]
      <3>1. l \in Seq(Key) /\ a \in Seq(Key)
        BY <1>3, <2>2 DEF Proc
      <3>2. sent = ((out \o <<>>) \o (s \o a)) \o l
        BY <1>2, <1>3, <2>1 DEF Inv, NothingLost
      <3>3. NothingLost' <=> sent = ((out \o s) \o a) \o l
        BY <1>1, <1>2, <2>3, <2>5 DEF NothingLost, histVars, Proc
      <3> HIDE DEF a, l
      <3>4. out \o <<>> = out
        BY <1>3, ConcatEmptySeq
      <3>5. (out \o s) \o a = out \o (s \o a)
        BY <1>3, <2>1, <3>1, Joined, Zenon
      <3> QED
        BY <3>2, <3>3, <3>4, <3>5
    <2>11. Flags(pipe', fref')
      BY <1>1, <2>1, <2>3 DEF Inv, Flags, fileVars
    <2> QED
      BY <1>4, <2>6, <2>7, <2>8, <2>9, <2>10, <2>11 DEF Inv
  <1> QED
    BY <1>1, <1>5, <1>6

\* The first n bytes of b go into the pipe, the others stay.
LEMMA PutFacts ==
  ASSUME NEW q \in PipeType, NEW b \in Seq(Key), NEW n \in 0..Len(b), Queued(q) + n <= PIPESIZE
  PROVE  LET t == Piped(q, SubSeq(b, 1, n))
             rest == SubSeq(b, n + 1, Len(b)) IN
         /\ t \in PipeType /\ Queued(t) = Queued(q) + n
         /\ t.readopen = q.readopen /\ t.writeopen = q.writeopen
         /\ rest \in Seq(Key) /\ Len(rest) = Len(b) - n
         /\ Ahead(q, PIPESIZE) \in Seq(Key) /\ Ahead(t, PIPESIZE) \in Seq(Key)
         /\ Ahead(t, PIPESIZE) \o rest = Ahead(q, PIPESIZE) \o b
  <1> DEFINE s == SubSeq(b, 1, n)
             t == Piped(q, s)
             rest == SubSeq(b, n + 1, Len(b))
             m == Len(b)
  <1>0. m \in Nat /\ b \in [1..m -> Key] /\ n \in Nat /\ n <= m
    BY LenProperties
  <1>1. s \in Seq(Key) /\ Len(s) = n
    <2>1. \A i \in 1..n : b[i] \in Key
      BY <1>0
    <2>2. s \in Seq(Key) /\ Len(s) = IF 1 <= n THEN n - 1 + 1 ELSE 0
      BY <1>0, <2>1, SubSeqProperties
    <2> QED
      BY <1>0, <2>2
  <1>2. rest \in Seq(Key) /\ Len(rest) = m - n
    <2>1. \A i \in (n + 1)..m : b[i] \in Key
      BY <1>0
    <2>2. n + 1 \in Int /\ m \in Int
      BY <1>0
    <2> HIDE DEF m
    <2>3. rest \in Seq(Key) /\ Len(rest) = IF n + 1 <= m THEN m - (n + 1) + 1 ELSE 0
      BY <2>1, <2>2, SubSeqProperties DEF m
    <2> QED
      BY <1>0, <2>3
  <1>3. s \o rest = b
    <2>1. 1 \in 1..(m + 1) /\ n \in (1 - 1)..m /\ m \in n..m
      BY <1>0
    <2>2. s \o rest = SubSeq(b, 1, m)
      BY <2>1, ConcatAdjacentSubSeq, Zenon
    <2> QED
      BY <2>2, SubSeqFull
  <1> HIDE DEF s, rest, m
  <1>4. /\ t \in PipeType /\ Queued(t) = Queued(q) + n
        /\ t.readopen = q.readopen /\ t.writeopen = q.writeopen
        /\ Ahead(t, PIPESIZE) = Ahead(q, PIPESIZE) \o s
    BY <1>1, PutInRing
  <1>5. Ahead(q, PIPESIZE) \in Seq(Key)
    <2>1. Queued(q) <= PIPESIZE /\ PIPESIZE \in Nat \ {0}
      BY <1>0, PipeRing DEF Counter
    <2> QED
      BY <2>1, TakeFromRing
  <1> DEFINE a == Ahead(q, PIPESIZE)
  <1> HIDE DEF a
  <1>6. a \in Seq(Key) /\ (a \o s) \o rest = a \o (s \o rest)
    BY <1>1, <1>2, <1>5, Joined, Zenon DEF a
  <1>7. a \o s \in Seq(Key)
    BY <1>1, <1>6, ConcatProperties
  <1> QED
    BY <1>2, <1>3, <1>4, <1>5, <1>6, <1>7 DEF a, s, rest, m

LEMMA WritePipeInv ==
  ASSUME Inv, NEW p \in Proc, WritePipe(p)
  PROVE  Inv'
  <1> DEFINE b == buf[p]
             k == Fits(pipe, b)
             fails == ~pipe.readopen \/ p \in killed
             Put(n) == /\ pipe' = Piped(pipe, SubSeq(b, 1, n))
                       /\ buf' = [buf EXCEPT ![p] = SubSeq(@, n + 1, Len(@))]
  <1>1. /\ Runs(p, "cat") /\ writing[p] /\ fd[p][1] = "W"
        /\ \/ fails /\ Leaves(p) /\ UNCHANGED <<pipe, buf, writing>>
           \/ /\ ~fails /\ k = Len(b) /\ Put(k)
              /\ writing' = [writing EXCEPT ![p] = FALSE]
              /\ Returns(p, Wake("nread"))
           \/ /\ ~fails /\ k < Len(b) /\ Put(k)
              /\ st' = WakeAnd("nread", p, "nwrite") /\ inCall' = [inCall EXCEPT ![p] = TRUE]
              /\ \E K \in SUBSET MayDie(p) : killed' = killed \cup K
              /\ UNCHANGED writing
           \/ /\ ~fails /\ p \in MayDie(p) /\ killed' = killed \cup {p}
              /\ \E n \in 1..k : n < Len(b) /\ Put(n)
              /\ st' = [st EXCEPT ![p] = "exit"] /\ inCall' = [inCall EXCEPT ![p] = FALSE]
              /\ UNCHANGED writing
        /\ UNCHANGED <<cons, fileVars, prog, ttyVars, userVars, histVars>>
    BY DEF WritePipe
  <1>2. p = "left" /\ st[p] = "ready" /\ Len(prog["sh"]) # 7
    BY <1>1, AtCat DEF Inv
  <1>3. /\ buf \in [Proc -> Seq(Key)] /\ st \in [Proc -> States] /\ b \in Seq(Key)
        /\ inCall \in [Proc -> BOOLEAN] /\ writing \in [Proc -> BOOLEAN] /\ killed \in SUBSET Proc
        /\ out \in Seq(Key) /\ pipe \in PipeType /\ Queued(pipe) <= PIPESIZE
        /\ b # <<>> /\ Len(b) <= CHUNK /\ CHUNK \in Nat \ {0} /\ MayDie(p) \in SUBSET Proc
    BY <1>1, <1>2, PipelineAssumption DEF Inv, Types, CatBuffers, MayDie
  <1>4. UartRoom' /\ Counted(fd', fref')
    BY <1>1 DEF Inv, UartRoom, ttyVars, fileVars
  <1> HIDE DEF b, k, Put
  <1>5. CASE Leaves(p) /\ UNCHANGED <<pipe, buf, writing>>
    <2>1. /\ st' \in [Proc -> States] /\ inCall' \in [Proc -> BOOLEAN] /\ killed' = killed
          /\ st'[p] = "exit" /\ \A q \in Proc \ {p} : st'[q] = st[q]
      BY <1>3, <1>5 DEF Leaves, Returns, States
    <2>2. Types'
      BY <1>1, <1>5, <2>1 DEF Inv, Types, ttyVars, userVars, fileVars, histVars
    <2>3. Progress'
      <3>1. \A q \in Proc : \/ st'[q] = st[q] \/ (Alive(st[q]) /\ Alive(st'[q]))
                            \/ (st[q] # "unborn" /\ st'[q] \in {"exit", "zombie", "reaped"})
        BY <1>2, <2>1 DEF Alive
      <3> QED
        BY <1>1, <1>2, <3>1, ProgressKept DEF Inv, fileVars
    <2>4. NoLostWakeup'
      BY <1>1, <1>5, <2>1 DEF Inv, NoLostWakeup, ttyVars
    <2>5. CatBuffers' /\ NothingLost' /\ Flags(pipe', fref')
      BY <1>1, <1>5 DEF Inv, CatBuffers, NothingLost, histVars, fileVars
    <2> QED
      BY <1>4, <2>2, <2>3, <2>4, <2>5 DEF Inv
  <1>6. CASE ~(Leaves(p) /\ UNCHANGED <<pipe, buf, writing>>)
    <2> DEFINE m == Len(b)
               r == Room(pipe)
    <2>1. /\ m \in Nat /\ m # 0 /\ r \in Nat /\ r = PIPESIZE - Queued(pipe) /\ PIPESIZE \in Nat
          /\ Queued(pipe) \in Nat
      <3>1. Queued(pipe) \in Nat /\ PIPESIZE \in Nat
        BY <1>3, PipeRing DEF Counter
      <3>2. m \in Nat /\ m # 0
        BY <1>3, LenProperties, EmptySeq
      <3> QED
        BY <1>3, <3>1, <3>2 DEF Room
    <2>2. k \in 0..m /\ k <= r /\ (k < m => k = r)
      <3>1. k = IF r <= m THEN r ELSE m
        BY <2>1, MinOfTwo DEF k, Fits
      <3> HIDE DEF m, r
      <3> QED
        BY <2>1, <3>1
    <2>3. PICK n \in 0..m :
            /\ n <= k /\ Put(n)
            /\ \/ n = m /\ writing' = [writing EXCEPT ![p] = FALSE] /\ st' = Wake("nread")
               \/ n < m /\ n = k /\ writing' = writing /\ st' = WakeAnd("nread", p, "nwrite")
               \/ n < m /\ p \in killed' /\ writing' = writing /\ st' = [st EXCEPT ![p] = "exit"]
      <3>1. CASE k = m /\ Put(k) /\ writing' = [writing EXCEPT ![p] = FALSE] /\ st' = Wake("nread")
        BY <2>1, <2>2, <3>1
      <3>2. CASE k < m /\ Put(k) /\ st' = WakeAnd("nread", p, "nwrite") /\ writing' = writing
        BY <2>1, <2>2, <3>2
      <3>3. CASE /\ killed' = killed \cup {p} /\ \E n \in 1..k : n < m /\ Put(n)
                 /\ st' = [st EXCEPT ![p] = "exit"] /\ writing' = writing
        <4>1. PICK n \in 1..k : n < m /\ Put(n)
          BY <3>3
        <4>2. n \in 0..m /\ n < m /\ n <= k
          BY <2>1, <2>2, <4>1
        <4>3. p \in killed' /\ writing' = writing /\ st' = [st EXCEPT ![p] = "exit"]
          BY <3>3
        <4> HIDE DEF m
        <4> QED
          BY <4>1, <4>2, <4>3
      <3> QED
        BY <1>1, <1>6, <3>1, <3>2, <3>3 DEF Returns
    <2>4. inCall' \in [Proc -> BOOLEAN] /\ killed' \in SUBSET Proc /\ killed \subseteq killed' /\ pipe.readopen
      BY <1>1, <1>3, <1>6 DEF Returns
    <2> DEFINE rest == SubSeq(b, n + 1, Len(b))
    <2>5. /\ pipe' \in PipeType /\ Queued(pipe') = Queued(pipe) + n
          /\ pipe'.readopen = pipe.readopen /\ pipe'.writeopen = pipe.writeopen
          /\ rest \in Seq(Key) /\ Len(rest) = m - n
          /\ Ahead(pipe, PIPESIZE) \in Seq(Key) /\ Ahead(pipe', PIPESIZE) \in Seq(Key)
          /\ Ahead(pipe', PIPESIZE) \o rest = Ahead(pipe, PIPESIZE) \o b
      <3>1. Queued(pipe) + n <= PIPESIZE
        BY <2>1, <2>2, <2>3
      <3>2. pipe' = Piped(pipe, SubSeq(b, 1, n))
        BY <2>3 DEF Put
      <3> QED
        BY <1>3, <3>1, <3>2, PutFacts
    <2>6. /\ buf' \in [Proc -> Seq(Key)] /\ buf'[p] = rest
          /\ \A q \in Proc \ {p} : buf'[q] = buf[q]
      BY <1>3, <2>3, <2>5 DEF Put, b
    <2> HIDE DEF rest
    <2>7. n = m \/ n < m
      BY <2>1
    <2>8. ~(n = m /\ n < m)
      BY <2>1
    <2>9. /\ writing' \in [Proc -> BOOLEAN] /\ (writing'[p] => n < m) /\ (~writing'[p] => n = m)
          /\ \A q \in Proc \ {p} : writing'[q] = writing[q]
      <3>1. CASE n = m
        <4>1. writing' = [writing EXCEPT ![p] = FALSE]
          BY <2>3, <2>8, <3>1
        <4> QED
          BY <1>3, <3>1, <4>1
      <3>2. CASE n < m
        <4>1. writing' = writing
          BY <2>3, <2>8, <3>2
        <4> QED
          BY <1>1, <1>3, <3>2, <4>1
      <3> QED
        BY <2>7, <3>1, <3>2
    <2>10. \/ p \in killed' /\ st' = [st EXCEPT ![p] = "exit"]
           \/ st' = Wake("nread")
           \/ n = k /\ k < m /\ st' = WakeAnd("nread", p, "nwrite")
      BY <2>3
    <2>11. /\ st' \in [Proc -> States]
           /\ st'[p] \in {"ready", "exit", "nwrite"} /\ (st'[p] = "nwrite" => n = k /\ k < m)
           /\ \A q \in Proc \ {p} : /\ st'[q] = st[q] \/ (st[q] = "nread" /\ st'[q] = "ready")
                                    /\ st'[q] = "nread" => p \in killed'
      BY <1>2, <1>3, <2>10, ZenonT(30) DEF Wake, WakeAnd, States
    <2>12. Queued(pipe') <= PIPESIZE
      BY <2>1, <2>2, <2>3, <2>5
    <2>13. Types'
      BY <1>1, <2>4, <2>5, <2>6, <2>9, <2>11, <2>12 DEF Inv, Types, ttyVars, userVars, fileVars, histVars
    <2>14. Progress'
      <3>1. \A q \in Proc : \/ st'[q] = st[q] \/ (Alive(st[q]) /\ Alive(st'[q]))
                            \/ (st[q] # "unborn" /\ st'[q] \in {"exit", "zombie", "reaped"})
        BY <1>2, <2>11 DEF Alive
      <3> QED
        BY <1>1, <1>2, <3>1, ProgressKept DEF Inv, fileVars
    <2>15. CatBuffers'
      <3>1. \A q \in Proc \ {p} : /\ Len(buf'[q]) <= CHUNK
                                  /\ writing'[q] => buf'[q] # <<>>
                                  /\ ~writing'[q] => Len(buf'[q]) < CHUNK
        BY <2>6, <2>9 DEF Inv, CatBuffers
      <3>2. Len(rest) <= CHUNK /\ (n < m => rest # <<>>) /\ (n = m => Len(rest) < CHUNK)
        <4>1. m - n <= CHUNK /\ (n < m => m - n # 0) /\ (n = m => m - n < CHUNK)
          BY <1>3, <2>1
        <4> QED
          BY <2>5, <4>1, EmptySeq
      <3>3. /\ Len(buf'[p]) <= CHUNK
            /\ writing'[p] => buf'[p] # <<>>
            /\ ~writing'[p] => Len(buf'[p]) < CHUNK
        BY <2>6, <2>9, <3>2
      <3>4. ~writing'["right"] => buf'["right"] = <<>>
        BY <1>2, <2>6, <2>9 DEF Inv, CatBuffers, Proc
      <3> QED
        BY <3>1, <3>3, <3>4 DEF CatBuffers
    <2>16. NoLostWakeup'
      <3>1. /\ n = k /\ k < m => Room(pipe') = 0
            /\ r = 0 => Room(pipe') = 0
        BY <2>1, <2>2, <2>3, <2>5 DEF Room
      <3> QED
        BY <1>1, <2>4, <2>5, <2>11, <3>1 DEF Inv, NoLostWakeup, ttyVars
    <2>17. NothingLost'
      <3> DEFINE a == Ahead(pipe, PIPESIZE)
                 c == Ahead(pipe', PIPESIZE)
                 l == out \o buf["right"]
      <3>1. l \in Seq(Key) /\ a \in Seq(Key) /\ c \in Seq(Key)
            /\ b \in Seq(Key) /\ rest \in Seq(Key)
        BY <1>3, <2>5, ConcatProperties DEF Proc
      <3>2. sent = (l \o a) \o b
        BY <1>2 DEF Inv, NothingLost, b
      <3>3. NothingLost' <=> sent = (l \o c) \o rest
        BY <1>1, <1>2, <2>6 DEF NothingLost, histVars, Proc
      <3> HIDE DEF l, a, c
      <3>4. (l \o a) \o b = l \o (a \o b)
        BY <3>1, Joined, ZenonT(30)
      <3>5. (l \o c) \o rest = l \o (c \o rest)
        BY <3>1, Joined, ZenonT(30)
      <3>6. c \o rest = a \o b
        BY <2>5 DEF a, c
      <3> QED
        BY <3>2, <3>3, <3>4, <3>5, <3>6
    <2>18. Flags(pipe', fref')
      BY <1>1, <2>5 DEF Inv, Flags, fileVars
    <2> QED
      BY <1>4, <2>13, <2>14, <2>15, <2>16, <2>17, <2>18 DEF Inv
  <1> QED
    BY <1>5, <1>6

LEMMA WriteConsInv ==
  ASSUME Inv, NEW p \in Proc, WriteCons(p)
  PROVE  Inv'
  <1> DEFINE b == buf[p]
  <1>1. /\ Runs(p, "cat") /\ writing[p] /\ fd[p][1] = "cons"
        /\ \/ txBusy /\ Sleeps(p, "tx") /\ killed' = killed
              /\ UNCHANGED <<thr, txBusy, out, buf, writing>>
           \/ /\ ~txBusy /\ thr' = thr + 1 /\ txBusy' = TRUE
              /\ out' = Append(out, Head(b))
              /\ buf' = [buf EXCEPT ![p] = Tail(@)]
              /\ writing' = [writing EXCEPT ![p] = Len(b) > 1]
              /\ \/ Len(b) = 1 /\ Returns(p, st)
                 \/ Len(b) > 1 /\ Sleeps(p, "tx") /\ killed' = killed
        /\ UNCHANGED <<cons, pipe, fileVars, prog, rx, irq, handler, userVars, text, taken, sent>>
    BY DEF WriteCons
  <1>2. p = "right" /\ st[p] = "ready" /\ Len(prog["sh"]) # 7
    BY <1>1, AtCat DEF Inv
  <1>3. /\ buf \in [Proc -> Seq(Key)] /\ st \in [Proc -> States] /\ b \in Seq(Key)
        /\ inCall \in [Proc -> BOOLEAN] /\ writing \in [Proc -> BOOLEAN] /\ killed \in SUBSET Proc
        /\ out \in Seq(Key) /\ pipe \in PipeType /\ Queued(pipe) <= PIPESIZE
        /\ b # <<>> /\ Len(b) <= CHUNK /\ CHUNK \in Nat \ {0} /\ thr \in Nat
    BY <1>1, <1>2, PipelineAssumption DEF Inv, Types, CatBuffers
  <1>4. Counted(fd', fref') /\ Flags(pipe', fref')
    BY <1>1 DEF Inv, Flags, fileVars
  <1>5. /\ st' \in [Proc -> States] /\ inCall' \in [Proc -> BOOLEAN] /\ killed' = killed
        /\ st'[p] \in {"ready", "tx"} /\ \A q \in Proc \ {p} : st'[q] = st[q]
        /\ txBusy' = TRUE
    <2>1. st' = st \/ st' = [st EXCEPT ![p] = "tx"]
      BY <1>1 DEF Returns, Sleeps
    <2>2. inCall' \in [Proc -> BOOLEAN] /\ killed' = killed
      BY <1>1, <1>3 DEF Returns, Sleeps
    <2>3. txBusy' = TRUE
      BY <1>1 DEF Inv, Types
    <2> QED
      BY <1>2, <1>3, <2>1, <2>2, <2>3 DEF States
  <1>6. Progress'
    <2>1. \A q \in Proc : st'[q] = st[q] \/ (Alive(st[q]) /\ Alive(st'[q]))
      BY <1>2, <1>5 DEF Alive
    <2> QED
      BY <1>1, <1>2, <2>1, ProgressKept DEF Inv, fileVars
  <1>7. NoLostWakeup'
    BY <1>1, <1>5 DEF Inv, NoLostWakeup
  <1>8. CASE UNCHANGED <<thr, txBusy, out, buf, writing>>
    <2>1. Types'
      BY <1>1, <1>5, <1>8 DEF Inv, Types, userVars, fileVars
    <2>2. CatBuffers' /\ UartRoom' /\ NothingLost'
      BY <1>1, <1>8 DEF Inv, CatBuffers, UartRoom, NothingLost
    <2> QED
      BY <1>4, <1>6, <1>7, <2>1, <2>2 DEF Inv
  <1>9. CASE /\ ~txBusy /\ thr' = thr + 1 /\ out' = Append(out, Head(b))
             /\ buf' = [buf EXCEPT ![p] = Tail(@)] /\ writing' = [writing EXCEPT ![p] = Len(b) > 1]
    <2> DEFINE t == Tail(b)
               h == Head(b)
    <2>1. /\ h \in Key /\ t \in Seq(Key) /\ Len(t) = Len(b) - 1 /\ Len(b) \in Nat /\ Len(b) # 0
          /\ out' \in Seq(Key) /\ out' = out \o <<h>> /\ <<h>> \in Seq(Key)
      <3>1. h \in Key /\ t \in Seq(Key) /\ Len(t) = Len(b) - 1 /\ Len(b) \in Nat
        BY <1>3, HeadTailProperties, LenProperties
      <3>2. Len(b) # 0
        BY <1>3, EmptySeq
      <3>3. out' \in Seq(Key) /\ out' = out \o <<h>>
        BY <1>3, <1>9, <3>1, AppendProperties, AppendIsConcat
      <3> QED
        BY <3>1, <3>2, <3>3
    <2>2. <<h>> \o t = b
      <3>1. 1 \in 1..Len(b) /\ Len(b) \in 1..Len(b) /\ 1 + 1 = 2
        BY <2>1
      <3>2. SubSeq(b, 1, Len(b)) = <<b[1]>> \o SubSeq(b, 1 + 1, Len(b))
        BY <1>3, <3>1, SubSeqRecursiveFirst, Zenon
      <3>3. SubSeq(b, 1, Len(b)) = b /\ t = SubSeq(b, 2, Len(b))
        BY <1>3, SubSeqFull, TailIsSubSeq
      <3>4. h = b[1]
        OBVIOUS
      <3> QED
        BY <3>1, <3>2, <3>3, <3>4
    <2>3. /\ buf' \in [Proc -> Seq(Key)] /\ buf'[p] = t
          /\ writing' \in [Proc -> BOOLEAN] /\ (writing'[p] <=> Len(b) > 1)
          /\ \A q \in Proc \ {p} : buf'[q] = buf[q] /\ writing'[q] = writing[q]
      <3>1. (Len(b) > 1) \in BOOLEAN
        OBVIOUS
      <3> QED
        BY <1>3, <1>9, <2>1, <3>1
    <2> HIDE DEF b, t, h
    <2>4. Types'
      <3>1. thr' \in Nat /\ txBusy' \in BOOLEAN
        BY <1>3, <1>5, <1>9
      <3> QED
        BY <1>1, <1>5, <2>1, <2>3, <3>1 DEF Inv, Types, userVars, fileVars
    <2>5. CatBuffers'
      <3>1. \A q \in Proc \ {p} : /\ Len(buf'[q]) <= CHUNK
                                  /\ writing'[q] => buf'[q] # <<>>
                                  /\ ~writing'[q] => Len(buf'[q]) < CHUNK
        BY <2>3 DEF Inv, CatBuffers
      <3>2. /\ Len(t) <= CHUNK /\ (Len(b) > 1 => Len(t) # 0)
            /\ ~(Len(b) > 1) => Len(t) = 0 /\ Len(t) < CHUNK
        <4>1. \A i \in Nat : i # 0 /\ i <= CHUNK => /\ i - 1 <= CHUNK /\ (i > 1 => i - 1 # 0)
                                                    /\ ~(i > 1) => i - 1 = 0 /\ i - 1 < CHUNK
          BY <1>3
        <4> QED
          BY <1>3, <2>1, <4>1
      <3>3. t = <<>> <=> Len(t) = 0
        BY <2>1, EmptySeq
      <3> QED
        BY <1>2, <2>3, <3>1, <3>2, <3>3 DEF CatBuffers
    <2>6. UartRoom'
      BY <1>1, <1>3, <1>5, <1>9 DEF Inv, UartRoom
    <2>7. NothingLost'
      <3> DEFINE a == Ahead(pipe, PIPESIZE)
                 l == buf["left"]
      <3>1. sent = ((out \o b) \o a) \o l
        BY <1>2 DEF Inv, NothingLost, b
      <3>2. NothingLost' <=> sent = ((out' \o t) \o a) \o l
        BY <1>1, <1>2, <2>3 DEF NothingLost, Proc
      <3> HIDE DEF l, a
      <3>3. (out \o <<h>>) \o t = out \o (<<h>> \o t)
        BY <1>3, <2>1, Joined, ZenonT(30)
      <3> QED
        BY <2>1, <2>2, <3>1, <3>2, <3>3
    <2> QED
      BY <1>4, <1>6, <1>7, <2>4, <2>5, <2>6, <2>7 DEF Inv
  <1> QED
    BY <1>1, <1>8, <1>9

-----------------------------------------------------------------------------
(* Every step.                                                              *)

LEMMA StepInv == Inv /\ Next => Inv'
  <1> SUFFICES ASSUME Inv, Next PROVE Inv'
    OBVIOUS
  <1>1. ASSUME NEW p \in Proc, Step(p) PROVE Inv'
    BY <1>1, CloseInv, DupInv, ExitInv, ReadConsInv, ReadPipeInv, WritePipeInv, WriteConsInv DEF Step
  <1>2. ASSUME NEW p \in Proc, Kill(p) PROVE Inv'
    BY <1>2, KillInv
  <1>3. CASE Shell
    BY <1>3, PipeInv, ForkInv, WaitInv DEF Shell
  <1>4. CASE Handler \/ Sent \/ Type
    BY <1>4, HandlerInv, OutsideInv
  <1> QED
    BY <1>1, <1>2, <1>3, <1>4 DEF Next

LEMMA NextInv == Inv /\ [Next]_vars => Inv'
  <1>1. Inv /\ UNCHANGED vars => Inv'
    BY DEF Inv, Types, Progress, CatBuffers, UartRoom, NoLostWakeup, NothingLost,
           vars, fileVars, procVars, ttyVars, userVars, histVars
  <1> QED
    BY <1>1, StepInv

LEMMA AlwaysInv == Spec => []Inv
  BY InitInv, NextInv, PTL DEF Spec

LEMMA InvIsEnough == Inv => PipelineConsistent
  <1> SUFFICES ASSUME Inv PROVE PipelineConsistent
    OBVIOUS
  <1>1. TypeOK
    BY DEF Inv, Types, CatBuffers, TypeOK, ConsType, PipeType, Counter, FdType, States
  <1>2. EndsMatchFds
    BY DEF Inv, Counted, Refs, Flags, EndsMatchFds
  <1>3. NoOverrun
    <2>1. \A n \in Nat : n <= 2 => n <= TXFIFO
      BY PipelineAssumption
    <2> QED
      BY <2>1 DEF Inv, Types, UartRoom, NoOverrun
  <1> QED
    BY <1>1, <1>2, <1>3 DEF Inv, PipelineConsistent
-----------------------------------------------------------------------------
(* The theorems.                                                            *)

\* In every run, whatever the sizes: types, a count of every descriptor that
\* refers to a pipe's end, no overrun of the uart, and nobody asleep on what is
\* there (fork, dup, close, exit, kill, consoleread, piperead, pipewrite,
\* uartwrite, uartintr).
THEOREM PipelineIsConsistent == Spec => []PipelineConsistent
  BY AlwaysInv, InvIsEnough, PTL

\* What the left cat has read is what the right one has written, what it is
\* about to write, what is in the pipe and what the left one has still to write,
\* in this order and each byte once, also when a writer is killed between two
\* bytes (consoleread, pipewrite, piperead, uartwrite).
THEOREM NothingIsLost == Spec => []NothingLost
  <1>1. Inv => NothingLost
    BY DEF Inv
  <1> QED
    BY <1>1, AlwaysInv, PTL

LEMMA Extends ==
  ASSUME NEW x \in Seq(Key), NEW y \in Seq(Key)
  PROVE  IsPrefix(x, x \o y)
  <1> DEFINE n == Len(x)
  <1>1. n \in Nat /\ Len(y) \in Nat /\ Len(x \o y) = n + Len(y) /\ x \o y \in Seq(Key)
    BY LenProperties, ConcatProperties
  <1>2. n <= Len(x \o y)
    BY <1>1
  <1>3. SubSeq(x, 1, n) = SubSeq(x \o y, 1, n)
    <2>1. CASE n = 0
      BY <2>1, SubSeqEmpty
    <2>2. CASE n # 0
      <3>1. 1 \in 1..n /\ n \in 1..n
        BY <1>1, <2>2
      <3> QED
        BY <3>1, SubSeqOfConcat1, Zenon
    <2> QED
      BY <2>1, <2>2
  <1> QED
    BY <1>2, <1>3 DEF IsPrefix

LEMMA StreamStep ==
  ASSUME Inv, Inv', Next
  PROVE  Stream!Send \/ Stream!Deliver \/ UNCHANGED <<sent, out>>
  <1>1. ASSUME NEW p \in Proc, ReadCons(p)
        PROVE  Stream!Send
    <2> DEFINE c == Copied(Taken(cons, CHUNK - Len(buf[p])))
    <2>1. sent' = sent \o c /\ out' = out
      BY <1>1 DEF ReadCons
    <2>2. c \in Seq(Key)
      <3>1. ~writing[p] /\ cons \in ConsType /\ buf[p] \in Seq(Key) /\ Len(buf[p]) < CHUNK
        BY <1>1 DEF ReadCons, Inv, Types, CatBuffers
      <3>2. CHUNK - Len(buf[p]) \in Nat \ {0} /\ Len(buf[p]) + (CHUNK - Len(buf[p])) = CHUNK
        <4>1. Len(buf[p]) \in Nat /\ CHUNK \in Nat
          BY <3>1, LenProperties, PipelineAssumption
        <4> QED
          BY <3>1, <4>1
      <3> QED
        BY <3>1, <3>2, TakenFacts
    <2> HIDE DEF c
    <2>3. IsPrefix(sent, sent')
      BY <2>1, <2>2, Extends DEF Inv, Types
    <2> QED
      BY <2>1, <2>3 DEF Stream!Send, Stream!IsPrefix, IsPrefix
  <1>2. ASSUME NEW p \in Proc, WriteCons(p)
        PROVE  Stream!Deliver \/ UNCHANGED <<sent, out>>
    <2>1. sent' = sent
      BY <1>2 DEF WriteCons
    <2>2. CASE out' = out
      BY <2>1, <2>2
    <2>3. CASE out' # out
      <3>1. out' = Append(out, Head(buf[p])) /\ writing[p] /\ buf[p] \in Seq(Key) /\ buf[p] # <<>>
        BY <1>2, <2>3 DEF WriteCons, Inv, Types, CatBuffers
      <3>2. out \in Seq(Key) /\ Head(buf[p]) \in Key
        BY <3>1, HeadTailProperties DEF Inv, Types
      <3>3. <<Head(buf[p])>> \in Seq(Key) /\ out' = out \o <<Head(buf[p])>>
        BY <3>1, <3>2, AppendIsConcat
      <3>4. IsPrefix(out, out')
        BY <3>2, <3>3, Extends
      <3> DEFINE x == out'
                 b == buf'["right"]
                 a == Ahead(pipe', PIPESIZE)
                 l == buf'["left"]
      <3>5. x \in Seq(Key) /\ b \in Seq(Key) /\ l \in Seq(Key)
        BY DEF Inv, Types, Proc
      <3>6. a \in Seq(Key)
        <4>1. pipe' \in PipeType /\ Queued(pipe') <= PIPESIZE
          BY DEF Inv, Types
        <4> QED
          BY <4>1, TakeFromRing, RingAssumption
      <3>7. sent' = ((x \o b) \o a) \o l
        BY DEF Inv, NothingLost
      <3> HIDE DEF x, b, a, l
      <3>8. (x \o b) \in Seq(Key) /\ a \o l \in Seq(Key)
        BY <3>5, <3>6, ConcatProperties
      <3>9. /\ ((x \o b) \o a) \o l = (x \o b) \o (a \o l)
            /\ (x \o b) \o (a \o l) = x \o (b \o (a \o l))
        <4>1. ((x \o b) \o a) \o l = (x \o b) \o (a \o l)
          <5> DEFINE y == x \o b
          <5>1. y \in Seq(Key) /\ a \in Seq(Key) /\ l \in Seq(Key)
            BY <3>5, <3>6, <3>8
          <5> HIDE DEF y
          <5>2. (y \o a) \o l = y \o (a \o l)
            BY <5>1, Joined, Zenon
          <5> QED
            BY <5>2 DEF y
        <4>2. (x \o b) \o (a \o l) = x \o (b \o (a \o l))
          BY <3>5, <3>8, Joined, ZenonT(30)
        <4> QED
          BY <4>1, <4>2
      <3>10. b \o (a \o l) \in Seq(Key)
        BY <3>5, <3>8, ConcatProperties
      <3>11. IsPrefix(x, sent')
        BY <3>5, <3>7, <3>9, <3>10, Extends
      <3> QED
        BY <2>1, <3>4, <3>11 DEF Stream!Deliver, Stream!IsPrefix, IsPrefix, x
    <2> QED
      BY <2>2, <2>3
  <1>3. ASSUME NEW p \in Proc,
               Close(p) \/ Dup(p) \/ Exit(p) \/ ReadPipe(p) \/ WritePipe(p) \/ Kill(p)
        PROVE  UNCHANGED <<sent, out>>
    BY <1>3 DEF Close, Dup, Exit, ReadPipe, WritePipe, Kill, histVars
  <1>4. CASE Shell
    BY <1>4 DEF Shell, Pipe, Fork, Wait, histVars
  <1>5. CASE Handler \/ Sent \/ Type
    BY <1>5 DEF Handler, Ack, TxDone, GetC, EchoWaits, EchoPuts, Sent, Type, histVars
  <1> QED
    BY <1>1, <1>2, <1>3, <1>4, <1>5 DEF Next, Step

\* "cat | cat" is a stream from the console to the console: what leaves the
\* right cat is always a longer and longer beginning of what the left one has
\* read (user/sh.c, cat.c, kernel/pipe.c, console.c, uart.c).
THEOREM StreamIsImplemented == Spec => ImplementsStream
  <1>1. Init => Stream!Init
    BY DEF Init, Stream!Init
  <1>2. Inv /\ Inv' /\ [Next]_vars => [Stream!Send \/ Stream!Deliver]_Stream!streamVars
    <2>1. UNCHANGED vars => UNCHANGED <<sent, out>>
      BY DEF vars, histVars
    <2> QED
      BY <2>1, StreamStep DEF Stream!streamVars
  <1> QED
    BY <1>1, <1>2, AlwaysInv, PTL DEF Spec, ImplementsStream, Stream!Spec
-----------------------------------------------------------------------------
(* The line discipline is exact.                                            *)

\* The ring as it will be when the handler has echoed.
Pending == IF handler[1] \in {"echo", "put"} THEN Typed(cons, handler[2]) ELSE cons

TextInv == taken \in Seq(Key) /\ LineRing(cons) /\ text = Text(Pending, taken)

LEMMA InitText == Init => TextInv
  <1> SUFFICES ASSUME Init PROVE TextInv
    OBVIOUS
  <1>1. cons = NoInput /\ text = <<<<>>, <<>>>> /\ taken = <<>> /\ Pending = cons
    BY DEF Init, Pending
  <1>2. Minus(cons.w, cons.r) = 0 /\ Minus(cons.e, cons.w) = 0
    BY <1>1, RingAssumption DEF NoInput, Minus
  <1>3. Ready(cons) = <<>> /\ Line(cons) = <<>>
    BY <1>2 DEF Ready, Line, Entries
  <1>4. LineRing(cons)
    BY <1>2, RingAssumption DEF LineRing
  <1> QED
    BY <1>1, <1>3, <1>4 DEF TextInv, Text

LEMMA ReadConsText ==
  ASSUME Inv, TextInv, NEW p \in Proc, ReadCons(p)
  PROVE  TextInv'
  <1> DEFINE n == CHUNK - Len(buf[p])
             s == Taken(cons, n)
             k == Consumed(s, Len(buf[p]))
  <1>1. /\ ~writing[p] /\ handler[1] \notin {"echo", "put"}
        /\ cons' = [cons EXCEPT !.r = Add(@, k)] /\ taken' = taken \o SubSeq(s, 1, k)
        /\ text' = text /\ handler' = handler
    BY DEF ReadCons, ttyVars
  <1>2. cons \in ConsType /\ taken \in Seq(Key) /\ LineRing(cons) /\ text = Text(cons, taken)
    BY <1>1 DEF Inv, Types, TextInv, Pending
  <1>3. n \in Nat \ {0} /\ buf[p] \in Seq(Key) /\ Len(buf[p]) + n = CHUNK
    <2>1. buf[p] \in Seq(Key) /\ Len(buf[p]) < CHUNK
      BY <1>1 DEF Inv, Types, CatBuffers
    <2>2. Len(buf[p]) \in Nat /\ CHUNK \in Nat
      BY <2>1, LenProperties, PipelineAssumption
    <2> QED
      BY <2>1, <2>2
  <1> HIDE DEF n
  <1>4. k \in 0..Minus(cons.w, cons.r) /\ SubSeq(s, 1, k) = SubSeq(Ready(cons), 1, k)
    BY <1>2, <1>3, TakenFacts
  <1> HIDE DEF s, k
  <1>5. /\ LineRing(cons') /\ taken' \in Seq(Key)
        /\ Text(cons', taken') = Text(cons, taken)
    BY <1>1, <1>2, <1>4, TakenIsReady, ZenonT(30)
  <1> QED
    BY <1>1, <1>2, <1>5 DEF TextInv, Pending

LEMMA HandlerText ==
  ASSUME Inv, TextInv, Handler
  PROVE  TextInv'
  <1>0. /\ cons \in ConsType /\ rx \in Seq(Key) /\ taken \in Seq(Key) /\ LineRing(cons)
        /\ text = Text(Pending, taken)
        /\ handler \in {<<"idle">>, <<"tx">>, <<"rx">>} \cup ({"echo", "put"} \X Key)
    BY DEF Inv, Types, TextInv
  <1>1. CASE Ack \/ TxDone
    <2>1. /\ handler \in {<<"idle">>, <<"tx">>} /\ handler' \in {<<"tx">>, <<"rx">>}
          /\ cons' = cons /\ taken' = taken /\ text' = text
      BY <1>1 DEF Ack, TxDone, histVars
    <2>2. handler[1] \notin {"echo", "put"} /\ handler'[1] \notin {"echo", "put"}
      BY <2>1
    <2> QED
      BY <1>0, <2>1, <2>2 DEF TextInv, Pending
  <1>2. CASE GetC
    <2>1. /\ handler = <<"rx">> /\ cons' = cons /\ taken' = taken
          /\ \/ rx = <<>> /\ handler' = <<"idle">> /\ text' = text
             \/ /\ rx # <<>> /\ text' = Edited(text, Head(rx), Len(taken))
                /\ handler' = IF Echoes(cons, Head(rx)) THEN <<"echo", Head(rx)>> ELSE <<"rx">>
      BY <1>2 DEF GetC
    <2>2. text = Text(cons, taken)
      BY <1>0, <2>1 DEF Pending
    <2>3. CASE rx = <<>>
      BY <1>0, <2>1, <2>2, <2>3 DEF TextInv, Pending
    <2>4. CASE rx # <<>>
      <3> DEFINE ch == Head(rx)
      <3>1. ch \in Key
        BY <1>0, <2>4, HeadTailProperties
      <3> HIDE DEF ch
      <3>2. text' = Text(Typed(cons, ch), taken)
        BY <1>0, <2>1, <2>2, <2>4, <3>1, TypedIsEdited DEF ch
      <3>3. Pending' = Typed(cons, ch)
        <4>1. CASE Echoes(cons, ch)
          <5>1. handler' = <<"echo", ch>>
            BY <2>1, <2>4, <4>1 DEF ch
          <5> QED
            BY <2>1, <5>1 DEF Pending
        <4>2. CASE ~Echoes(cons, ch)
          <5>1. handler' = <<"rx">>
            BY <2>1, <2>4, <4>2 DEF ch
          <5> QED
            BY <2>1, <4>2, <5>1 DEF Pending, Typed
        <4> QED
          BY <4>1, <4>2
      <3> QED
        BY <1>0, <2>1, <3>2, <3>3 DEF TextInv
    <2> QED
      BY <2>3, <2>4
  <1>3. CASE EchoWaits
    <2>1. handler \in {"echo", "put"} \X Key
      BY <1>0, <1>3 DEF EchoWaits
    <2>2. handler' = <<"put", handler[2]>> /\ handler[1] = "echo"
      BY <1>3 DEF EchoWaits
    <2>3. cons' = cons /\ taken' = taken /\ text' = text
      BY <1>3 DEF EchoWaits, histVars
    <2>4. Pending' = Pending
      BY <2>1, <2>2, <2>3 DEF Pending
    <2> QED
      BY <1>0, <2>3, <2>4 DEF TextInv
  <1>4. CASE EchoPuts
    <2>1. handler \in {"echo", "put"} \X Key
      BY <1>0, <1>4 DEF EchoPuts
    <2>2. /\ handler[1] = "put" /\ handler[2] \in Key /\ cons' = Typed(cons, handler[2])
          /\ handler' = <<"rx">> /\ taken' = taken /\ text' = text
      BY <1>4, <2>1 DEF EchoPuts, histVars
    <2>3. Pending' = cons' /\ Pending = cons'
      BY <2>2 DEF Pending
    <2>4. LineRing(cons')
      BY <1>0, <2>2, TypedIsEdited
    <2> QED
      BY <1>0, <2>2, <2>3, <2>4 DEF TextInv
  <1> QED
    BY <1>1, <1>2, <1>3, <1>4 DEF Handler

LEMMA NextText == Inv /\ TextInv /\ [Next]_vars => TextInv'
  <1> SUFFICES ASSUME Inv, TextInv, [Next]_vars PROVE TextInv'
    OBVIOUS
  <1>1. ASSUME UNCHANGED <<cons, handler, taken, text>> PROVE TextInv'
    BY <1>1 DEF TextInv, Pending
  <1>2. ASSUME NEW p \in Proc,
               \/ Close(p) \/ Dup(p) \/ Exit(p) \/ ReadPipe(p) \/ WritePipe(p) \/ WriteCons(p) \/ Kill(p)
        PROVE  UNCHANGED <<cons, handler, taken, text>>
    BY <1>2 DEF Close, Dup, Exit, ReadPipe, WritePipe, WriteCons, Kill, histVars, ttyVars
  <1>3. CASE Shell \/ Sent \/ Type
    BY <1>1, <1>3 DEF Shell, Pipe, Fork, Wait, Sent, Type, histVars, ttyVars
  <1>4. CASE UNCHANGED vars
    BY <1>1, <1>4 DEF vars, histVars, ttyVars
  <1> QED
    BY <1>1, <1>2, <1>3, <1>4, ReadConsText, HandlerText DEF Next, Step

\* Whatever is typed, at whatever speed, into a ring of whatever size: what has
\* been read, what may be read and the line being edited are what the same keys
\* make of a line without a buffer, so that no key is lost, doubled or put into
\* another line when the counters wrap, the ring is full, or a reader comes while
\* the handler echoes (consoleintr, consoleread).
THEOREM LineDisciplineIsExact == Spec => []LineDisciplineExact
  <1>1. TextInv => LineDisciplineExact
    BY DEF TextInv, Text, Pending, LineDisciplineExact
  <1> QED
    BY <1>1, InitText, NextText, AlwaysInv, PTL DEF Spec
=============================================================================
