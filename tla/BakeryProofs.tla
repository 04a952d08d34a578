---------------------------- MODULE BakeryProofs ----------------------------
(***************************************************************************)
(* First come, first served and the balance of the bakery's resources, for *)
(* every number of customers, chefs, ovens and seats and every input.      *)
(*                                                                         *)
(* No queue is sorted by the code: customers stay in order because each    *)
(* stage is entered in order (Queues) at times that are in order (Times),  *)
(* so that whoever may go on is preceded by those who may go on too.       *)
(***************************************************************************)
EXTENDS Bakery, SequenceTheorems, FiniteSetTheorems, WellFoundedInduction, TLAPS

StageSet == {"outside", "refused", "standing", "seated", "requested", "baking", "paying",
             "accepted", "gone"}
OnSofa == {"seated", "requested", "baking", "paying", "accepted"}
Entry == [cust : Customer, chef : Chef, end : Int]

Types ==
  /\ arrival \in [Customer -> Nat] /\ arrival_idx \in 1..(N + 1) /\ current_time \in Nat
  /\ step \in {"arrive", "finishaccept", "finishbake", "sit", "request", "accept", "bake", "stopped"}
  /\ stage \in [Customer -> StageSet]
  /\ t_sat \in [Customer -> Int] /\ t_request \in [Customer -> Int]
  /\ t_pay_time \in [Customer -> Int]
  /\ baking \in Seq(Entry) /\ accepting \in Seq(Entry) /\ Len(accepting) <= 1
  /\ chef_free \in SUBSET Chef /\ ovens_available \in Int /\ people_inside \in Int
  /\ last_seat_freed_time \in Int

\* A queue lists the customers of some stages, each once, in the order they came.
Increasing(q) == \A i, j \in DOMAIN q : i < j => q[i] < q[j]
In(q, c) == \E i \in DOMAIN q : q[i] = c
Lists(q, st, stages) ==
  /\ q \in Seq(Customer) /\ Increasing(q)
  /\ \A c \in Customer : st[c] \in stages <=> In(q, c)

CustsOf(tasks) == [i \in DOMAIN tasks |-> tasks[i].cust]

Queues ==
  /\ Lists(standing_q, stage, {"standing"}) /\ Lists(sofa_q, stage, OnSofa)
  /\ Lists(accept_ready_q, stage, {"paying"})
  /\ Lists(CustsOf(baking), stage, {"baking"}) /\ Lists(CustsOf(accepting), stage, {"accepted"})
  /\ \A c \in Customer : stage[c] = "outside" <=> c >= arrival_idx

\* Who came first sat, asked and paid first.
Times ==
  /\ \A c \in Customer : /\ t_sat[c] <= current_time /\ t_request[c] <= current_time
                         /\ t_pay_time[c] <= current_time
  /\ \A c, d \in Customer : c < d =>
       /\ stage[c] = "seated" /\ stage[d] = "seated" => t_sat[c] <= t_sat[d]
       /\ stage[c] = "requested" /\ stage[d] = "requested" => t_request[c] <= t_request[d]
       /\ stage[c] = "paying" /\ stage[d] = "paying" => t_pay_time[c] <= t_pay_time[d]
  /\ \A i, j \in DOMAIN baking : i < j => baking[i].end <= baking[j].end
  /\ \A i \in DOMAIN baking : /\ current_time <= baking[i].end
                              /\ baking[i].end <= current_time + T_CHEF_ACTION
                              /\ step \in {"sit", "request", "accept", "bake"}
                                   => current_time < baking[i].end

\* Tasks have chefs of their own; the others are free.
Chefs ==
  /\ \A i, j \in DOMAIN baking : baking[i].chef = baking[j].chef => i = j
  /\ \A i \in DOMAIN baking, j \in DOMAIN accepting : baking[i].chef # accepting[j].chef
  /\ chef_free = Chef \ (ChefsOf(baking) \cup ChefsOf(accepting))

Counts ==
  /\ ovens_available + Len(baking) = NUM_OVENS
  /\ people_inside = Len(standing_q) + Len(sofa_q)
  /\ people_inside <= MAX_CAPACITY /\ Len(sofa_q) <= SOFA_CAPACITY

\* schedule_accepts has left no one waiting for a free register and a free chef.
PaymentTaken ==
  step = "bake" /\ accepting = <<>> /\ chef_free # {} /\ accept_ready_q # <<>>
    => current_time < t_pay_time[Head(accept_ready_q)] + T_CUSTOMER_ACTION

Inv == Types /\ Queues /\ Times /\ Chefs /\ Counts /\ NoOvertaking /\ PaymentTaken
-----------------------------------------------------------------------------
(* Least elements, and sequences with an element taken out.                 *)

\* get_free_chef and the loops over baking[] and the sofa take the first.
LEMMA Least ==
  ASSUME NEW S \in SUBSET Nat, S # {}
  PROVE  Min(S) \in S /\ \A x \in S : Min(S) <= x
  <1> DEFINE R == OpToRel(<, Nat)
  <1>1. IsWellFoundedOn(R, Nat)
    BY NatLessThanWellFounded
  <1>2. \A x, y \in Nat : <<x, y>> \in R <=> x < y
    BY DEF OpToRel
  <1> HIDE DEF R
  <1>3. PICK x \in S : \A y \in S : ~(<<y, x>> \in R)
    BY <1>1, WFMin
  <1>4. ASSUME NEW y \in S PROVE x <= y
    <2>1. x \in Nat /\ y \in Nat
      OBVIOUS
    <2>2. ~(y < x)
      BY <1>2, <1>3, <2>1
    <2> QED
      BY <2>1, <2>2
  <1> QED
    BY <1>4 DEF Min

\* Taking an element out of the middle of the sofa or of baking[].
LEMMA RemoveFacts ==
  ASSUME NEW S, NEW s \in Seq(S), NEW k \in DOMAIN s
  PROVE  LET t == RemoveAt(s, k) IN
         /\ t \in Seq(S) /\ Len(t) = Len(s) - 1 /\ DOMAIN t = 1..(Len(s) - 1)
         /\ \A i \in DOMAIN t : t[i] = IF i < k THEN s[i] ELSE s[i + 1]
         /\ \A j \in DOMAIN s : j # k => \E i \in DOMAIN t : t[i] = s[j]
  <1> DEFINE a == SubSeq(s, 1, k - 1)
             b == SubSeq(s, k + 1, Len(s))
             t == a \o b
  <1>0. Len(s) \in Nat /\ k \in 1..Len(s) /\ \A i \in 1..Len(s) : s[i] \in S
    BY LenProperties, ElementOfSeq
  <1>1. a \in Seq(S) /\ Len(a) = k - 1 /\ \A i \in 1..(k - 1) : a[i] = s[i]
    <2>1. 1 \in Int /\ k - 1 \in Int /\ \A i \in 1..(k - 1) : s[i] \in S
      BY <1>0
    <2>2. /\ a \in Seq(S) /\ Len(a) = IF 1 <= k - 1 THEN k - 1 - 1 + 1 ELSE 0
          /\ \A i \in 1..(k - 1 - 1 + 1) : a[i] = s[1 + i - 1]
      BY <2>1, SubSeqProperties
    <2> QED
      BY <2>1, <2>2, <1>0
  <1>2. b \in Seq(S) /\ Len(b) = Len(s) - k /\ \A i \in 1..(Len(s) - k) : b[i] = s[k + i]
    <2>1. k + 1 \in Int /\ Len(s) \in Int /\ \A i \in (k + 1)..Len(s) : s[i] \in S
      BY <1>0
    <2>2. /\ b \in Seq(S)
          /\ Len(b) = IF k + 1 <= Len(s) THEN Len(s) - (k + 1) + 1 ELSE 0
          /\ \A i \in 1..(Len(s) - (k + 1) + 1) : b[i] = s[k + 1 + i - 1]
      BY <2>1, SubSeqProperties
    <2> QED
      BY <2>1, <2>2, <1>0
  <1> HIDE DEF a, b
  <1>3. /\ t \in Seq(S) /\ Len(t) = Len(a) + Len(b)
        /\ \A i \in 1..(Len(a) + Len(b)) :
             t[i] = IF i <= Len(a) THEN a[i] ELSE b[i - Len(a)]
    BY <1>1, <1>2, ConcatProperties, Zenon
  <1> HIDE DEF t
  <1>4. Len(t) = Len(s) - 1 /\ DOMAIN t = 1..(Len(s) - 1)
    BY <1>0, <1>1, <1>2, <1>3
  <1>5. ASSUME NEW i \in DOMAIN t
        PROVE  t[i] = IF i < k THEN s[i] ELSE s[i + 1]
    <2>1. CASE i < k
      BY <2>1, <1>0, <1>1, <1>3, <1>4
    <2>2. CASE ~(i < k)
      <3>1. i - (k - 1) \in 1..(Len(s) - k) /\ k + (i - (k - 1)) = i + 1
        BY <2>2, <1>0, <1>4
      <3>2. t[i] = b[i - (k - 1)]
        BY <2>2, <1>0, <1>1, <1>3, <1>4
      <3>3. b[i - (k - 1)] = s[k + (i - (k - 1))]
        BY <3>1, <1>2
      <3> QED
        BY <2>2, <3>1, <3>2, <3>3
    <2> QED
      BY <2>1, <2>2
  <1>6. ASSUME NEW j \in DOMAIN s, j # k
        PROVE  \E i \in DOMAIN t : t[i] = s[j]
    <2>1. CASE j < k
      <3>1. j \in DOMAIN t
        BY <2>1, <1>0, <1>4
      <3> QED
        BY <2>1, <3>1, <1>5
    <2>2. CASE ~(j < k)
      <3>1. j - 1 \in DOMAIN t /\ ~(j - 1 < k) /\ (j - 1) + 1 = j
        BY <2>2, <1>6, <1>0, <1>4
      <3> QED
        BY <3>1, <1>5
    <2> QED
      BY <2>1, <2>2
  <1>7. RemoveAt(s, k) = t
    BY DEF RemoveAt, t, a, b
  <1> QED
    BY <1>3, <1>4, <1>5, <1>6, <1>7

\* q_push, and a new entry of baking[].
LEMMA AppendFacts ==
  ASSUME NEW S, NEW s \in Seq(S), NEW x \in S
  PROVE  LET t == Append(s, x) IN
         /\ t \in Seq(S) /\ Len(t) = Len(s) + 1 /\ DOMAIN t = 1..(Len(s) + 1)
         /\ \A i \in DOMAIN s : i \in DOMAIN t /\ t[i] = s[i]
         /\ t[Len(s) + 1] = x
         /\ \A i \in DOMAIN t : i \in DOMAIN s \/ i = Len(s) + 1
  OBVIOUS

\* q_pop.
LEMMA TailFacts ==
  ASSUME NEW S, NEW s \in Seq(S), s # <<>>
  PROVE  LET t == Tail(s) IN
         /\ t \in Seq(S) /\ Len(t) = Len(s) - 1 /\ DOMAIN t = 1..(Len(s) - 1)
         /\ \A i \in DOMAIN t : i + 1 \in DOMAIN s /\ t[i] = s[i + 1]
         /\ Head(s) \in S /\ Head(s) = s[1] /\ 1 \in DOMAIN s
         /\ \A i \in DOMAIN s : i # 1 => i - 1 \in DOMAIN t /\ t[i - 1] = s[i]
  <1>1. /\ Tail(s) \in Seq(S) /\ Len(Tail(s)) = Len(s) - 1 /\ Len(s) \in Nat /\ Len(s) # 0
        /\ \A i \in 1..(Len(s) - 1) : Tail(s)[i] = s[i + 1]
        /\ Head(s) \in S /\ Head(s) = s[1] /\ DOMAIN s = 1..Len(s)
    OBVIOUS
  <1>2. DOMAIN Tail(s) = 1..(Len(s) - 1)
    BY <1>1
  <1> QED
    BY <1>1, <1>2
-----------------------------------------------------------------------------
(* What a queue lists after a change.                                       *)

\* An increasing queue that a later customer joins.
LEMMA QueueAppend ==
  ASSUME NEW q \in Seq(Customer), Increasing(q), NEW c \in Customer,
         \A d \in Customer : In(q, d) => d < c
  PROVE  LET t == Append(q, c) IN
         /\ t \in Seq(Customer) /\ Increasing(t) /\ Len(t) = Len(q) + 1
         /\ \A d \in Customer : In(t, d) <=> In(q, d) \/ d = c
  <1>1. Len(q) \in Nat /\ DOMAIN q = 1..Len(q) /\ \A i \in DOMAIN q : q[i] \in Customer
    OBVIOUS
  <1>2. \A i \in DOMAIN q : q[i] < c
    BY <1>1 DEF In
  <1> QED
    BY <1>1, <1>2, AppendFacts DEF Increasing, In

\* ... that its first customer leaves.
LEMMA QueueTail ==
  ASSUME NEW q \in Seq(Customer), Increasing(q), q # <<>>
  PROVE  /\ Tail(q) \in Seq(Customer) /\ Increasing(Tail(q)) /\ Len(Tail(q)) = Len(q) - 1
         /\ Head(q) \in Customer /\ In(q, Head(q))
         /\ \A d \in Customer : In(Tail(q), d) <=> In(q, d) /\ d # Head(q)
         /\ \A d \in Customer : In(q, d) => Head(q) <= d
  <1>1. Len(q) \in Nat /\ DOMAIN q = 1..Len(q) /\ \A i \in DOMAIN q : q[i] \in Customer
    OBVIOUS
  <1>2. Increasing(Tail(q))
    BY <1>1, TailFacts DEF Increasing
  <1>3. ASSUME NEW i \in DOMAIN q PROVE i # 1 => q[1] < q[i]
    BY <1>1, TailFacts DEF Increasing
  <1>4. \A d \in Customer : In(q, d) => Head(q) <= d
    BY <1>1, <1>3, TailFacts DEF In, Customer
  <1>5. ASSUME NEW d \in Customer PROVE In(Tail(q), d) <=> In(q, d) /\ d # Head(q)
    <2>1. \A i \in DOMAIN q : i # 1 => q[i] # Head(q)
      BY <1>1, <1>3, TailFacts DEF Customer
    <2>2. \A i \in DOMAIN Tail(q) : i + 1 \in DOMAIN q /\ i + 1 # 1 /\ Tail(q)[i] = q[i + 1]
      BY <1>1, TailFacts
    <2>3. \A i \in DOMAIN q : i # 1 => i - 1 \in DOMAIN Tail(q) /\ Tail(q)[i - 1] = q[i]
      BY TailFacts
    <2>4. Head(q) = q[1]
      BY TailFacts
    <2>5. In(Tail(q), d) => In(q, d) /\ d # Head(q)
      BY <2>1, <2>2 DEF In
    <2>6. In(q, d) /\ d # Head(q) => In(Tail(q), d)
      BY <2>3, <2>4 DEF In
    <2> QED
      BY <2>5, <2>6
  <1> QED
    BY <1>1, <1>2, <1>4, <1>5, TailFacts DEF In

\* ... that a customer in the middle leaves.
LEMMA QueueRemove ==
  ASSUME NEW q \in Seq(Customer), Increasing(q), NEW k \in DOMAIN q
  PROVE  LET t == RemoveAt(q, k) IN
         /\ t \in Seq(Customer) /\ Increasing(t) /\ Len(t) = Len(q) - 1
         /\ \A d \in Customer : In(t, d) <=> In(q, d) /\ d # q[k]
  <1>1. Len(q) \in Nat /\ DOMAIN q = 1..Len(q) /\ \A i \in DOMAIN q : q[i] \in Customer
    OBVIOUS
  <1> DEFINE t == RemoveAt(q, k)
             o(i) == IF i < k THEN i ELSE i + 1
  <1>2. /\ t \in Seq(Customer) /\ Len(t) = Len(q) - 1 /\ DOMAIN t = 1..(Len(q) - 1)
        /\ \A i \in DOMAIN t : t[i] = IF i < k THEN q[i] ELSE q[i + 1]
        /\ \A j \in DOMAIN q : j # k => \E i \in DOMAIN t : t[i] = q[j]
    BY RemoveFacts
  <1> HIDE DEF t
  <1>3. \A i \in DOMAIN t : t[i] = q[o(i)] /\ o(i) \in DOMAIN q /\ o(i) # k
    BY <1>1, <1>2
  <1>4. \A i, j \in DOMAIN t : i < j => o(i) < o(j)
    BY <1>1, <1>2
  <1> HIDE DEF o
  <1>5. Increasing(t)
    BY <1>3, <1>4 DEF Increasing
  <1>6. \A j \in DOMAIN q : j # k => q[j] # q[k]
    BY <1>1 DEF Increasing, Customer
  <1>7. ASSUME NEW d \in Customer PROVE In(t, d) <=> In(q, d) /\ d # q[k]
    BY <1>2, <1>3, <1>6, <1>7, ZenonT(30) DEF In
  <1> QED
    BY <1>2, <1>5, <1>7 DEF t

-----------------------------------------------------------------------------
(* What the stages and queues are after a customer has moved.               *)

\* A queue that neither the old nor the new stage of a customer belongs to, or both do.
LEMMA ListsKeep ==
  ASSUME NEW q, NEW st \in [Customer -> StageSet], NEW S, Lists(q, st, S),
         NEW c \in Customer, NEW s, st[c] \in S <=> s \in S
  PROVE  Lists(q, [st EXCEPT ![c] = s], S)
  BY DEF Lists

\* ... that the customer joins.
LEMMA ListsAppend ==
  ASSUME NEW q, NEW st \in [Customer -> StageSet], NEW S, Lists(q, st, S),
         NEW c \in Customer, NEW s \in S, \A d \in Customer : st[d] \in S => d < c
  PROVE  /\ Lists(Append(q, c), [st EXCEPT ![c] = s], S)
         /\ Len(Append(q, c)) = Len(q) + 1
  <1>1. \A d \in Customer : In(q, d) => d < c
    BY DEF Lists
  <1>2. /\ Append(q, c) \in Seq(Customer) /\ Increasing(Append(q, c))
        /\ Len(Append(q, c)) = Len(q) + 1
        /\ \A d \in Customer : In(Append(q, c), d) <=> In(q, d) \/ d = c
    BY <1>1, QueueAppend DEF Lists
  <1> QED
    BY <1>2 DEF Lists

\* ... whose first customer goes on.
LEMMA ListsTail ==
  ASSUME NEW q, NEW st \in [Customer -> StageSet], NEW S, Lists(q, st, S), q # <<>>,
         NEW s, s \notin S
  PROVE  /\ Lists(Tail(q), [st EXCEPT ![Head(q)] = s], S) /\ Len(Tail(q)) = Len(q) - 1
         /\ Head(q) \in Customer /\ st[Head(q)] \in S
         /\ \A d \in Customer : st[d] \in S => Head(q) <= d
  <1>1. /\ Tail(q) \in Seq(Customer) /\ Increasing(Tail(q)) /\ Len(Tail(q)) = Len(q) - 1
        /\ Head(q) \in Customer /\ In(q, Head(q))
        /\ \A d \in Customer : In(Tail(q), d) <=> In(q, d) /\ d # Head(q)
        /\ \A d \in Customer : In(q, d) => Head(q) <= d
    BY QueueTail DEF Lists
  <1> QED
    BY <1>1 DEF Lists

\* ... that a customer leaves.
LEMMA ListsRemove ==
  ASSUME NEW q, NEW st \in [Customer -> StageSet], NEW S, Lists(q, st, S), NEW k \in DOMAIN q,
         NEW s, s \notin S
  PROVE  /\ Lists(RemoveAt(q, k), [st EXCEPT ![q[k]] = s], S) /\ Len(RemoveAt(q, k)) = Len(q) - 1
         /\ q[k] \in Customer /\ st[q[k]] \in S
  <1>1. /\ RemoveAt(q, k) \in Seq(Customer) /\ Increasing(RemoveAt(q, k))
        /\ Len(RemoveAt(q, k)) = Len(q) - 1
        /\ \A d \in Customer : In(RemoveAt(q, k), d) <=> In(q, d) /\ d # q[k]
    BY QueueRemove DEF Lists
  <1>2. q[k] \in Customer /\ In(q, q[k])
    BY DEF Lists, In
  <1> QED
    BY <1>1, <1>2 DEF Lists

\* The customers of a list of tasks.
LEMMA CustsSeq ==
  ASSUME NEW b \in Seq(Entry)
  PROVE  /\ CustsOf(b) \in Seq(Customer) /\ Len(CustsOf(b)) = Len(b)
         /\ DOMAIN CustsOf(b) = DOMAIN b /\ \A i \in DOMAIN b : CustsOf(b)[i] = b[i].cust
  <1>1. DOMAIN b = 1..Len(b) /\ Len(b) \in Nat /\ \A i \in 1..Len(b) : b[i] \in Entry
    OBVIOUS
  <1>2. \A i \in 1..Len(b) : b[i].cust \in Customer
    BY <1>1 DEF Entry
  <1>3. CustsOf(b) = [i \in 1..Len(b) |-> b[i].cust]
    BY <1>1 DEF CustsOf
  <1>4. CustsOf(b) \in [1..Len(b) -> Customer]
    BY <1>2, <1>3
  <1>5. CustsOf(b) \in Seq(Customer) /\ DOMAIN CustsOf(b) = 1..Len(b)
    BY <1>1, <1>4
  <1>6. Len(CustsOf(b)) = Len(b)
    BY <1>1, <1>5
  <1> QED
    BY <1>1, <1>3, <1>5, <1>6

\* The customers of the tasks, when one starts and when one ends.
LEMMA CustsAppend ==
  ASSUME NEW b \in Seq(Entry), NEW e \in Entry
  PROVE  CustsOf(Append(b, e)) = Append(CustsOf(b), e.cust)
  <1>1. /\ DOMAIN Append(b, e) = 1..(Len(b) + 1) /\ DOMAIN b = 1..Len(b) /\ Len(b) \in Nat
        /\ \A i \in 1..Len(b) : Append(b, e)[i] = b[i]
        /\ Append(b, e)[Len(b) + 1] = e
    OBVIOUS
  <1>2. CustsOf(b) \in Seq(Customer) /\ Len(CustsOf(b)) = Len(b)
    BY CustsSeq
  <1> DEFINE x == CustsOf(Append(b, e))
             y == Append(CustsOf(b), e.cust)
  <1>3. DOMAIN x = 1..(Len(b) + 1) /\ \A i \in 1..(Len(b) + 1) : x[i] = Append(b, e)[i].cust
    BY <1>1 DEF CustsOf
  <1>4. DOMAIN y = 1..(Len(b) + 1) /\ (\A i \in 1..Len(b) : y[i] = b[i].cust) /\ y[Len(b) + 1] = e.cust
    BY <1>1, <1>2 DEF CustsOf
  <1>5. x = [i \in 1..(Len(b) + 1) |-> x[i]] /\ y = [i \in 1..(Len(b) + 1) |-> y[i]]
    <2>1. x = [i \in DOMAIN x |-> x[i]]
      BY DEF CustsOf
    <2>2. y \in Seq(Customer)
      BY <1>2 DEF Entry
    <2> QED
      BY <2>1, <2>2, <1>3, <1>4
  <1>6. \A i \in 1..(Len(b) + 1) : x[i] = y[i]
    BY <1>1, <1>3, <1>4
  <1> HIDE DEF x, y
  <1>7. x = y
    BY <1>5, <1>6
  <1> QED
    BY <1>7 DEF x, y

\* Removing a task removes its customer.
LEMMA CustsRemove ==
  ASSUME NEW b \in Seq(Entry), NEW k \in DOMAIN b
  PROVE  CustsOf(RemoveAt(b, k)) = RemoveAt(CustsOf(b), k)
  <1> DEFINE t == RemoveAt(b, k)
             x == CustsOf(t)
             y == RemoveAt(CustsOf(b), k)
  <1>1. DOMAIN b = 1..Len(b) /\ Len(b) \in Nat
    OBVIOUS
  <1>2. /\ CustsOf(b) \in Seq(Customer) /\ Len(CustsOf(b)) = Len(b) /\ k \in DOMAIN CustsOf(b)
        /\ \A i \in DOMAIN b : CustsOf(b)[i] = b[i].cust
    BY CustsSeq
  <1>3. /\ DOMAIN t = 1..(Len(b) - 1)
        /\ \A i \in DOMAIN t : t[i] = IF i < k THEN b[i] ELSE b[i + 1]
    BY RemoveFacts
  <1>4. /\ y \in Seq(Customer) /\ DOMAIN y = 1..(Len(b) - 1)
        /\ \A i \in DOMAIN y : y[i] = IF i < k THEN CustsOf(b)[i] ELSE CustsOf(b)[i + 1]
    BY <1>2, RemoveFacts
  <1> HIDE DEF t, y
  <1>5. DOMAIN x = 1..(Len(b) - 1) /\ \A i \in 1..(Len(b) - 1) : x[i] = t[i].cust
    BY <1>3 DEF CustsOf
  <1>6. \A i \in 1..(Len(b) - 1) : x[i] = y[i]
    BY <1>1, <1>2, <1>3, <1>4, <1>5
  <1>7. x = [i \in 1..(Len(b) - 1) |-> x[i]]
    BY <1>5 DEF CustsOf
  <1>8. y = [i \in 1..(Len(b) - 1) |-> y[i]]
    BY <1>4
  <1> HIDE DEF x
  <1>9. x = y
    BY <1>6, <1>7, <1>8
  <1> QED
    BY <1>9 DEF x, y, t

\* The stages in their order.
LEMMA Ranks ==
  /\ Rank["standing"] = 1 /\ Rank["seated"] = 2 /\ Rank["requested"] = 3 /\ Rank["baking"] = 4
  /\ Rank["paying"] = 5 /\ Rank["accepted"] = 6 /\ Rank["gone"] = 7
  BY DEF Rank

\* A customer who goes on does not pass anyone if those who came earlier are that far.
InOrder(st) ==
  \A c, d \in Customer : c < d /\ st[c] \notin {"outside", "refused"}
                              /\ st[d] \notin {"outside", "refused"} => Rank[st[c]] >= Rank[st[d]]

LEMMA OrderKept ==
  ASSUME NEW st \in [Customer -> StageSet], InOrder(st), NEW c \in Customer,
         NEW s \in StageSet \ {"outside", "refused"},
         \A d \in Customer : d < c /\ st[d] \notin {"outside", "refused"} => Rank[st[d]] >= Rank[s],
         \/ st[c] \notin {"outside", "refused"} /\ Rank[s] >= Rank[st[c]]
         \/ \A d \in Customer : d > c => st[d] = "outside"
  PROVE  InOrder([st EXCEPT ![c] = s])
  <1> DEFINE new == [st EXCEPT ![c] = s]
  <1> SUFFICES ASSUME NEW x \in Customer, NEW y \in Customer, x < y,
                      new[x] \notin {"outside", "refused"}, new[y] \notin {"outside", "refused"}
               PROVE  Rank[new[x]] >= Rank[new[y]]
    BY DEF InOrder
  <1>0. \A r \in StageSet \ {"outside", "refused"} : Rank[r] \in Int
    BY Ranks DEF StageSet
  <1>1. CASE x = c
    <2>1. y # c /\ new[y] = st[y] /\ new[x] = s
      BY <1>1 DEF Customer
    <2>2. Rank[st[y]] \in Int /\ Rank[s] \in Int
      BY <2>1, <1>0
    <2>3. st[c] \notin {"outside", "refused"} /\ Rank[s] >= Rank[st[c]]
      BY <1>1, <2>1 DEF Customer
    <2>4. Rank[st[c]] >= Rank[st[y]] /\ Rank[st[c]] \in Int
      BY <1>1, <2>1, <2>3, <1>0 DEF InOrder
    <2> QED
      BY <2>1, <2>2, <2>3, <2>4
  <1>2. CASE x # c /\ y = c
    BY <1>2
  <1>3. CASE x # c /\ y # c
    BY <1>3 DEF InOrder
  <1> QED
    BY <1>1, <1>2, <1>3

-----------------------------------------------------------------------------
(* The actions.                                                             *)

\* What the actions take from where.
LEMMA Chosen ==
  ASSUME Inv
  PROVE  /\ chef_free # {} => FreeChef \in chef_free
         /\ Ending # {} => Min(Ending) \in Ending /\ \A i \in Ending : Min(Ending) <= i
         /\ Eligible # {} => Min(Eligible) \in Eligible /\ \A i \in Eligible : Min(Eligible) <= i
         /\ \A c \in Customer : stage[c] \in OnSofa => SeatOf(c) \in DOMAIN sofa_q /\ sofa_q[SeatOf(c)] = c
         /\ accepting # <<>> => /\ accepting = <<accepting[1]>> /\ accepting[1] \in Entry
                                /\ 1 \in DOMAIN accepting
                                /\ CustsOf(accepting) = <<accepting[1].cust>>
                                /\ stage[accepting[1].cust] = "accepted"
  <1>1. chef_free \in SUBSET Nat
    BY BakeryAssumption DEF Inv, Types, Chef
  <1>2. Ending \in SUBSET Nat
    BY DEF Ending, Inv, Types
  <1>a. Eligible \in SUBSET Nat
    BY DEF Eligible, Inv, Queues, Lists
  <1>3. ASSUME NEW c \in Customer, stage[c] \in OnSofa
        PROVE  SeatOf(c) \in DOMAIN sofa_q /\ sofa_q[SeatOf(c)] = c
    BY <1>3 DEF SeatOf, Inv, Queues, Lists, In
  <1>4. ASSUME accepting # <<>>
        PROVE  /\ accepting = <<accepting[1]>> /\ accepting[1] \in Entry
               /\ 1 \in DOMAIN accepting
               /\ CustsOf(accepting) = <<accepting[1].cust>>
               /\ stage[accepting[1].cust] = "accepted"
    <2>0. accepting \in Seq(Entry) /\ Len(accepting) <= 1
      BY DEF Inv, Types
    <2>1. Len(accepting) \in Nat /\ Len(accepting) # 0 /\ Len(accepting) <= 1
      BY <1>4, <2>0
    <2>a. \A n \in Nat : n # 0 /\ n <= 1 => n = 1
      OBVIOUS
    <2>2. Len(accepting) = 1
      BY <2>1, <2>a, Zenon
    <2>3. DOMAIN accepting = {1} /\ accepting[1] \in Entry
      BY <2>0, <2>2
    <2>4. accepting = <<accepting[1]>>
      BY <2>0, <2>2
    <2>5. CustsOf(accepting) \in Seq(Customer) /\ Len(CustsOf(accepting)) = 1 /\ CustsOf(accepting)[1] = accepting[1].cust
      BY <2>0, <2>2, <2>3, CustsSeq
    <2>6. CustsOf(accepting) = <<accepting[1].cust>>
      BY <2>5
    <2>7. In(CustsOf(accepting), accepting[1].cust)
      BY <2>5 DEF In
    <2>8. accepting[1].cust \in Customer
      BY <2>3 DEF Entry
    <2> QED
      BY <2>3, <2>4, <2>6, <2>7, <2>8 DEF Inv, Queues, Lists
  <1>5. chef_free # {} => FreeChef \in chef_free
    BY <1>1, Least DEF FreeChef
  <1>6. Ending # {} => Min(Ending) \in Ending /\ \A i \in Ending : Min(Ending) <= i
    BY <1>2, Least
  <1>7. Eligible # {} => Min(Eligible) \in Eligible /\ \A i \in Eligible : Min(Eligible) <= i
    BY <1>a, Least
  <1> QED
    BY <1>3, <1>4, <1>5, <1>6, <1>7

\* Leaving a loop.
LEMMA Leaving ==
  ASSUME Inv, step' \in {"finishaccept", "finishbake", "sit", "request", "accept", "bake", "stopped"},
         UNCHANGED <<inputVars, arrival_idx, current_time, stage, timeVars, queueVars, taskVars, shopVars>>,
         step' \in {"sit", "request", "accept", "bake"}
           => step \in {"sit", "request", "accept", "bake"} \/ Ending = {},
         step' = "bake" => step = "accept" /\ ~MayAccept
  PROVE  Inv'
  <1> USE DEF Inv, inputVars, timeVars, queueVars, taskVars, shopVars
  <1>1. Types'
    BY DEF Types
  <1>2. Queues' /\ Chefs' /\ Counts'
    BY DEF Queues, Chefs, Counts, ChefsOf
  <1>3. Times'
    <2>1. ASSUME NEW i \in DOMAIN baking, step' \in {"sit", "request", "accept", "bake"}
          PROVE  current_time < baking[i].end
      <3>1. CASE step \in {"sit", "request", "accept", "bake"}
        BY <3>1 DEF Times
      <3>2. CASE Ending = {}
        <4>1. baking[i].end # current_time /\ baking[i].end >= current_time /\ baking[i] \in Entry
          BY <3>2 DEF Ending, Times, Types
        <4>2. baking[i].end \in Int /\ current_time \in Int
          BY <4>1 DEF Entry, Types
        <4> QED
          BY <4>1, <4>2
      <3> QED
        BY <2>1, <3>1, <3>2
    <2> QED
      BY <2>1 DEF Times
  <1>4. NoOvertaking'
    BY DEF NoOvertaking, Served
  <1>5. PaymentTaken'
    <2> SUFFICES ASSUME step' = "bake", accepting = <<>>, chef_free # {}, accept_ready_q # <<>>
                 PROVE  current_time < t_pay_time[Head(accept_ready_q)] + T_CUSTOMER_ACTION
      BY DEF PaymentTaken
    <2>1. ~(current_time >= t_pay_time[Head(accept_ready_q)] + T_CUSTOMER_ACTION)
      BY DEF MayAccept
    <2>2. Head(accept_ready_q) \in Customer
      BY TailFacts DEF Queues, Lists
    <2>3. t_pay_time[Head(accept_ready_q)] + T_CUSTOMER_ACTION \in Int /\ current_time \in Int
      BY <2>2 DEF Types, T_CUSTOMER_ACTION
    <2> QED
      BY <2>1, <2>3
  <1> QED
    BY <1>1, <1>2, <1>3, <1>4, <1>5

\* The loops' ends, and the end of main.
LEMMA Quiet ==
  ASSUME Inv, ArriveDone \/ FinishBakesDone \/ SitDone \/ AcceptDone \/ (Stop /\ step' = "stopped")
  PROVE  Inv'
  BY Leaving DEF ArriveDone, FinishBakesDone, SitDone, AcceptDone, Stop, Then

\* A stuttering step.
LEMMA Nothing ==
  ASSUME Inv, UNCHANGED vars PROVE Inv'
  <1> USE DEF Inv, vars, inputVars, clockVars, timeVars, queueVars, taskVars, shopVars
  <1>1. Types' /\ Queues' /\ Counts'
    BY DEF Types, Queues, Counts
  <1>2. Times' /\ Chefs'
    BY DEF Times, Chefs, ChefsOf
  <1>3. NoOvertaking' /\ PaymentTaken'
    BY DEF NoOvertaking, PaymentTaken, Served
  <1> QED
    BY <1>1, <1>2, <1>3

\* current_time++: bakings that have not ended now end later.
LEMMA TickStep ==
  ASSUME Inv, Tick PROVE Inv'
  <1> USE DEF Inv, inputVars, timeVars, queueVars, taskVars, shopVars, Tick
  <1>1. Types'
    BY DEF Types
  <1>2. Queues' /\ Chefs' /\ Counts'
    BY DEF Queues, Chefs, Counts, ChefsOf
  <1>3. Times'
    <2>0. current_time \in Int /\ \A c \in Customer : t_sat[c] \in Int /\ t_request[c] \in Int /\ t_pay_time[c] \in Int
      BY DEF Types
    <2>1. \A c \in Customer : t_sat[c] <= current_time + 1 /\ t_request[c] <= current_time + 1 /\ t_pay_time[c] <= current_time + 1
      BY <2>0 DEF Times
    <2>2. ASSUME NEW i \in DOMAIN baking
          PROVE current_time + 1 <= baking[i].end /\ baking[i].end <= current_time + 1 + T_CHEF_ACTION
      <3>a. baking[i] \in Entry
        BY DEF Types
      <3>1. baking[i].end \in Int
        BY <3>a DEF Entry
      <3>2. current_time < baking[i].end /\ baking[i].end <= current_time + T_CHEF_ACTION
        BY DEF Times
      <3> QED
        BY <2>0, <3>1, <3>2 DEF T_CHEF_ACTION
    <2> QED
      BY <2>1, <2>2 DEF Times
  <1>4. NoOvertaking' /\ PaymentTaken'
    BY DEF NoOvertaking, Served, PaymentTaken
  <1> QED
    BY <1>1, <1>2, <1>3, <1>4

\* A customer who finds the bakery full.
LEMMA RefuseStep ==
  ASSUME Inv, Refuse PROVE Inv'
  <1> USE DEF inputVars, clockVars, timeVars, queueVars, taskVars, shopVars
  <1> DEFINE c == arrival_idx
  <1>1. /\ c \in Customer /\ c \in Int /\ stage[c] = "outside" /\ stage \in [Customer -> StageSet]
        /\ stage' = [stage EXCEPT ![c] = "refused"] /\ arrival_idx' = c + 1
    BY DEF Refuse, Arrives, Becomes, Inv, Types, Queues, Customer
  <1> HIDE DEF c
  <1>2. Types'
    <2>1. c + 1 \in 1..(N + 1)
      BY <1>1, BakeryAssumption DEF Customer
    <2>2. stage' \in [Customer -> StageSet]
      BY <1>1 DEF StageSet
    <2> QED
      BY <1>1, <2>1, <2>2 DEF Inv, Types, Refuse
  <1>3. Queues'
    <2>1. /\ Lists(standing_q, stage', {"standing"}) /\ Lists(sofa_q, stage', OnSofa)
          /\ Lists(accept_ready_q, stage', {"paying"}) /\ Lists(CustsOf(baking), stage', {"baking"})
          /\ Lists(CustsOf(accepting), stage', {"accepted"})
      BY <1>1, ListsKeep DEF Inv, Queues, OnSofa
    <2>2. ASSUME NEW d \in Customer PROVE stage'[d] = "outside" <=> d >= c + 1
      BY <1>1 DEF Inv, Queues, Customer, c
    <2> QED
      BY <1>1, <2>1, <2>2 DEF Queues, Refuse
  <1>4. Times'
    BY <1>1 DEF Inv, Times, Refuse
  <1>5. Chefs' /\ Counts' /\ PaymentTaken'
    BY DEF Inv, Chefs, ChefsOf, Counts, PaymentTaken, Refuse
  <1>6. NoOvertaking'
    BY <1>1 DEF Inv, NoOvertaking, Served
  <1> QED
    BY <1>2, <1>3, <1>4, <1>5, <1>6 DEF Inv

\* The last customer to enter is the last in the standing queue.
LEMMA EnterStep ==
  ASSUME Inv, Enter PROVE Inv'
  <1> USE DEF inputVars, clockVars, timeVars, queueVars, taskVars, shopVars
  <1> DEFINE c == arrival_idx
  <1>1. /\ c \in Customer /\ c \in Int /\ stage[c] = "outside" /\ stage \in [Customer -> StageSet]
        /\ stage' = [stage EXCEPT ![c] = "standing"] /\ arrival_idx' = c + 1
        /\ \A d \in Customer : stage[d] = "outside" <=> d >= c
        /\ people_inside < MAX_CAPACITY /\ people_inside' = people_inside + 1
    <2>1. people_inside \in Int /\ MAX_CAPACITY \in Int /\ ~(people_inside >= MAX_CAPACITY)
      BY BakeryAssumption DEF Enter, Full, Inv, Types
    <2>2. people_inside < MAX_CAPACITY
      BY <2>1
    <2>3. c \in Customer /\ c \in Int
      BY BakeryAssumption DEF Enter, Arrives, Inv, Types, Customer
    <2>4. \A d \in Customer : stage[d] = "outside" <=> d >= c
      BY DEF Inv, Queues
    <2> QED
      BY <2>2, <2>3, <2>4 DEF Enter, Becomes, Inv, Types
  <1> HIDE DEF c
  <1>2. /\ Lists(Append(standing_q, c), stage', {"standing"})
        /\ Len(Append(standing_q, c)) = Len(standing_q) + 1
    <2>1. \A d \in Customer : stage[d] \in {"standing"} => d < c
      BY <1>1 DEF Customer
    <2> QED
      BY <1>1, <2>1, ListsAppend DEF Inv, Queues
  <1>3. Types'
    <2>1. c + 1 \in 1..(N + 1)
      BY <1>1, BakeryAssumption DEF Customer
    <2>2. stage' \in [Customer -> StageSet]
      BY <1>1 DEF StageSet
    <2>3. people_inside' \in Int
      BY <1>1 DEF Inv, Types
    <2> QED
      BY <1>1, <2>1, <2>2, <2>3 DEF Inv, Types, Enter
  <1>4. Queues'
    <2>1. /\ Lists(sofa_q, stage', OnSofa)
          /\ Lists(accept_ready_q, stage', {"paying"}) /\ Lists(CustsOf(baking), stage', {"baking"})
          /\ Lists(CustsOf(accepting), stage', {"accepted"})
      BY <1>1, ListsKeep DEF Inv, Queues, OnSofa
    <2>2. ASSUME NEW d \in Customer PROVE stage'[d] = "outside" <=> d >= c + 1
      BY <1>1 DEF Customer
    <2> QED
      BY <1>1, <1>2, <2>1, <2>2 DEF Queues, Enter, c
  <1>5. Times'
    BY <1>1 DEF Inv, Times, Enter
  <1>6. Chefs' /\ PaymentTaken'
    BY DEF Inv, Chefs, ChefsOf, PaymentTaken, Enter
  <1>7. Counts'
    <2>1. people_inside' = people_inside + 1 /\ standing_q' = Append(standing_q, c)
      BY DEF Enter, c
    <2> QED
      BY <1>1, <1>2, <2>1, BakeryAssumption DEF Inv, Counts, Enter, Types, Queues, Lists
  <1>8. NoOvertaking'
    <2>1. \A d \in Customer : d < c /\ stage[d] \notin {"outside", "refused"} => Rank[stage[d]] >= Rank["standing"]
      BY <1>1, Ranks DEF StageSet
    <2>2. \A d \in Customer : d > c => stage[d] = "outside"
      BY <1>1 DEF Customer
    <2>3. InOrder(stage) /\ "standing" \in StageSet \ {"outside", "refused"}
      BY DEF Inv, NoOvertaking, InOrder, Served, StageSet
    <2>4. InOrder(stage')
      BY <1>1, <2>1, <2>2, <2>3, OrderKept
    <2> QED
      BY <2>4 DEF InOrder, NoOvertaking, Served
  <1> QED
    BY <1>3, <1>4, <1>5, <1>6, <1>7, <1>8 DEF Inv

\* With a seat's queue in order, the earlier ones are at least as far.
LEMMA Ahead ==
  ASSUME Inv, NEW c \in Customer, NEW d \in Customer, d < c, Served(c), Served(d)
  PROVE  Rank[stage[d]] >= Rank[stage[c]]
  BY DEF Inv, NoOvertaking

\* The first who stands sits down behind those on the sofa.
LEMMA SitStep ==
  ASSUME Inv, Sit PROVE Inv'
  <1> USE DEF inputVars, clockVars, timeVars, queueVars, taskVars, shopVars
  <1> DEFINE c == Head(standing_q)
  <1>1. /\ standing_q # <<>> /\ Len(sofa_q) < SOFA_CAPACITY /\ stage \in [Customer -> StageSet]
        /\ stage' = [stage EXCEPT ![c] = "seated"] /\ t_sat' = [t_sat EXCEPT ![c] = current_time]
        /\ Lists(standing_q, stage, {"standing"}) /\ Lists(sofa_q, stage, OnSofa)
    BY DEF Sit, MaySit, Becomes, Inv, Types, Queues
  <1>2. /\ Lists(Tail(standing_q), stage', {"standing"}) /\ Len(Tail(standing_q)) = Len(standing_q) - 1
        /\ c \in Customer /\ stage[c] = "standing"
        /\ \A d \in Customer : stage[d] = "standing" => c <= d
    <2>1. "seated" \notin {"standing"}
      OBVIOUS
    <2> HIDE DEF OnSofa
    <2> QED
      BY <1>1, <2>1, ListsTail
  <1> HIDE DEF c
  <1>3. \A d \in Customer : stage[d] \in OnSofa => d < c
    <2> SUFFICES ASSUME NEW d \in Customer, stage[d] \in OnSofa, ~(d < c) PROVE FALSE
      OBVIOUS
    <2>1. c < d
      BY <1>2 DEF Customer, OnSofa
    <2>2. Rank[stage[c]] >= Rank[stage[d]]
      BY <1>2, <2>1, Ahead DEF Served, OnSofa
    <2> QED
      BY <1>2, <2>2, Ranks DEF OnSofa
  <1>4. /\ Lists(Append(sofa_q, c), stage', OnSofa) /\ Len(Append(sofa_q, c)) = Len(sofa_q) + 1
    BY <1>1, <1>2, <1>3, ListsAppend DEF OnSofa
  <1>5. Types'
    <2>1. stage' \in [Customer -> StageSet] /\ t_sat' \in [Customer -> Int]
      BY <1>1, <1>2 DEF Inv, Types, StageSet
    <2> QED
      BY <2>1 DEF Inv, Types, Sit
  <1>6. Queues'
    <2>1. /\ Lists(accept_ready_q, stage', {"paying"}) /\ Lists(CustsOf(baking), stage', {"baking"})
          /\ Lists(CustsOf(accepting), stage', {"accepted"})
      BY <1>1, <1>2, ListsKeep DEF Inv, Queues
    <2>2. ASSUME NEW d \in Customer PROVE stage'[d] = "outside" <=> d >= arrival_idx
      BY <1>1, <1>2 DEF Inv, Queues
    <2> QED
      BY <1>2, <1>4, <2>1, <2>2 DEF Queues, Sit, c
  <1>7. Times'
    <2>1. \A d \in Customer : t_sat'[d] <= current_time
      BY <1>1, <1>2 DEF Inv, Times, Types
    <2>2. ASSUME NEW x \in Customer, NEW y \in Customer, x < y, stage'[x] = "seated", stage'[y] = "seated"
          PROVE  t_sat'[x] <= t_sat'[y]
      <3>1. CASE x = c
        <4>1. stage[y] = "seated" /\ y # c
          BY <1>1, <1>2, <2>2, <3>1 DEF Customer
        <4> QED
          BY <1>3, <2>2, <3>1, <4>1 DEF OnSofa, Customer
      <3>2. CASE y = c
        BY <1>1, <1>2, <2>1, <3>2 DEF Inv, Types
      <3>3. CASE x # c /\ y # c
        BY <1>1, <1>2, <2>2, <3>3 DEF Inv, Times, Types
      <3> QED
        BY <3>1, <3>2, <3>3
    <2> QED
      BY <1>1, <1>2, <2>1, <2>2 DEF Inv, Times, Sit
  <1>8. Chefs' /\ PaymentTaken'
    BY DEF Inv, Chefs, ChefsOf, PaymentTaken, Sit
  <1>9. Counts'
    <2>1. standing_q' = Tail(standing_q) /\ sofa_q' = Append(sofa_q, c)
      BY DEF Sit, c
    <2>2. Len(standing_q) \in Nat /\ Len(sofa_q) \in Nat
      BY <1>1 DEF Lists
    <2> QED
      BY <1>1, <1>2, <1>4, <2>1, <2>2, BakeryAssumption DEF Inv, Counts, Sit
  <1>10. NoOvertaking'
    <2>1. \A d \in Customer : d < c /\ stage[d] \notin {"outside", "refused"} => Rank[stage[d]] >= Rank["seated"]
      BY <1>1, <1>2, Ranks DEF StageSet, Customer
    <2>3. /\ InOrder(stage) /\ "seated" \in StageSet \ {"outside", "refused"}
          /\ stage[c] \notin {"outside", "refused"} /\ Rank["seated"] >= Rank[stage[c]]
      BY <1>2, Ranks DEF Inv, NoOvertaking, InOrder, Served, StageSet
    <2>4. InOrder(stage')
      BY <1>1, <1>2, <2>1, <2>3, OrderKept
    <2> QED
      BY <2>4 DEF InOrder, NoOvertaking, Served
  <1> QED
    BY <1>5, <1>6, <1>7, <1>8, <1>9, <1>10 DEF Inv

\* The one customer at the register leaves, behind all earlier ones.
LEMMA FinishAcceptStep ==
  ASSUME Inv, FinishAccept, AcceptEnds PROVE Inv'
  <1> USE DEF inputVars, clockVars, timeVars, queueVars, taskVars, shopVars
  <1> DEFINE c == accepting[1].cust
             k == SeatOf(c)
  <1>1. /\ accepting = <<accepting[1]>> /\ accepting[1] \in Entry /\ 1 \in DOMAIN accepting
        /\ CustsOf(accepting) = <<c>> /\ stage[c] = "accepted" /\ c \in Customer
        /\ k \in DOMAIN sofa_q /\ sofa_q[k] = c
    <2>1. accepting # <<>>
      BY DEF AcceptEnds
    <2>2. c \in Customer
      BY <2>1, Chosen DEF Entry
    <2> QED
      BY <2>1, <2>2, Chosen DEF OnSofa
  <1>2. /\ stage' = [stage EXCEPT ![c] = "gone"] /\ stage \in [Customer -> StageSet]
        /\ sofa_q' = RemoveAt(sofa_q, k) /\ accepting' = <<>>
        /\ chef_free' = chef_free \cup {accepting[1].chef} /\ people_inside' = people_inside - 1
        /\ last_seat_freed_time' = current_time /\ step' = "finishbake" /\ step = "finishaccept"
        /\ UNCHANGED <<current_time, inputVars, arrival_idx, timeVars, standing_q, accept_ready_q, baking, ovens_available>>
    BY DEF FinishAccept, Becomes, Then, Inv, Types
  <1> HIDE DEF c, k
  <1>3. /\ Lists(sofa_q', stage', OnSofa) /\ Len(sofa_q') = Len(sofa_q) - 1
    <2>1. "gone" \notin OnSofa /\ Lists(sofa_q, stage, OnSofa)
      BY DEF OnSofa, Inv, Queues
    <2> QED
      BY <1>1, <1>2, <2>1, ListsRemove
  <1>4. \A d \in Customer : stage[d] = "accepted" => d = c
    BY <1>1 DEF Inv, Queues, Lists, In
  <1>5. Lists(CustsOf(accepting'), stage', {"accepted"})
    <2>1. CustsOf(<<>>) = <<>>
      BY DEF CustsOf
    <2>2. Increasing(<<>>) /\ \A d \in Customer : ~In(<<>>, d)
      BY DEF Increasing, In
    <2>3. <<>> \in Seq(Customer)
      OBVIOUS
    <2>4. \A d \in Customer : stage'[d] \notin {"accepted"}
      BY <1>1, <1>2, <1>4
    <2>5. Lists(<<>>, stage', {"accepted"})
      BY <2>2, <2>3, <2>4 DEF Lists
    <2> QED
      BY <1>2, <2>1, <2>5
  <1>6. Types'
    <2>1. stage' \in [Customer -> StageSet]
      BY <1>1, <1>2 DEF StageSet
    <2>2. accepting' \in Seq(Entry) /\ Len(accepting') <= 1
      BY <1>2
    <2>3. chef_free' \in SUBSET Chef
      BY <1>1, <1>2 DEF Inv, Types, Entry
    <2>4. people_inside' \in Int /\ last_seat_freed_time' \in Int
      BY <1>2 DEF Inv, Types
    <2> QED
      BY <1>2, <2>1, <2>2, <2>3, <2>4 DEF Inv, Types
  <1>7. Queues'
    <2>1. /\ Lists(standing_q, stage', {"standing"})
          /\ Lists(accept_ready_q, stage', {"paying"}) /\ Lists(CustsOf(baking), stage', {"baking"})
      BY <1>1, <1>2, ListsKeep DEF Inv, Queues
    <2>2. ASSUME NEW d \in Customer PROVE stage'[d] = "outside" <=> d >= arrival_idx
      BY <1>1, <1>2 DEF Inv, Queues
    <2> QED
      BY <1>2, <1>3, <1>5, <2>1, <2>2 DEF Queues
  <1>8. Times'
    BY <1>1, <1>2 DEF Inv, Times
  <1>9. Chefs'
    <2>1. ChefsOf(accepting) = {accepting[1].chef} /\ ChefsOf(<<>>) = {}
      <3>1. DOMAIN accepting = {1}
        BY <1>1
      <3> QED
        BY <3>1 DEF ChefsOf
    <2>2. accepting[1].chef \in Chef /\ accepting[1].chef \notin ChefsOf(baking)
      BY <1>1 DEF Inv, Chefs, ChefsOf, Entry
    <2>3. chef_free' = Chef \ (ChefsOf(baking) \cup ChefsOf(accepting'))
      BY <1>2, <2>1, <2>2 DEF Inv, Chefs
    <2>4. DOMAIN accepting' = {}
      BY <1>2
    <2>5. ChefsOf(baking)' = ChefsOf(baking) /\ ChefsOf(accepting)' = ChefsOf(accepting')
      BY <1>2 DEF ChefsOf
    <2> QED
      BY <1>2, <2>3, <2>4, <2>5 DEF Inv, Chefs
  <1>10. Counts'
    <2>1. Len(standing_q) \in Nat /\ Len(sofa_q) \in Nat /\ people_inside \in Int
      BY DEF Inv, Types, Queues, Lists
    <2> QED
      BY <1>2, <1>3, <2>1, BakeryAssumption DEF Inv, Counts
  <1>11. NoOvertaking'
    <2>1. ASSUME NEW d \in Customer, d < c, stage[d] \notin {"outside", "refused"}
          PROVE  Rank[stage[d]] >= Rank["gone"]
      <3>1. Rank[stage[d]] >= 6
        BY <1>1, <2>1, Ahead, Ranks DEF Served
      <3>2. stage[d] # "accepted"
        BY <1>4, <2>1 DEF Customer
      <3> QED
        BY <1>2, <2>1, <3>1, <3>2, Ranks DEF StageSet
    <2>3. /\ InOrder(stage) /\ "gone" \in StageSet \ {"outside", "refused"}
          /\ stage[c] \notin {"outside", "refused"} /\ Rank["gone"] >= Rank[stage[c]]
      BY <1>1, Ranks DEF Inv, NoOvertaking, InOrder, Served, StageSet
    <2>4. InOrder(stage')
      BY <1>1, <1>2, <2>1, <2>3, OrderKept
    <2> QED
      BY <2>4 DEF InOrder, NoOvertaking, Served
  <1>12. PaymentTaken'
    BY <1>2 DEF PaymentTaken
  <1> QED
    BY <1>6, <1>7, <1>8, <1>9, <1>10, <1>11, <1>12 DEF Inv

\* The first of the cakes that end now is the earliest customer's.
LEMMA FinishBakeStep ==
  ASSUME Inv, FinishBake PROVE Inv'
  <1> USE DEF inputVars, clockVars, timeVars, queueVars, taskVars, shopVars
  <1> DEFINE i == Min(Ending)
             c == baking[i].cust
  <1>1. /\ i \in Ending /\ (\A j \in Ending : i <= j) /\ i \in DOMAIN baking /\ i \in Nat
        /\ baking \in Seq(Entry) /\ baking[i] \in Entry /\ c \in Customer /\ baking[i].end = current_time
    <2>1. i \in Ending /\ (\A j \in Ending : i <= j)
      BY Chosen DEF FinishBake
    <2>2. baking \in Seq(Entry)
      BY DEF Inv, Types
    <2>3. i \in DOMAIN baking /\ baking[i].end = current_time
      BY <2>1 DEF Ending
    <2>4. baking[i] \in Entry /\ i \in Nat
      BY <2>2, <2>3
    <2> QED
      BY <2>1, <2>2, <2>3, <2>4 DEF Entry
  <1>2. /\ stage' = [stage EXCEPT ![c] = "paying"] /\ stage \in [Customer -> StageSet]
        /\ t_pay_time' = [t_pay_time EXCEPT ![c] = current_time]
        /\ accept_ready_q' = Append(accept_ready_q, c) /\ baking' = RemoveAt(baking, i)
        /\ chef_free' = chef_free \cup {baking[i].chef} /\ ovens_available' = ovens_available + 1
        /\ step = "finishbake"
        /\ UNCHANGED <<inputVars, arrival_idx, clockVars, t_sat, t_request, standing_q, sofa_q, accepting, shopVars>>
    BY DEF FinishBake, Becomes, Inv, Types
  <1> HIDE DEF i, c
  <1>3. CustsOf(baking)[i] = c /\ i \in DOMAIN CustsOf(baking) /\ Lists(CustsOf(baking), stage, {"baking"})
    BY <1>1, CustsSeq DEF c, Inv, Queues
  <1>4. stage[c] = "baking" /\ Lists(CustsOf(baking'), stage', {"baking"})
    <2>1. "paying" \notin {"baking"}
      OBVIOUS
    <2>2. /\ Lists(RemoveAt(CustsOf(baking), i), [stage EXCEPT ![c] = "paying"], {"baking"})
          /\ stage[c] \in {"baking"}
      BY <1>2, <1>3, <2>1, ListsRemove
    <2> QED
      BY <1>1, <1>2, <2>2, CustsRemove
  <1>5. \A d \in Customer : stage[d] \in {"paying"} => d < c
    <2> SUFFICES ASSUME NEW d \in Customer, stage[d] = "paying", ~(d < c) PROVE FALSE
      OBVIOUS
    <2>1. c < d
      BY <1>1, <1>4 DEF Customer
    <2>2. Rank[stage[c]] >= Rank[stage[d]]
      BY <1>1, <1>4, <2>1, Ahead DEF Served
    <2> QED
      BY <1>4, <2>2, Ranks
  <1>6. Lists(accept_ready_q', stage', {"paying"})
    BY <1>1, <1>2, <1>5, ListsAppend DEF Inv, Queues
  <1>7. /\ baking' \in Seq(Entry) /\ Len(baking') = Len(baking) - 1 /\ DOMAIN baking' = 1..(Len(baking) - 1)
        /\ \A j \in DOMAIN baking' : baking'[j] = IF j < i THEN baking[j] ELSE baking[j + 1]
        /\ \A j \in DOMAIN baking : j # i => \E l \in DOMAIN baking' : baking'[l] = baking[j]
    BY <1>1, <1>2, RemoveFacts
  <1> DEFINE f(j) == IF j < i THEN j ELSE j + 1
  <1>8. /\ \A j \in DOMAIN baking' : f(j) \in DOMAIN baking /\ f(j) # i /\ baking'[j] = baking[f(j)]
        /\ \A j, l \in DOMAIN baking' : (j < l => f(j) < f(l)) /\ (f(j) = f(l) => j = l)
    <2>1. DOMAIN baking = 1..Len(baking) /\ Len(baking) \in Nat
      BY <1>1
    <2> QED
      BY <1>1, <1>7, <2>1
  <1> HIDE DEF f
  <1>9. Types'
    <2>1. stage' \in [Customer -> StageSet] /\ t_pay_time' \in [Customer -> Int]
      BY <1>1, <1>2 DEF StageSet, Inv, Types
    <2>2. chef_free' \in SUBSET Chef
      BY <1>1, <1>2 DEF Inv, Types, Entry
    <2>3. ovens_available' \in Int
      BY <1>2 DEF Inv, Types
    <2> QED
      BY <1>2, <1>7, <2>1, <2>2, <2>3 DEF Inv, Types
  <1>10. Queues'
    <2>1. /\ Lists(standing_q, stage', {"standing"}) /\ Lists(sofa_q, stage', OnSofa)
          /\ Lists(CustsOf(accepting), stage', {"accepted"})
      BY <1>1, <1>2, <1>4, ListsKeep DEF Inv, Queues, OnSofa
    <2>2. ASSUME NEW d \in Customer PROVE stage'[d] = "outside" <=> d >= arrival_idx
      BY <1>1, <1>2, <1>4 DEF Inv, Queues
    <2> QED
      BY <1>2, <1>4, <1>6, <2>1, <2>2 DEF Queues
  <1>11. Times'
    <2>1. \A d \in Customer : t_pay_time'[d] <= current_time
      BY <1>1, <1>2 DEF Inv, Times, Types
    <2>2. ASSUME NEW x \in Customer, NEW y \in Customer, x < y, stage'[x] = "paying", stage'[y] = "paying"
          PROVE  t_pay_time'[x] <= t_pay_time'[y]
      <3>1. CASE x = c
        <4>1. stage[y] = "paying" /\ y # c
          BY <1>1, <1>2, <2>2, <3>1 DEF Customer
        <4> QED
          BY <1>5, <2>2, <3>1, <4>1 DEF Customer
      <3>2. CASE y = c
        BY <1>1, <1>2, <2>1, <3>2 DEF Inv, Types
      <3>3. CASE x # c /\ y # c
        BY <1>1, <1>2, <2>2, <3>3 DEF Inv, Times, Types
      <3> QED
        BY <3>1, <3>2, <3>3
    <2>3. \A j, l \in DOMAIN baking' : j < l => baking'[j].end <= baking'[l].end
      BY <1>8 DEF Inv, Times
    <2>4. \A j \in DOMAIN baking' : current_time <= baking'[j].end /\ baking'[j].end <= current_time + T_CHEF_ACTION
      BY <1>8 DEF Inv, Times
    <2>5. \A x, y \in Customer : x < y =>
            /\ stage'[x] = "seated" /\ stage'[y] = "seated" => t_sat[x] <= t_sat[y]
            /\ stage'[x] = "requested" /\ stage'[y] = "requested" => t_request[x] <= t_request[y]
      BY <1>1, <1>2 DEF Inv, Times
    <2> QED
      BY <1>2, <2>1, <2>2, <2>3, <2>4, <2>5 DEF Inv, Times
  <1>12. Chefs'
    <2>1. \A j, l \in DOMAIN baking' : baking'[j].chef = baking'[l].chef => j = l
      BY <1>8 DEF Inv, Chefs
    <2>2. \A j \in DOMAIN baking', l \in DOMAIN accepting : baking'[j].chef # accepting[l].chef
      BY <1>8 DEF Inv, Chefs
    <2>3. baking[i].chef \in Chef /\ baking[i].chef \notin ChefsOf(accepting)
      BY <1>1 DEF Inv, Chefs, ChefsOf, Entry
    <2>4. ChefsOf(baking') = ChefsOf(baking) \ {baking[i].chef}
      <3>1. \A x \in ChefsOf(baking') : x \in ChefsOf(baking) \ {baking[i].chef}
        BY <1>1, <1>8 DEF Inv, Chefs, ChefsOf
      <3>2. \A x \in ChefsOf(baking) \ {baking[i].chef} : x \in ChefsOf(baking')
        BY <1>7 DEF ChefsOf
      <3> QED
        BY <3>1, <3>2
    <2>5. baking[i].chef \in ChefsOf(baking)
      BY <1>1 DEF ChefsOf
    <2>6. chef_free' = Chef \ (ChefsOf(baking') \cup ChefsOf(accepting))
      BY <1>2, <2>3, <2>4, <2>5 DEF Inv, Chefs
    <2>7. ChefsOf(accepting)' = ChefsOf(accepting)
      BY <1>2 DEF ChefsOf
    <2> QED
      BY <1>2, <2>1, <2>2, <2>6, <2>7 DEF Chefs
  <1>13. Counts'
    <2>1. Len(baking) \in Nat /\ ovens_available \in Int
      BY <1>1 DEF Inv, Types
    <2> QED
      BY <1>2, <1>7, <2>1, BakeryAssumption DEF Inv, Counts
  <1>14. NoOvertaking'
    <2>1. ASSUME NEW d \in Customer, d < c, stage[d] \notin {"outside", "refused"}
          PROVE  Rank[stage[d]] >= Rank["paying"]
      <3>1. Rank[stage[d]] >= 4
        BY <1>1, <1>4, <2>1, Ahead, Ranks DEF Served
      <3>2. ASSUME stage[d] = "baking" PROVE FALSE
        <4>1. PICK j \in DOMAIN baking : baking[j].cust = d
          BY <3>2, <1>1, CustsSeq DEF Inv, Queues, Lists, In
        <4>2. j < i
          <5>1. j \in Nat /\ j # i
            BY <1>1, <2>1, <4>1 DEF c, Customer
          <5>2. i < j => c < d
            BY <1>1, <1>3, <4>1, CustsSeq DEF Lists, Increasing
          <5> QED
            BY <1>1, <2>1, <5>1, <5>2 DEF Customer
        <4>3. baking[j].end <= baking[i].end /\ current_time <= baking[j].end /\ baking[j] \in Entry
          BY <1>1, <4>1, <4>2 DEF Inv, Times
        <4>4. baking[j].end = current_time
          BY <1>1, <4>3 DEF Entry, Inv, Types
        <4>5. j \in Ending
          BY <4>1, <4>4 DEF Ending
        <4> QED
          BY <1>1, <4>2, <4>5
      <3> QED
        BY <1>2, <2>1, <3>1, <3>2, Ranks DEF StageSet
    <2>3. /\ InOrder(stage) /\ "paying" \in StageSet \ {"outside", "refused"}
          /\ stage[c] \notin {"outside", "refused"} /\ Rank["paying"] >= Rank[stage[c]]
      BY <1>4, Ranks DEF Inv, NoOvertaking, InOrder, Served, StageSet
    <2>4. InOrder(stage')
      BY <1>1, <1>2, <2>1, <2>3, OrderKept
    <2> QED
      BY <2>4 DEF InOrder, NoOvertaking, Served
  <1>15. PaymentTaken'
    BY <1>2 DEF PaymentTaken
  <1> QED
    BY <1>9, <1>10, <1>11, <1>12, <1>13, <1>14, <1>15 DEF Inv

\* Whoever sat earlier asks no later.
LEMMA RequestStep ==
  ASSUME Inv, Request PROVE Inv'
  <1> USE DEF inputVars, clockVars, timeVars, queueVars, taskVars, shopVars
  <1>1. /\ stage' = [c \in Customer |-> IF c \in Asking THEN "requested" ELSE stage[c]]
        /\ t_request' = [c \in Customer |-> IF c \in Asking THEN current_time ELSE t_request[c]]
        /\ stage \in [Customer -> StageSet] /\ step' = "accept" /\ step = "request"
        /\ UNCHANGED <<inputVars, arrival_idx, current_time, t_sat, t_pay_time, queueVars, taskVars, shopVars>>
    BY DEF Request, Then, Inv, Types
  <1>2. /\ \A c \in Asking : c \in Customer /\ stage[c] = "seated" /\ current_time >= t_sat[c] + T_CUSTOMER_ACTION
        /\ \A c \in Customer : stage[c] = "seated" /\ current_time >= t_sat[c] + T_CUSTOMER_ACTION => c \in Asking
    <2>1. ASSUME NEW c \in Customer, stage[c] = "seated" PROVE Contains(sofa_q, c)
      <3>1. In(sofa_q, c) /\ sofa_q \in Seq(Customer)
        BY <2>1 DEF Inv, Queues, Lists, OnSofa
      <3> QED
        BY <3>1 DEF In, Contains
    <2> QED
      BY <2>1 DEF Asking
  <1>3. ASSUME NEW x \in Customer, NEW y \in Customer, x < y, stage[x] = "seated", y \in Asking
        PROVE  x \in Asking
    <2>1. t_sat[x] <= t_sat[y] /\ t_sat[x] \in Int /\ t_sat[y] \in Int /\ current_time \in Int
      BY <1>2, <1>3 DEF Inv, Times, Types
    <2>2. current_time >= t_sat[y] + T_CUSTOMER_ACTION
      BY <1>2, <1>3
    <2>3. current_time >= t_sat[x] + T_CUSTOMER_ACTION
      BY <2>1, <2>2 DEF T_CUSTOMER_ACTION
    <2> QED
      BY <1>2, <1>3, <2>3
  <1> HIDE DEF Asking
  <1>4. Types'
    <2>1. stage' \in [Customer -> StageSet] /\ t_request' \in [Customer -> Int]
      BY <1>1 DEF StageSet, Inv, Types
    <2> QED
      BY <1>1, <2>1 DEF Inv, Types
  <1>5. Queues'
    <2>1. \A c \in Customer : (stage'[c] \in OnSofa <=> stage[c] \in OnSofa)
            /\ \A s \in StageSet \ {"seated", "requested"} : stage'[c] = s <=> stage[c] = s
      BY <1>1, <1>2 DEF OnSofa
    <2>2. /\ Lists(standing_q, stage', {"standing"}) /\ Lists(sofa_q, stage', OnSofa)
          /\ Lists(accept_ready_q, stage', {"paying"}) /\ Lists(CustsOf(baking), stage', {"baking"})
          /\ Lists(CustsOf(accepting), stage', {"accepted"})
      BY <2>1 DEF Inv, Queues, Lists, StageSet
    <2>3. ASSUME NEW d \in Customer PROVE stage'[d] = "outside" <=> d >= arrival_idx
      BY <2>1 DEF Inv, Queues, StageSet
    <2> QED
      BY <1>1, <2>2, <2>3 DEF Queues
  <1>6. Times'
    <2>1. \A d \in Customer : t_request'[d] <= current_time
      BY <1>1 DEF Inv, Times, Types
    <2>2. ASSUME NEW x \in Customer, NEW y \in Customer, x < y, stage'[x] = "requested", stage'[y] = "requested"
          PROVE  t_request'[x] <= t_request'[y]
      <3>1. CASE y \in Asking
        <4>1. t_request'[y] = current_time
          BY <1>1, <3>1
        <4> QED
          BY <2>1, <4>1
      <3>2. CASE y \notin Asking /\ x \in Asking
        <4>1. stage[y] = "requested" /\ stage[x] = "seated"
          BY <1>1, <1>2, <2>2, <3>2
        <4>2. Rank[stage[x]] >= Rank[stage[y]]
          BY <2>2, <4>1, Ahead DEF Served
        <4> QED
          BY <4>1, <4>2, Ranks
      <3>3. CASE y \notin Asking /\ x \notin Asking
        BY <1>1, <2>2, <3>3 DEF Inv, Times
      <3> QED
        BY <3>1, <3>2, <3>3
    <2>3. \A x, y \in Customer : x < y =>
            /\ stage'[x] = "seated" /\ stage'[y] = "seated" => t_sat[x] <= t_sat[y]
            /\ stage'[x] = "paying" /\ stage'[y] = "paying" => t_pay_time[x] <= t_pay_time[y]
      BY <1>1 DEF Inv, Times
    <2> QED
      BY <1>1, <2>1, <2>2, <2>3 DEF Inv, Times
  <1>7. Chefs' /\ Counts' /\ PaymentTaken'
    BY <1>1 DEF Inv, Chefs, ChefsOf, Counts, PaymentTaken
  <1>8. NoOvertaking'
    <2> SUFFICES ASSUME NEW x \in Customer, NEW y \in Customer, x < y, Served(x)', Served(y)'
                 PROVE  Rank[stage'[x]] >= Rank[stage'[y]]
      BY DEF NoOvertaking
    <2>1. Served(x) /\ Served(y)
      BY <1>1, <1>2 DEF Served
    <2>2. Rank[stage[x]] >= Rank[stage[y]] /\ stage[x] \in StageSet /\ stage[y] \in StageSet
      BY <1>1, <2>1, Ahead
    <2>3. CASE y \in Asking
      <3>1. stage[y] = "seated" /\ stage'[y] = "requested"
        BY <1>1, <1>2, <2>3
      <3>2. CASE x \in Asking
        BY <1>1, <3>1, <3>2, Ranks
      <3>3. CASE x \notin Asking
        <4>1. stage'[x] = stage[x] /\ stage[x] # "seated"
          BY <1>1, <1>3, <2>3, <3>3
        <4> QED
          BY <2>1, <2>2, <3>1, <4>1, Ranks DEF StageSet, Served
      <3> QED
        BY <3>2, <3>3
    <2>4. CASE y \notin Asking /\ x \in Asking
      <3>1. stage'[y] = stage[y] /\ stage[x] = "seated" /\ stage'[x] = "requested"
        BY <1>1, <1>2, <2>4
      <3> QED
        BY <2>1, <2>2, <3>1, Ranks DEF StageSet, Served
    <2>5. CASE y \notin Asking /\ x \notin Asking
      BY <1>1, <2>2, <2>5
    <2> QED
      BY <2>3, <2>4, <2>5
  <1> QED
    BY <1>4, <1>5, <1>6, <1>7, <1>8 DEF Inv

\* The chef of a new task is not free any more, and no one else has a task with that chef.
LEMMA TaskFacts ==
  ASSUME Inv, chef_free # {}, NEW c \in Customer
  PROVE  /\ Task(c) \in Entry /\ Task(c).cust = c /\ Task(c).chef = FreeChef
         /\ Task(c).end = current_time + T_CHEF_ACTION
         /\ FreeChef \in chef_free /\ FreeChef \in Chef
         /\ FreeChef \notin ChefsOf(baking) /\ FreeChef \notin ChefsOf(accepting)
  <1>1. FreeChef \in chef_free /\ FreeChef \in Chef
    BY Chosen DEF Inv, Types
  <1>2. current_time + T_CHEF_ACTION \in Int
    BY DEF Inv, Types, T_CHEF_ACTION
  <1> QED
    BY <1>1, <1>2 DEF Inv, Chefs, Task, Entry

\* The first who has paid goes to the register.
LEMMA AcceptStep ==
  ASSUME Inv, Accept PROVE Inv'
  <1> USE DEF inputVars, clockVars, timeVars, queueVars, taskVars, shopVars
  <1> DEFINE c == Head(accept_ready_q)
  <1>1. /\ accept_ready_q # <<>> /\ accepting = <<>> /\ chef_free # {} /\ stage \in [Customer -> StageSet]
        /\ stage' = [stage EXCEPT ![c] = "accepted"] /\ accept_ready_q' = Tail(accept_ready_q)
        /\ accepting' = <<Task(c)>> /\ chef_free' = chef_free \ {FreeChef} /\ step = "accept"
        /\ Lists(accept_ready_q, stage, {"paying"})
        /\ UNCHANGED <<inputVars, arrival_idx, clockVars, timeVars, standing_q, sofa_q, baking, ovens_available, shopVars>>
    BY DEF Accept, MayAccept, Becomes, Inv, Types, Queues
  <1>2. /\ Lists(Tail(accept_ready_q), stage', {"paying"})
        /\ c \in Customer /\ stage[c] = "paying"
        /\ \A d \in Customer : stage[d] = "paying" => c <= d
    <2>1. "accepted" \notin {"paying"}
      OBVIOUS
    <2> QED
      BY <1>1, <2>1, ListsTail
  <1> HIDE DEF c
  <1>3. /\ Task(c) \in Entry /\ Task(c).cust = c /\ Task(c).chef = FreeChef /\ FreeChef \in chef_free
        /\ FreeChef \in Chef /\ FreeChef \notin ChefsOf(baking)
    BY <1>1, <1>2, TaskFacts
  <1>4. Lists(CustsOf(accepting'), stage', {"accepted"})
    <2>1. accepting \in Seq(Entry) /\ accepting' = Append(accepting, Task(c))
      BY <1>1, <1>3
    <2>2. CustsOf(accepting') = Append(CustsOf(accepting), c)
      BY <1>3, <2>1, CustsAppend
    <2>3. \A d \in Customer : stage[d] \notin {"accepted"}
      <3>1. \A d \in Customer : ~In(CustsOf(accepting), d)
        BY <1>1 DEF CustsOf, In
      <3> QED
        BY <3>1 DEF Inv, Queues, Lists
    <2> QED
      BY <1>1, <1>2, <2>2, <2>3, ListsAppend, ZenonT(30) DEF Inv, Queues
  <1>5. Types'
    <2>1. stage' \in [Customer -> StageSet]
      BY <1>1, <1>2 DEF StageSet
    <2>2. accepting' \in Seq(Entry) /\ Len(accepting') <= 1
      BY <1>1, <1>3
    <2>3. chef_free' \in SUBSET Chef
      BY <1>1 DEF Inv, Types
    <2> QED
      BY <1>1, <2>1, <2>2, <2>3 DEF Inv, Types
  <1>6. Queues'
    <2>1. /\ Lists(standing_q, stage', {"standing"}) /\ Lists(sofa_q, stage', OnSofa)
          /\ Lists(CustsOf(baking), stage', {"baking"})
      BY <1>1, <1>2, ListsKeep DEF Inv, Queues, OnSofa
    <2>2. ASSUME NEW d \in Customer PROVE stage'[d] = "outside" <=> d >= arrival_idx
      BY <1>1, <1>2 DEF Inv, Queues
    <2> QED
      BY <1>1, <1>2, <1>4, <2>1, <2>2 DEF Queues
  <1>7. Times'
    BY <1>1, <1>2 DEF Inv, Times
  <1>8. Chefs'
    <2>1. DOMAIN accepting' = {1} /\ accepting'[1] = Task(c) /\ DOMAIN accepting = {}
      BY <1>1
    <2>2. ChefsOf(accepting') = {FreeChef} /\ ChefsOf(accepting) = {}
      BY <1>3, <2>1 DEF ChefsOf
    <2>3. \A i \in DOMAIN baking, j \in DOMAIN accepting' : baking[i].chef # accepting'[j].chef
      BY <1>3, <2>1 DEF ChefsOf
    <2>4. chef_free' = Chef \ (ChefsOf(baking) \cup ChefsOf(accepting'))
      BY <1>1, <2>2 DEF Inv, Chefs
    <2>5. ChefsOf(baking)' = ChefsOf(baking) /\ ChefsOf(accepting)' = ChefsOf(accepting')
      BY <1>1 DEF ChefsOf
    <2> QED
      BY <1>1, <2>3, <2>4, <2>5 DEF Inv, Chefs
  <1>9. Counts'
    BY <1>1 DEF Inv, Counts
  <1>10. NoOvertaking'
    <2>1. ASSUME NEW d \in Customer, d < c, stage[d] \notin {"outside", "refused"}
          PROVE  Rank[stage[d]] >= Rank["accepted"]
      <3>1. Rank[stage[d]] >= 5
        BY <1>2, <2>1, Ahead, Ranks DEF Served
      <3>2. stage[d] # "paying"
        BY <1>2, <2>1 DEF Customer
      <3> QED
        BY <1>1, <2>1, <3>1, <3>2, Ranks DEF StageSet
    <2>3. /\ InOrder(stage) /\ "accepted" \in StageSet \ {"outside", "refused"}
          /\ stage[c] \notin {"outside", "refused"} /\ Rank["accepted"] >= Rank[stage[c]]
      BY <1>2, Ranks DEF Inv, NoOvertaking, InOrder, Served, StageSet
    <2>4. InOrder(stage')
      BY <1>1, <1>2, <2>1, <2>3, OrderKept
    <2> QED
      BY <2>4 DEF InOrder, NoOvertaking, Served
  <1>11. PaymentTaken'
    BY <1>1 DEF PaymentTaken
  <1> QED
    BY <1>5, <1>6, <1>7, <1>8, <1>9, <1>10, <1>11 DEF Inv

\* The first on the sofa who may have a cake is the earliest customer who may.
LEMMA BakeStep ==
  ASSUME Inv, Bake PROVE Inv'
  <1> USE DEF inputVars, clockVars, timeVars, queueVars, taskVars, shopVars
  <1> DEFINE k == Min(Eligible)
             c == sofa_q[k]
  <1>1. /\ k \in Eligible /\ (\A j \in Eligible : k <= j) /\ k \in DOMAIN sofa_q /\ k \in Nat /\ c \in Customer
        /\ stage[c] = "requested" /\ current_time >= t_request[c] + T_CUSTOMER_ACTION
        /\ sofa_q \in Seq(Customer) /\ Increasing(sofa_q)
    <2>1. k \in Eligible /\ (\A j \in Eligible : k <= j)
      BY Chosen DEF Bake, MayBake
    <2>2. sofa_q \in Seq(Customer) /\ Increasing(sofa_q)
      BY DEF Inv, Queues, Lists
    <2>3. k \in DOMAIN sofa_q /\ stage[c] = "requested" /\ current_time >= t_request[c] + T_CUSTOMER_ACTION
      BY <2>1 DEF Eligible
    <2>4. c \in Customer /\ k \in Nat
      BY <2>2, <2>3
    <2> QED
      BY <2>1, <2>2, <2>3, <2>4
  <1>2. /\ stage' = [stage EXCEPT ![c] = "baking"] /\ stage \in [Customer -> StageSet]
        /\ baking' = Append(baking, Task(c)) /\ baking \in Seq(Entry)
        /\ ovens_available' = ovens_available - 1 /\ chef_free' = chef_free \ {FreeChef}
        /\ chef_free # {} /\ step = "bake"
        /\ UNCHANGED <<inputVars, arrival_idx, clockVars, timeVars, queueVars, accepting, shopVars>>
    BY DEF Bake, MayBake, Becomes, Inv, Types
  <1> HIDE DEF k, c
  <1>3. /\ Task(c) \in Entry /\ Task(c).cust = c /\ Task(c).chef = FreeChef /\ FreeChef \in chef_free
        /\ FreeChef \in Chef /\ FreeChef \notin ChefsOf(baking) /\ FreeChef \notin ChefsOf(accepting)
        /\ Task(c).end = current_time + T_CHEF_ACTION
    BY <1>1, <1>2, TaskFacts
  <1>4. \A d \in Customer : stage[d] \in {"baking"} => d < c
    <2> SUFFICES ASSUME NEW d \in Customer, stage[d] = "baking", ~(d < c) PROVE FALSE
      OBVIOUS
    <2>1. c < d
      BY <1>1 DEF Customer
    <2>2. Rank[stage[c]] >= Rank[stage[d]]
      BY <1>1, <2>1, Ahead DEF Served
    <2> QED
      BY <1>1, <2>2, Ranks
  <1>5. Lists(CustsOf(baking'), stage', {"baking"})
    <2>1. CustsOf(baking') = Append(CustsOf(baking), c)
      BY <1>2, <1>3, CustsAppend
    <2> QED
      BY <1>1, <1>2, <1>4, <2>1, ListsAppend DEF Inv, Queues
  <1>6. /\ baking' \in Seq(Entry) /\ Len(baking') = Len(baking) + 1 /\ Len(baking) \in Nat
        /\ DOMAIN baking = 1..Len(baking) /\ DOMAIN baking' = 1..(Len(baking) + 1)
        /\ \A j \in DOMAIN baking : j \in DOMAIN baking' /\ baking'[j] = baking[j] /\ j < Len(baking) + 1
        /\ baking'[Len(baking) + 1] = Task(c)
        /\ \A j \in DOMAIN baking' : j \in DOMAIN baking \/ j = Len(baking) + 1
    BY <1>2, <1>3
  <1>7. Types'
    <2>1. stage' \in [Customer -> StageSet]
      BY <1>1, <1>2 DEF StageSet
    <2>2. ovens_available' \in Int /\ chef_free' \in SUBSET Chef
      BY <1>2 DEF Inv, Types
    <2> QED
      BY <1>2, <1>6, <2>1, <2>2 DEF Inv, Types
  <1>8. Queues'
    <2>1. /\ Lists(standing_q, stage', {"standing"}) /\ Lists(sofa_q, stage', OnSofa)
          /\ Lists(accept_ready_q, stage', {"paying"}) /\ Lists(CustsOf(accepting), stage', {"accepted"})
      BY <1>1, <1>2, ListsKeep DEF Inv, Queues, OnSofa
    <2>2. ASSUME NEW d \in Customer PROVE stage'[d] = "outside" <=> d >= arrival_idx
      BY <1>1, <1>2 DEF Inv, Queues
    <2> QED
      BY <1>2, <1>5, <2>1, <2>2 DEF Queues
  <1>9. Times'
    <2>1. \A x, y \in Customer : x < y =>
            /\ stage'[x] = "seated" /\ stage'[y] = "seated" => t_sat[x] <= t_sat[y]
            /\ stage'[x] = "requested" /\ stage'[y] = "requested" => t_request[x] <= t_request[y]
            /\ stage'[x] = "paying" /\ stage'[y] = "paying" => t_pay_time[x] <= t_pay_time[y]
      BY <1>1, <1>2 DEF Inv, Times
    <2>2. /\ current_time < Task(c).end /\ Task(c).end <= current_time + T_CHEF_ACTION
      BY <1>3 DEF Inv, Types, T_CHEF_ACTION
    <2>3. \A j \in DOMAIN baking' : /\ current_time <= baking'[j].end
                                    /\ baking'[j].end <= current_time + T_CHEF_ACTION
                                    /\ current_time < baking'[j].end
      <3>1. \A j \in DOMAIN baking : /\ current_time <= baking[j].end /\ current_time < baking[j].end
                                     /\ baking[j].end <= current_time + T_CHEF_ACTION
        BY <1>2 DEF Inv, Times
      <3>2. current_time <= Task(c).end
        BY <1>3 DEF Inv, Types, T_CHEF_ACTION
      <3> QED
        BY <1>6, <2>2, <3>1, <3>2
    <2>4. ASSUME NEW j \in DOMAIN baking', NEW l \in DOMAIN baking', j < l
          PROVE  baking'[j].end <= baking'[l].end
      <3>1. j \in DOMAIN baking
        BY <1>6, <2>4
      <3>2. CASE l \in DOMAIN baking
        BY <1>6, <2>4, <3>1, <3>2 DEF Inv, Times
      <3>3. CASE l = Len(baking) + 1
        BY <1>3, <1>6, <2>3, <3>3
      <3> QED
        BY <1>6, <3>2, <3>3
    <2> QED
      BY <1>2, <2>1, <2>3, <2>4 DEF Inv, Times
  <1>10. Chefs'
    <2>1. ASSUME NEW j \in DOMAIN baking', NEW l \in DOMAIN baking', baking'[j].chef = baking'[l].chef
          PROVE  j = l
      BY <1>3, <1>6, <2>1 DEF Inv, Chefs, ChefsOf
    <2>2. \A j \in DOMAIN baking', l \in DOMAIN accepting : baking'[j].chef # accepting[l].chef
      BY <1>3, <1>6 DEF Inv, Chefs, ChefsOf
    <2>3. ChefsOf(baking') = ChefsOf(baking) \cup {FreeChef}
      BY <1>3, <1>6 DEF ChefsOf
    <2>4. chef_free' = Chef \ (ChefsOf(baking') \cup ChefsOf(accepting))
      BY <1>2, <2>3 DEF Inv, Chefs
    <2>5. ChefsOf(accepting)' = ChefsOf(accepting) /\ ChefsOf(baking)' = ChefsOf(baking')
      BY <1>2 DEF ChefsOf
    <2> QED
      BY <1>2, <2>1, <2>2, <2>4, <2>5 DEF Chefs
  <1>11. Counts'
    <2>1. ovens_available \in Int
      BY DEF Inv, Types
    <2> QED
      BY <1>2, <1>6, <2>1, BakeryAssumption DEF Inv, Counts
  <1>12. NoOvertaking'
    <2>1. ASSUME NEW d \in Customer, d < c, stage[d] \notin {"outside", "refused"}
          PROVE  Rank[stage[d]] >= Rank["baking"]
      <3>1. Rank[stage[d]] >= 3
        BY <1>1, <2>1, Ahead, Ranks DEF Served
      <3>2. ASSUME stage[d] = "requested" PROVE FALSE
        <4>1. PICK j \in DOMAIN sofa_q : sofa_q[j] = d
          BY <3>2 DEF Inv, Queues, Lists, OnSofa, In
        <4>2. j < k
          <5>1. j \in Nat /\ j # k
            BY <1>1, <2>1, <4>1 DEF c, Customer
          <5>2. k < j => c < d
            BY <1>1, <4>1 DEF Increasing, c
          <5> QED
            BY <1>1, <2>1, <5>1, <5>2 DEF Customer
        <4>3. t_request[d] <= t_request[c] /\ t_request[d] \in Int /\ t_request[c] \in Int /\ current_time \in Int
          BY <1>1, <2>1, <3>2 DEF Inv, Times, Types
        <4>4. current_time >= t_request[d] + T_CUSTOMER_ACTION
          BY <1>1, <4>3 DEF T_CUSTOMER_ACTION
        <4>5. j \in Eligible
          BY <3>2, <4>1, <4>4 DEF Eligible
        <4> QED
          BY <1>1, <4>1, <4>2, <4>5
      <3> QED
        BY <1>2, <2>1, <3>1, <3>2, Ranks DEF StageSet
    <2>3. /\ InOrder(stage) /\ "baking" \in StageSet \ {"outside", "refused"}
          /\ stage[c] \notin {"outside", "refused"} /\ Rank["baking"] >= Rank[stage[c]]
      BY <1>1, Ranks DEF Inv, NoOvertaking, InOrder, Served, StageSet
    <2>4. InOrder(stage')
      BY <1>1, <1>2, <2>1, <2>3, OrderKept
    <2> QED
      BY <2>4 DEF InOrder, NoOvertaking, Served
  <1>13. PaymentTaken'
    <2>1. chef_free' # {} => chef_free # {}
      BY <1>2
    <2> QED
      BY <1>2, <2>1 DEF Inv, PaymentTaken
  <1> QED
    BY <1>7, <1>8, <1>9, <1>10, <1>11, <1>12, <1>13 DEF Inv

\* Before the first arrival everything is free.
LEMMA InitStep == Init => Inv
  <1> SUFFICES ASSUME Init PROVE Inv
    OBVIOUS
  <1>0. 0 \in Nat /\ 1 \in Customer /\ NUM_OVENS \in Int /\ MAX_CAPACITY \in Nat /\ SOFA_CAPACITY \in Nat
        /\ Horizon \in Nat /\ 0..Horizon \subseteq Nat
    BY BakeryAssumption DEF Customer
  <1>1. Types
    <2>1. arrival \in [Customer -> Nat] /\ arrival_idx \in 1..(N + 1)
      BY <1>0, BakeryAssumption DEF Init
    <2>2. stage \in [Customer -> StageSet] /\ Unset \in [Customer -> Int]
      BY DEF Init, StageSet, Unset
    <2>3. baking \in Seq(Entry) /\ accepting \in Seq(Entry) /\ Len(accepting) <= 1
      BY DEF Init
    <2> QED
      BY <1>0, <2>1, <2>2, <2>3 DEF Init, Types
  <1>2. Queues
    <2>1. ASSUME NEW S, \A c \in Customer : stage[c] \notin S PROVE Lists(<<>>, stage, S)
      <3>1. <<>> \in Seq(Customer) /\ Increasing(<<>>) /\ \A c \in Customer : ~In(<<>>, c)
        BY DEF Increasing, In
      <3> QED
        BY <2>1, <3>1 DEF Lists
    <2>2. CustsOf(<<>>) = <<>>
      BY DEF CustsOf
    <2>3. \A c \in Customer : stage[c] = "outside" /\ c >= arrival_idx
      BY DEF Init, Customer
    <2>4. standing_q = <<>> /\ sofa_q = <<>> /\ accept_ready_q = <<>> /\ baking = <<>> /\ accepting = <<>>
      BY DEF Init
    <2>5. Lists(<<>>, stage, {"standing"}) /\ Lists(<<>>, stage, OnSofa) /\ Lists(<<>>, stage, {"paying"})
          /\ Lists(<<>>, stage, {"baking"}) /\ Lists(<<>>, stage, {"accepted"})
      BY <2>1, <2>3 DEF OnSofa
    <2> QED
      BY <2>2, <2>3, <2>4, <2>5 DEF Queues
  <1>3. Times
    BY DEF Init, Times, Unset
  <1>4. Chefs
    BY DEF Init, Chefs, ChefsOf
  <1>5. Counts
    BY <1>0, BakeryAssumption DEF Init, Counts
  <1>6. NoOvertaking /\ PaymentTaken
    BY DEF Init, NoOvertaking, Served, PaymentTaken
  <1> QED
    BY <1>1, <1>2, <1>3, <1>4, <1>5, <1>6 DEF Inv
-----------------------------------------------------------------------------
(* The theorems.                                                            *)

\* The day's invariant: queues hold the customers of their stages in the order
\* of arrival, who came first sat, asked and paid first, and chefs, ovens and
\* seats are accounted for (every function main calls in a second).
THEOREM DayInvariant == Spec => []Inv
  <1>1. Inv /\ [Next]_vars => Inv'
    <2> SUFFICES ASSUME Inv, [Next]_vars PROVE Inv'
      OBVIOUS
    <2>1. CASE FinishAccept
      <3>1. CASE AcceptEnds
        BY <2>1, <3>1, FinishAcceptStep
      <3>2. CASE ~AcceptEnds
        BY <2>1, <3>2, Leaving DEF FinishAccept, Then, inputVars, timeVars, queueVars, taskVars, shopVars
      <3> QED
        BY <3>1, <3>2
    <2> QED
      BY <2>1, RefuseStep, EnterStep, SitStep, RequestStep, AcceptStep, BakeStep, FinishBakeStep,
         TickStep, Quiet, Nothing DEF Next, Stop, Then
  <1> QED
    BY <1>1, InitStep, PTL DEF Spec

\* A set of chefs with one task each is as large as the list of tasks.
LEMMA OneChefEach ==
  ASSUME NEW b \in Seq(Entry), \A i, j \in DOMAIN b : b[i].chef = b[j].chef => i = j
  PROVE  Cardinality(ChefsOf(b)) = Len(b)
  <1> DEFINE f == [i \in 1..Len(b) |-> b[i].chef]
  <1>1. DOMAIN b = 1..Len(b) /\ Len(b) \in Nat
    OBVIOUS
  <1>2. f \in Bijection(1..Len(b), ChefsOf(b))
    BY <1>1 DEF ChefsOf, Bijection, Injection, Surjection, IsInjective
  <1>3. ExistsBijection(1..Len(b), ChefsOf(b))
    BY <1>2 DEF ExistsBijection
  <1> QED
    BY <1>1, <1>3, FS_CountingElements

\* Through every order in which accepting and baking end and start, chefs, ovens,
\* seats and places are each with one task, one cake or one customer, and come back
\* (finish_tasks_at_time, schedule_accepts, schedule_bakes, main.c 148-330).
THEOREM ResourcesAreBalanced == Spec => []ResourcesBalance
  <1>1. Inv => ResourcesBalance
    <2> SUFFICES ASSUME Inv PROVE ResourcesBalance
      OBVIOUS
    <2>0. baking \in Seq(Entry) /\ accepting \in Seq(Entry)
      BY DEF Inv, Types
    <2>1. /\ Tasks \in Seq(Entry) /\ Len(Tasks) = Len(baking) + Len(accepting)
          /\ DOMAIN Tasks = 1..(Len(baking) + Len(accepting))
          /\ \A i \in DOMAIN Tasks :
               Tasks[i] = IF i <= Len(baking) THEN baking[i] ELSE accepting[i - Len(baking)]
      BY <2>0, ConcatProperties DEF Tasks
    <2>2. /\ DOMAIN baking = 1..Len(baking) /\ Len(baking) \in Nat
          /\ DOMAIN accepting = 1..Len(accepting) /\ Len(accepting) \in Nat
      BY <2>0
    <2>3. ASSUME NEW i \in DOMAIN Tasks
          PROVE  \/ i \in DOMAIN baking /\ Tasks[i] = baking[i]
                 \/ i > Len(baking) /\ i - Len(baking) \in DOMAIN accepting /\ Tasks[i] = accepting[i - Len(baking)]
      BY <2>1, <2>2
    <2>4. ASSUME NEW i \in DOMAIN baking PROVE i \in DOMAIN Tasks /\ Tasks[i] = baking[i]
      BY <2>1, <2>2
    <2>5. ASSUME NEW i \in DOMAIN accepting
          PROVE  Len(baking) + i \in DOMAIN Tasks /\ Tasks[Len(baking) + i] = accepting[i]
      <3>1. Len(baking) + i \in DOMAIN Tasks /\ ~(Len(baking) + i <= Len(baking)) /\ (Len(baking) + i) - Len(baking) = i
        BY <2>1, <2>2
      <3> QED
        BY <2>1, <3>1
    <2>6. ChefsOf(Tasks) = ChefsOf(baking) \cup ChefsOf(accepting)
      <3>1. \A x \in ChefsOf(Tasks) : x \in ChefsOf(baking) \cup ChefsOf(accepting)
        BY <2>3 DEF ChefsOf
      <3>2. \A x \in ChefsOf(baking) \cup ChefsOf(accepting) : x \in ChefsOf(Tasks)
        BY <2>4, <2>5 DEF ChefsOf
      <3> QED
        BY <3>1, <3>2
    <2>7. ASSUME NEW i \in DOMAIN accepting, NEW j \in DOMAIN accepting PROVE i = j
      <3>1. Len(accepting) <= 1
        BY DEF Inv, Types
      <3> QED
        BY <2>2, <3>1
    <2>8. \A i, j \in DOMAIN Tasks : Tasks[i].chef = Tasks[j].chef => i = j
      <3> SUFFICES ASSUME NEW i \in DOMAIN Tasks, NEW j \in DOMAIN Tasks, Tasks[i].chef = Tasks[j].chef
                   PROVE  i = j
        OBVIOUS
      <3>1. \A k \in DOMAIN baking, l \in DOMAIN accepting : baking[k].chef # accepting[l].chef
        BY DEF Inv, Chefs
      <3>2. CASE i \in DOMAIN baking /\ Tasks[i] = baking[i]
        <4>1. j \in DOMAIN baking /\ Tasks[j] = baking[j]
          BY <2>3, <3>1, <3>2
        <4> QED
          BY <3>2, <4>1 DEF Inv, Chefs
      <3>3. CASE i > Len(baking) /\ i - Len(baking) \in DOMAIN accepting /\ Tasks[i] = accepting[i - Len(baking)]
        <4>1. j > Len(baking) /\ j - Len(baking) \in DOMAIN accepting
          BY <2>3, <3>1, <3>3
        <4>2. i - Len(baking) = j - Len(baking)
          BY <2>7, <3>3, <4>1
        <4>3. i \in Int /\ j \in Int
          BY <2>1
        <4> QED
          BY <2>2, <4>2, <4>3
      <3> QED
        BY <2>3, <3>2, <3>3
    <2>9. Cardinality(ChefsOf(Tasks)) = Len(Tasks)
      BY <2>1, <2>8, OneChefEach
    <2> QED
      BY <2>6, <2>9 DEF Inv, Chefs, Counts, ResourcesBalance
  <1> QED
    BY <1>1, DayInvariant, PTL

\* Through four queues with waits of their own no customer overtakes one who came in
\* earlier (main.c 148-330; C/README.md, "FIFO scheduling").
THEOREM NobodyOvertakes == Spec => []NoOvertaking
  <1>1. Inv => NoOvertaking
    BY DEF Inv
  <1> QED
    BY <1>1, DayInvariant, PTL

\* When a cake goes into an oven, the register is busy or no one who has paid waits
\* for it (schedule_accepts before schedule_bakes, main.c 262-330).
THEOREM PaymentComesFirst == Spec => PaymentFirst
  <1>1. Inv /\ [Next]_vars =>
          [Bake => accepting # <<>> \/ \A i \in DOMAIN accept_ready_q :
                     current_time < t_pay_time[accept_ready_q[i]] + T_CUSTOMER_ACTION]_vars
    <2> SUFFICES ASSUME Inv, Bake, accepting = <<>>, NEW i \in DOMAIN accept_ready_q
                 PROVE  current_time < t_pay_time[accept_ready_q[i]] + T_CUSTOMER_ACTION
      OBVIOUS
    <2> DEFINE h == Head(accept_ready_q)
               c == accept_ready_q[i]
    <2>1. /\ accept_ready_q \in Seq(Customer) /\ Increasing(accept_ready_q)
          /\ \A d \in Customer : stage[d] = "paying" <=> In(accept_ready_q, d)
      BY DEF Inv, Queues, Lists
    <2>2. accept_ready_q # <<>>
      BY <2>1
    <2>3. h \in Customer /\ In(accept_ready_q, h) /\ \A d \in Customer : In(accept_ready_q, d) => h <= d
      BY <2>1, <2>2, QueueTail
    <2>4. c \in Customer /\ In(accept_ready_q, c)
      BY <2>1 DEF In
    <2>5. current_time < t_pay_time[h] + T_CUSTOMER_ACTION
      BY <2>2 DEF Bake, MayBake, Inv, PaymentTaken
    <2>6. t_pay_time[h] \in Int /\ t_pay_time[c] \in Int /\ current_time \in Int
      BY <2>3, <2>4 DEF Inv, Types
    <2>7. t_pay_time[h] <= t_pay_time[c]
      <3>1. h = c \/ h < c
        BY <2>3, <2>4 DEF Customer
      <3> QED
        BY <2>1, <2>3, <2>4, <2>6, <3>1 DEF Inv, Times
    <2> HIDE DEF h, c
    <2>8. current_time < t_pay_time[c] + T_CUSTOMER_ACTION
      BY <2>5, <2>6, <2>7 DEF T_CUSTOMER_ACTION
    <2> QED
      BY <2>8 DEF c
  <1> QED
    BY <1>1, DayInvariant, PTL DEF Spec, PaymentFirst
=============================================================================
