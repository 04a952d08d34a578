------------------------------- MODULE Bakery -------------------------------
(***************************************************************************)
(* The bakery simulation of C/main.c.                                      *)
(*                                                                         *)
(* Every second main calls the same functions in the same order; step says *)
(* which one runs next, and one iteration of a function's loop is one      *)
(* action.  Customers are numbered by their place in the sorted arrivals.  *)
(***************************************************************************)
EXTENDS Integers, SequencesExt, FiniteSetsExt

CONSTANTS
  N,             \* number of customers in the input
  Horizon,       \* bound: the last second at which a customer arrives
  MaxTime,       \* bound on the clock; EveryoneLeaves shows it is not reached
  MAX_CAPACITY, NUM_OVENS, NUM_CHEFS, SOFA_CAPACITY

ASSUME BakeryAssumption ==
  /\ N \in Nat \ {0} /\ Horizon \in Nat /\ MaxTime \in Nat
  /\ {MAX_CAPACITY, NUM_OVENS, NUM_CHEFS, SOFA_CAPACITY} \subseteq Nat \ {0}

Customer == 1..N
Chef == 1..NUM_CHEFS
T_CUSTOMER_ACTION == 1
T_CHEF_ACTION == 2

VARIABLES
  arrival,       \* arrivals[], sorted by time
  arrival_idx,   \* the next customer to arrive
  current_time, step,
  stage,         \* the flags of customer_t
  t_sat, t_request, t_pay_time,
  standing_q, sofa_q, accept_ready_q,
  baking,        \* baking[], in the order of the starts
  accepting,     \* the one entry of the register, if register_busy
  chef_free, ovens_available, people_inside,
  last_seat_freed_time

inputVars == <<arrival>>
clockVars == <<current_time, step>>
timeVars  == <<t_sat, t_request, t_pay_time>>
queueVars == <<standing_q, sofa_q, accept_ready_q>>
taskVars  == <<baking, accepting, chef_free, ovens_available>>
shopVars  == <<people_inside, last_seat_freed_time>>
vars == <<inputVars, arrival_idx, clockVars, stage, timeVars, queueVars, taskVars, shopVars>>

Then(s) == step' = s /\ UNCHANGED current_time
Becomes(c, s) == stage' = [stage EXCEPT ![c] = s]

-----------------------------------------------------------------------------
(* process_arrivals_at_time                                                 *)

Arrives == arrival_idx <= N /\ arrival[arrival_idx] = current_time

\* Mutant: one more than the capacity may enter.
FullLate == people_inside > MAX_CAPACITY

Full == people_inside >= MAX_CAPACITY

Refuse ==
  /\ step = "arrive" /\ Arrives /\ Full
  /\ Becomes(arrival_idx, "refused")
  /\ arrival_idx' = arrival_idx + 1
  /\ UNCHANGED <<inputVars, clockVars, timeVars, queueVars, taskVars, shopVars>>

Enter ==
  /\ step = "arrive" /\ Arrives /\ ~Full
  /\ Becomes(arrival_idx, "standing")
  /\ people_inside' = people_inside + 1
  /\ standing_q' = Append(standing_q, arrival_idx)
  /\ arrival_idx' = arrival_idx + 1
  /\ UNCHANGED <<inputVars, clockVars, timeVars, sofa_q, accept_ready_q, taskVars,
                 last_seat_freed_time>>

ArriveDone ==
  /\ step = "arrive" /\ ~Arrives
  /\ Then("finishaccept")
  /\ UNCHANGED <<inputVars, arrival_idx, stage, timeVars, queueVars, taskVars, shopVars>>

-----------------------------------------------------------------------------
(* finish_tasks_at_time                                                     *)

AcceptEnds == accepting # <<>> /\ accepting[1].end = current_time
SeatOf(c) == CHOOSE i \in DOMAIN sofa_q : sofa_q[i] = c

\* Mutant: the seat is not given up.
FinishAcceptSeated ==
  /\ step = "finishaccept"
  /\ Then("finishbake")
  /\ \/ /\ ~AcceptEnds
        /\ UNCHANGED <<stage, accepting, chef_free, shopVars>>
     \/ /\ AcceptEnds
        /\ Becomes(accepting[1].cust, "gone")
        /\ chef_free' = chef_free \cup {accepting[1].chef}
        /\ accepting' = <<>>
        /\ people_inside' = people_inside - 1
        /\ last_seat_freed_time' = current_time
  /\ UNCHANGED <<inputVars, arrival_idx, timeVars, queueVars, baking, ovens_available>>

\* The customer leaves; chef, register, seat and place are free again.
FinishAccept ==
  /\ step = "finishaccept"
  /\ Then("finishbake")
  /\ \/ /\ ~AcceptEnds
        /\ UNCHANGED <<stage, sofa_q, accepting, chef_free, shopVars>>
     \/ /\ AcceptEnds
        /\ Becomes(accepting[1].cust, "gone")
        /\ sofa_q' = RemoveAt(sofa_q, SeatOf(accepting[1].cust))
        /\ chef_free' = chef_free \cup {accepting[1].chef}
        /\ accepting' = <<>>
        /\ people_inside' = people_inside - 1
        /\ last_seat_freed_time' = current_time
  /\ UNCHANGED <<inputVars, arrival_idx, timeVars, standing_q, accept_ready_q, baking,
                 ovens_available>>

\* The places in baking[] of the entries that end now.
Ending == {i \in DOMAIN baking : baking[i].end = current_time}

\* Mutant: the last of the finished bakings is taken first.
FinishBakeLast ==
  LET i == Max(Ending)
      c == baking[i].cust IN
  /\ step = "finishbake" /\ Ending # {}
  /\ Becomes(c, "paying")
  /\ t_pay_time' = [t_pay_time EXCEPT ![c] = current_time]
  /\ accept_ready_q' = Append(accept_ready_q, c)
  /\ chef_free' = chef_free \cup {baking[i].chef}
  /\ ovens_available' = ovens_available + 1
  /\ baking' = RemoveAt(baking, i)
  /\ UNCHANGED <<inputVars, arrival_idx, clockVars, t_sat, t_request, standing_q, sofa_q,
                 accepting, shopVars>>

\* The customer pays; chef and oven are free again, the entry is not copied back.
FinishBake ==
  LET i == Min(Ending)
      c == baking[i].cust IN
  /\ step = "finishbake" /\ Ending # {}
  /\ Becomes(c, "paying")
  /\ t_pay_time' = [t_pay_time EXCEPT ![c] = current_time]
  /\ accept_ready_q' = Append(accept_ready_q, c)
  /\ chef_free' = chef_free \cup {baking[i].chef}
  /\ ovens_available' = ovens_available + 1
  /\ baking' = RemoveAt(baking, i)
  /\ UNCHANGED <<inputVars, arrival_idx, clockVars, t_sat, t_request, standing_q, sofa_q,
                 accepting, shopVars>>

FinishBakesDone ==
  /\ step = "finishbake" /\ Ending = {}
  /\ Then("sit")
  /\ UNCHANGED <<inputVars, arrival_idx, stage, timeVars, queueVars, taskVars, shopVars>>

-----------------------------------------------------------------------------
(* move_standing_to_sofa_if_possible and make_requests_from_sofa            *)

\* Never earlier than one second after any seat was given up.
DelayAfterFree == IF last_seat_freed_time = -1 THEN 0 ELSE last_seat_freed_time + 1

MaySit ==
  /\ Len(sofa_q) < SOFA_CAPACITY /\ standing_q # <<>>
  /\ current_time >= arrival[Head(standing_q)] + T_CUSTOMER_ACTION
  /\ current_time >= DelayAfterFree

Sit ==
  LET c == Head(standing_q) IN
  /\ step = "sit" /\ MaySit
  /\ standing_q' = Tail(standing_q)
  /\ sofa_q' = Append(sofa_q, c)
  /\ Becomes(c, "seated")
  /\ t_sat' = [t_sat EXCEPT ![c] = current_time]
  /\ UNCHANGED <<inputVars, arrival_idx, clockVars, t_request, t_pay_time, accept_ready_q,
                 taskVars, shopVars>>

SitDone ==
  /\ step = "sit" /\ ~MaySit
  /\ Then("request")
  /\ UNCHANGED <<inputVars, arrival_idx, stage, timeVars, queueVars, taskVars, shopVars>>

\* Customers on the sofa who have sat for a second.
Asking == {c \in Customer : /\ Contains(sofa_q, c) /\ stage[c] = "seated"
                            /\ current_time >= t_sat[c] + T_CUSTOMER_ACTION}

Request ==
  /\ step = "request"
  /\ Then("accept")
  /\ stage' = [c \in Customer |-> IF c \in Asking THEN "requested" ELSE stage[c]]
  /\ t_request' = [c \in Customer |-> IF c \in Asking THEN current_time ELSE t_request[c]]
  /\ UNCHANGED <<inputVars, arrival_idx, t_sat, t_pay_time, queueVars, taskVars, shopVars>>

-----------------------------------------------------------------------------
(* schedule_accepts and schedule_bakes                                      *)

\* get_free_chef
FreeChef == Min(chef_free)
Task(c) == [cust |-> c, chef |-> FreeChef, end |-> current_time + T_CHEF_ACTION]

\* Mutant: payment is accepted a second late.
MayAcceptLate ==
  /\ accepting = <<>> /\ chef_free # {} /\ accept_ready_q # <<>>
  /\ current_time > t_pay_time[Head(accept_ready_q)] + T_CUSTOMER_ACTION

MayAccept ==
  /\ accepting = <<>> /\ chef_free # {} /\ accept_ready_q # <<>>
  /\ current_time >= t_pay_time[Head(accept_ready_q)] + T_CUSTOMER_ACTION

Accept ==
  LET c == Head(accept_ready_q) IN
  /\ step = "accept" /\ MayAccept
  /\ accept_ready_q' = Tail(accept_ready_q)
  /\ Becomes(c, "accepted")
  /\ accepting' = <<Task(c)>>
  /\ chef_free' = chef_free \ {FreeChef}
  /\ UNCHANGED <<inputVars, arrival_idx, clockVars, timeVars, standing_q, sofa_q, baking,
                 ovens_available, shopVars>>

AcceptDone ==
  /\ step = "accept" /\ ~MayAccept
  /\ Then("bake")
  /\ UNCHANGED <<inputVars, arrival_idx, stage, timeVars, queueVars, taskVars, shopVars>>

\* Places on the sofa of customers whose cake can be baked now.
Eligible == {i \in DOMAIN sofa_q :
               /\ stage[sofa_q[i]] = "requested"
               /\ current_time >= t_request[sofa_q[i]] + T_CUSTOMER_ACTION}

MayBake == ovens_available > 0 /\ chef_free # {} /\ Eligible # {}

\* The customer who has sat longest; the seat stays taken.
Bake ==
  LET c == sofa_q[Min(Eligible)] IN
  /\ step = "bake" /\ MayBake
  /\ Becomes(c, "baking")
  /\ baking' = Append(baking, Task(c))
  /\ ovens_available' = ovens_available - 1
  /\ chef_free' = chef_free \ {FreeChef}
  /\ UNCHANGED <<inputVars, arrival_idx, clockVars, timeVars, queueVars, accepting, shopVars>>

-----------------------------------------------------------------------------
(* The end of main's loop body.                                             *)

AllDone ==
  /\ accepting = <<>> /\ baking = <<>> /\ people_inside <= 0 /\ arrival_idx > N
  /\ standing_q = <<>> /\ sofa_q = <<>> /\ accept_ready_q = <<>>

Tick ==
  /\ step = "bake" /\ ~MayBake /\ ~AllDone
  /\ current_time < MaxTime
  /\ current_time' = current_time + 1
  /\ step' = "arrive"
  /\ UNCHANGED <<inputVars, arrival_idx, stage, timeVars, queueVars, taskVars, shopVars>>

Stop ==
  /\ step = "bake" /\ ~MayBake /\ AllDone
  /\ Then("stopped")
  /\ UNCHANGED <<inputVars, arrival_idx, stage, timeVars, queueVars, taskVars, shopVars>>

Next == \/ Refuse \/ Enter \/ ArriveDone
        \/ FinishAccept \/ FinishBake \/ FinishBakesDone
        \/ Sit \/ SitDone \/ Request
        \/ Accept \/ AcceptDone \/ Bake
        \/ Tick \/ Stop

Unset == [c \in Customer |-> -1]

\* The clock starts at the first arrival, here at second 0.
Init ==
  /\ arrival \in [Customer -> 0..Horizon]
  /\ arrival[1] = 0 /\ \A c, d \in Customer : c <= d => arrival[c] <= arrival[d]
  /\ arrival_idx = 1 /\ current_time = 0 /\ step = "arrive"
  /\ stage = [c \in Customer |-> "outside"]
  /\ t_sat = Unset /\ t_request = Unset /\ t_pay_time = Unset
  /\ standing_q = <<>> /\ sofa_q = <<>> /\ accept_ready_q = <<>>
  /\ baking = <<>> /\ accepting = <<>>
  /\ chef_free = Chef /\ ovens_available = NUM_OVENS
  /\ people_inside = 0 /\ last_seat_freed_time = -1

\* main runs until it returns.
Spec == Init /\ [][Next]_vars /\ WF_vars(Next)

-----------------------------------------------------------------------------
\* The stages of a customer who is let in, in their order.
Rank == [standing |-> 1, seated |-> 2, requested |-> 3, baking |-> 4, paying |-> 5,
         accepted |-> 6, gone |-> 7]
Served(c) == stage[c] \notin {"outside", "refused"}
Tasks == baking \o accepting
ChefsOf(tasks) == {tasks[i].chef : i \in DOMAIN tasks}

\* Chefs, ovens, seats and places are each with one task, one cake or one
\* customer and come back on every path: nothing is given out twice or lost.
ResourcesBalance ==
  /\ ovens_available + Len(baking) = NUM_OVENS
  /\ chef_free = Chef \ ChefsOf(Tasks) /\ Cardinality(ChefsOf(Tasks)) = Len(Tasks)
  /\ people_inside = Len(standing_q) + Len(sofa_q)
  /\ people_inside <= MAX_CAPACITY /\ Len(sofa_q) <= SOFA_CAPACITY

\* C/README.md, "FIFO scheduling": through four queues with waits of their own
\* no customer overtakes one who came in earlier.
NoOvertaking ==
  \A c, d \in Customer : c < d /\ Served(c) /\ Served(d) => Rank[stage[c]] >= Rank[stage[d]]

\* C/README.md, "payment acceptance takes precedence over starting new bakes":
\* when a cake goes into an oven, no one who has paid waits for a free register.
PaymentFirst ==
  [][Bake => accepting # <<>> \/ \A i \in DOMAIN accept_ready_q :
       current_time < t_pay_time[accept_ready_q[i]] + T_CUSTOMER_ACTION]_vars

\* The simulation ends before MaxTime, and everyone who was let in has been
\* served by then: no seat, place or queue entry is left over to keep it going.
EveryoneLeaves == <>(step = "stopped" /\ \A c \in Customer : stage[c] \in {"gone", "refused"})
=============================================================================
