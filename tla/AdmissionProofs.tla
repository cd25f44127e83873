--------------------------- MODULE AdmissionProofs ---------------------------
(***************************************************************************)
(* Proofs about Admission, for any number of workers, resources, calls,    *)
(* budgets and bucket sizes.  The inductive invariant adds to the checked  *)
(* properties where a worker's cursor stands in each control state, and    *)
(* that a call still being admitted has not started.                       *)
(***************************************************************************)
EXTENDS Admission, FiniteSetTheorems, TLAPS

Admitting == {"budget", "check", "select", "refund", "unbudget"}
InBucket == {"check", "select", "refund"}
InChain == {"check", "select", "refund", "unbudget"}
Outside == {"idle", "work", "failed"}

\* The cursor of one worker: its place in its names, its tokens, its call.
CursorOK(w) ==
    /\ pc[w] \in Outside => pos[w] = 0
    /\ pc[w] \in Admitting => pos[w] \in 1 .. Len(Names[w])
    /\ pc[w] = "commit" => pos[w] = Len(Names[w]) + 1
    /\ pc[w] \in InBucket => Current(w) \in Rated
    /\ pc[w] \notin InBucket => acquired[w] = 0
    /\ acquired[w] <= units[w]
    /\ pc[w] = "select" => acquired[w] < units[w]
    /\ pc[w] \notin Outside => calls[w] >= 1 /\ units[w] >= 1

\* A call being admitted is newer than every call of its worker that started.
CallsFresh ==
    \A c \in started : /\ c[2] <= calls[c[1]]
                       /\ pc[c[1]] \notin Outside => c[2] < calls[c[1]]

Control == (\A w \in Workers : CursorOK(w)) /\ CallsFresh

------------------------------------------------------------------------------
(* Types and control                                                         *)

Core == TypeOK /\ Control

\* What the steps below use of the constants, for one worker.
LEMMA ConstantFacts ==
    ASSUME NEW w \in Workers
    PROVE  /\ Len(Names[w]) \in Nat
           /\ \A i \in 1 .. Len(Names[w]) : Names[w][i] \in Resources
           /\ Names[w] = <<>> <=> Len(Names[w]) = 0
           /\ \A u \in Sizes[w] : u \in 1 .. MaxUnits
           /\ MaxUnits \in Nat /\ MaxCalls \in Nat
<1>1. Names[w] \in Seq(Resources)
  BY AdmissionAssumption
<1>2. /\ \A u \in Sizes[w] : u \in 1 .. MaxUnits
      /\ MaxUnits \in Nat /\ MaxCalls \in Nat
  BY AdmissionAssumption
<1> QED BY <1>1, <1>2

\* What Core says of one worker.
LEMMA WorkerFacts ==
    ASSUME Core, NEW w \in Workers
    PROVE  /\ pc[w] \in PC
           /\ pos[w] \in Nat
           /\ acquired[w] \in Nat /\ acquired[w] <= MaxUnits
           /\ calls[w] \in Nat /\ calls[w] <= MaxCalls
           /\ units[w] \in Nat /\ units[w] <= MaxUnits
           /\ CursorOK(w)
BY ConstantFacts DEF Core, Control, TypeOK

\* A new runEnv satisfies Core: full budgets and buckets, no worker in admit.
LEMMA CoreInit == Init => Core
BY AdmissionAssumption, RateAssumption
DEF Init, Core, TypeOK, Control, CursorOK, CallsFresh, PC, Outside, Admitting,
    InBucket, Calls

\* Advance and Retreat move one worker's cursor and keep the types.
LEMMA AdvanceEffect ==
    ASSUME Core, NEW w \in Workers, Advance(w)
    PROVE  /\ pos' \in [Workers -> Nat]
           /\ pc' \in [Workers -> PC]
           /\ pos'[w] = pos[w] + 1
           /\ pc'[w] = IF pos[w] = Len(Names[w]) THEN "commit" ELSE "budget"
           /\ \A v \in Workers \ {w} : pos'[v] = pos[v] /\ pc'[v] = pc[v]
<1>1. pos \in [Workers -> Nat] /\ pc \in [Workers -> PC]
  BY DEF Core, TypeOK
<1>2. pos' = [pos EXCEPT ![w] = pos[w] + 1]
  BY DEF Advance
<1>3. pc' = [pc EXCEPT ![w] = IF pos[w] = Len(Names[w]) THEN "commit" ELSE "budget"]
  BY DEF Advance, Goto
<1>4. pos' \in [Workers -> Nat] /\ pos'[w] = pos[w] + 1
  BY <1>1, <1>2
<1> QED BY <1>1, <1>2, <1>3, <1>4 DEF PC

\* Retreat moves the cursor one name back and sets what is still to refund.
LEMMA RetreatEffect ==
    ASSUME Core, NEW w \in Workers, Retreat(w), pos[w] \in 1 .. Len(Names[w])
    PROVE  /\ pos' \in [Workers -> Nat]
           /\ pc' \in [Workers -> PC]
           /\ acquired' \in [Workers -> 0 .. MaxUnits]
           /\ pos'[w] = pos[w] - 1
           /\ \/ pos[w] = 1 /\ pc'[w] = "failed" /\ acquired'[w] = 0
              \/ /\ pos[w] > 1 /\ Names[w][pos[w] - 1] \in Rated
                 /\ pc'[w] = "refund" /\ acquired'[w] = units[w]
              \/ /\ pos[w] > 1 /\ Names[w][pos[w] - 1] \notin Rated
                 /\ pc'[w] = "unbudget" /\ acquired'[w] = 0
           /\ \A v \in Workers \ {w} : /\ pos'[v] = pos[v] /\ pc'[v] = pc[v]
                                       /\ acquired'[v] = acquired[v]
<1> DEFINE rated == pos[w] - 1 > 0 /\ Names[w][pos[w] - 1] \in Rated
           label == IF pos[w] - 1 = 0 THEN "failed"
                    ELSE IF rated THEN "refund" ELSE "unbudget"
           kept == IF rated THEN units[w] ELSE 0
<1>1. /\ pos \in [Workers -> Nat] /\ pc \in [Workers -> PC]
      /\ acquired \in [Workers -> 0 .. MaxUnits]
  BY DEF Core, TypeOK
<1>2. /\ pos' = [pos EXCEPT ![w] = pos[w] - 1]
      /\ acquired' = [acquired EXCEPT ![w] = kept]
      /\ pc' = [pc EXCEPT ![w] = label]
  BY DEF Retreat, Goto
<1>3. pos[w] - 1 \in Nat /\ kept \in 0 .. MaxUnits /\ label \in PC
  BY WorkerFacts, ConstantFacts DEF PC
<1>4. pos' \in [Workers -> Nat] /\ pos'[w] = pos[w] - 1
  BY <1>1, <1>2, <1>3
<1>5. acquired' \in [Workers -> 0 .. MaxUnits] /\ acquired'[w] = kept
  BY <1>1, <1>2, <1>3
<1>6. pc' \in [Workers -> PC] /\ pc'[w] = label
  BY <1>1, <1>2, <1>3
<1>7. \A v \in Workers \ {w} : /\ pos'[v] = pos[v] /\ pc'[v] = pc[v]
                              /\ acquired'[v] = acquired[v]
  BY <1>1, <1>2
<1>8. \/ pos[w] = 1 /\ label = "failed" /\ kept = 0
      \/ pos[w] > 1 /\ Names[w][pos[w] - 1] \in Rated
         /\ label = "refund" /\ kept = units[w]
      \/ pos[w] > 1 /\ Names[w][pos[w] - 1] \notin Rated
         /\ label = "unbudget" /\ kept = 0
  BY WorkerFacts, ConstantFacts
<1> QED BY <1>4, <1>5, <1>6, <1>7, <1>8

\* Core is preserved by Budget.Reserve granting the units.
LEMMA BudgetReserveCore ==
    ASSUME Core, NEW w \in Workers, BudgetReserve(w)
    PROVE  Core'
<1>0. pos[w] \in 1 .. Len(Names[w]) /\ Current(w) \in Resources
  BY WorkerFacts, ConstantFacts DEF BudgetReserve, CursorOK, Admitting, Current
<1>1. /\ pos' \in [Workers -> Nat] /\ pc' \in [Workers -> PC]
      /\ \/ /\ Current(w) \in Rated
            /\ pos'[w] = pos[w] /\ pc'[w] = "check"
         \/ /\ Current(w) \notin Rated
            /\ pos'[w] = pos[w] + 1
            /\ pc'[w] = IF pos[w] = Len(Names[w]) THEN "commit" ELSE "budget"
      /\ \A v \in Workers \ {w} : pos'[v] = pos[v] /\ pc'[v] = pc[v]
  <2>1. CASE Current(w) \in Rated
    BY <2>1 DEF BudgetReserve, Goto, Core, TypeOK, PC
  <2>2. CASE Current(w) \notin Rated
    BY <2>2, AdvanceEffect DEF BudgetReserve
  <2> QED BY <2>1, <2>2
<1>2. TypeOK'
  <2>1. (remaining \in [Resources -> Nat])'
    BY <1>0, WorkerFacts DEF Core, TypeOK, BudgetReserve
  <2> QED BY <1>1, <2>1
      DEF Core, TypeOK, BudgetReserve, bucketVars, PC, Calls
<1>3. ASSUME NEW v \in Workers
      PROVE  CursorOK(v)'
  <2>1. CASE v = w
    BY <1>0, <1>1, <2>1, WorkerFacts, ConstantFacts
    DEF BudgetReserve, CursorOK, Current, Admitting, InBucket, Outside
  <2>2. CASE v # w
    BY <1>1, <2>2, WorkerFacts DEF BudgetReserve, CursorOK, Current
  <2> QED BY <2>1, <2>2
<1>4. CallsFresh'
  BY <1>1, WorkerFacts DEF Core, Control, TypeOK, CallsFresh, Calls, Outside, BudgetReserve
<1> QED BY <1>2, <1>3, <1>4 DEF Core, Control

\* Core is preserved by Budget.Reserve refusing.
LEMMA BudgetRefuseCore ==
    ASSUME Core, NEW w \in Workers, BudgetRefuse(w)
    PROVE  Core'
<1>0. pos[w] \in 1 .. Len(Names[w]) /\ Current(w) \in Resources
  BY WorkerFacts, ConstantFacts DEF BudgetRefuse, CursorOK, Admitting, Current
<1>1. /\ pos' \in [Workers -> Nat]
      /\ pc' \in [Workers -> PC]
      /\ acquired' \in [Workers -> 0 .. MaxUnits]
      /\ pos'[w] = pos[w] - 1
      /\ \/ pos[w] = 1 /\ pc'[w] = "failed" /\ acquired'[w] = 0
         \/ /\ pos[w] > 1 /\ Names[w][pos[w] - 1] \in Rated
            /\ pc'[w] = "refund" /\ acquired'[w] = units[w]
         \/ /\ pos[w] > 1 /\ pc'[w] = "unbudget" /\ acquired'[w] = 0
      /\ \A v \in Workers \ {w} : /\ pos'[v] = pos[v] /\ pc'[v] = pc[v]
                                  /\ acquired'[v] = acquired[v]
  BY <1>0, RetreatEffect DEF BudgetRefuse
<1>2. TypeOK'
  BY <1>1
  DEF Core, TypeOK, BudgetRefuse, bucketVars, PC, Calls
<1>3. ASSUME NEW v \in Workers
      PROVE  CursorOK(v)'
  <2>1. CASE v = w
    BY <1>0, <1>1, <2>1, WorkerFacts, ConstantFacts
    DEF BudgetRefuse, CursorOK, Current, Admitting, InBucket, Outside
  <2>2. CASE v # w
    BY <1>1, <2>2, WorkerFacts DEF BudgetRefuse, CursorOK, Current
  <2> QED BY <2>1, <2>2
<1>4. CallsFresh'
  BY <1>1, WorkerFacts DEF Core, Control, TypeOK, CallsFresh, Calls, Outside, BudgetRefuse
<1> QED BY <1>2, <1>3, <1>4 DEF Core, Control

\* Core is preserved by the rollback of one budget reservation.
LEMMA BudgetRollbackCore ==
    ASSUME Core, NEW w \in Workers, BudgetRollback(w)
    PROVE  Core'
<1>0. pos[w] \in 1 .. Len(Names[w]) /\ Current(w) \in Resources
  BY WorkerFacts, ConstantFacts DEF BudgetRollback, CursorOK, Admitting, Current
<1>1. /\ pos' \in [Workers -> Nat]
      /\ pc' \in [Workers -> PC]
      /\ acquired' \in [Workers -> 0 .. MaxUnits]
      /\ pos'[w] = pos[w] - 1
      /\ \/ pos[w] = 1 /\ pc'[w] = "failed" /\ acquired'[w] = 0
         \/ /\ pos[w] > 1 /\ Names[w][pos[w] - 1] \in Rated
            /\ pc'[w] = "refund" /\ acquired'[w] = units[w]
         \/ /\ pos[w] > 1 /\ pc'[w] = "unbudget" /\ acquired'[w] = 0
      /\ \A v \in Workers \ {w} : /\ pos'[v] = pos[v] /\ pc'[v] = pc[v]
                                  /\ acquired'[v] = acquired[v]
  BY <1>0, RetreatEffect DEF BudgetRollback
<1>2. TypeOK'
  <2>1. (remaining \in [Resources -> Nat])'
    BY <1>0, WorkerFacts DEF Core, TypeOK, BudgetRollback
  <2> QED BY <1>1, <2>1
      DEF Core, TypeOK, BudgetRollback, bucketVars, PC, Calls
<1>3. ASSUME NEW v \in Workers
      PROVE  CursorOK(v)'
  <2>1. CASE v = w
    BY <1>0, <1>1, <2>1, WorkerFacts, ConstantFacts
    DEF BudgetRollback, CursorOK, Current, Admitting, InBucket, Outside
  <2>2. CASE v # w
    BY <1>1, <2>2, WorkerFacts DEF BudgetRollback, CursorOK, Current
  <2> QED BY <2>1, <2>2
<1>4. CallsFresh'
  BY <1>1, WorkerFacts DEF Core, Control, TypeOK, CallsFresh, Calls, Outside, BudgetRollback
<1> QED BY <1>2, <1>3, <1>4 DEF Core, Control

\* Core is preserved by the checks between two receives of TokenBucket.Reserve.
LEMMA BucketCheckCore ==
    ASSUME Core, NEW w \in Workers, BucketCheck(w)
    PROVE  Core'
<1>0. pos[w] \in 1 .. Len(Names[w]) /\ Current(w) \in Resources
  BY WorkerFacts, ConstantFacts DEF BucketCheck, CursorOK, Admitting, Current
<1>1. /\ pos' \in [Workers -> Nat] /\ pc' \in [Workers -> PC]
      /\ acquired' \in [Workers -> 0 .. MaxUnits]
      /\ \/ pos'[w] = pos[w] /\ pc'[w] = "refund" /\ acquired'[w] = acquired[w]
         \/ /\ pos'[w] = pos[w] /\ pc'[w] = "select" /\ acquired'[w] = acquired[w]
            /\ acquired[w] # units[w]
         \/ /\ pos'[w] = pos[w] + 1 /\ acquired'[w] = 0
            /\ pc'[w] = IF pos[w] = Len(Names[w]) THEN "commit" ELSE "budget"
      /\ \A v \in Workers \ {w} : /\ pos'[v] = pos[v] /\ pc'[v] = pc[v]
                                  /\ acquired'[v] = acquired[v]
  <2>1. CASE \E label \in {"refund", "select"} :
               /\ Goto(w, label) /\ UNCHANGED <<pos, acquired>>
               /\ label = "select" => acquired[w] # units[w]
    BY <2>1 DEF Goto, Core, TypeOK, PC
  <2>2. CASE Advance(w) /\ acquired' = [acquired EXCEPT ![w] = 0]
    BY <2>2, AdvanceEffect, ConstantFacts DEF Core, TypeOK
  <2> QED BY <2>1, <2>2 DEF BucketCheck
<1>2. TypeOK'
  BY <1>1
  DEF Core, TypeOK, BucketCheck, bucketVars, PC, Calls
<1>3. ASSUME NEW v \in Workers
      PROVE  CursorOK(v)'
  <2>1. CASE v = w
    BY <1>0, <1>1, <2>1, WorkerFacts, ConstantFacts
    DEF BucketCheck, CursorOK, Current, Admitting, InBucket, Outside
  <2>2. CASE v # w
    BY <1>1, <2>2, WorkerFacts DEF BucketCheck, CursorOK, Current
  <2> QED BY <2>1, <2>2
<1>4. CallsFresh'
  BY <1>1, WorkerFacts DEF Core, Control, TypeOK, CallsFresh, Calls, Outside, BucketCheck
<1> QED BY <1>2, <1>3, <1>4 DEF Core, Control

\* Core is preserved by a receive from the bucket, which cannot exceed the units.
LEMMA TakeTokenCore ==
    ASSUME Core, NEW w \in Workers, TakeToken(w)
    PROVE  Core'
<1>0. pos[w] \in 1 .. Len(Names[w]) /\ Current(w) \in Resources
  BY WorkerFacts, ConstantFacts DEF TakeToken, CursorOK, Admitting, Current
<1>1. /\ pc' \in [Workers -> PC] /\ acquired' \in [Workers -> 0 .. MaxUnits]
      /\ pc'[w] = "check" /\ acquired'[w] = acquired[w] + 1
      /\ \A v \in Workers \ {w} : pc'[v] = pc[v] /\ acquired'[v] = acquired[v]
  <2>1. acquired[w] + 1 \in 0 .. MaxUnits
    BY WorkerFacts, ConstantFacts DEF TakeToken, CursorOK
  <2>2. acquired' = [acquired EXCEPT ![w] = acquired[w] + 1]
    BY DEF TakeToken
  <2>3. acquired' \in [Workers -> 0 .. MaxUnits] /\ acquired'[w] = acquired[w] + 1
    BY <2>1, <2>2 DEF Core, TypeOK
  <2> QED BY <2>2, <2>3 DEF Core, TypeOK, TakeToken, Goto, PC
<1>2. TypeOK'
  <2>1. (tokens \in [Rated -> Nat] /\ \A r \in Rated : tokens[r] <= Burst[r])'
    <3>1. Current(w) \in Rated
      BY WorkerFacts DEF TakeToken, CursorOK, InBucket
    <3>2. tokens' = [tokens EXCEPT ![Current(w)] = tokens[Current(w)] - 1]
      BY DEF TakeToken
    <3>3. /\ tokens \in [Rated -> Nat] /\ \A r \in Rated : tokens[r] <= Burst[r]
          /\ \A r \in Rated : Burst[r] \in Nat
          /\ tokens[Current(w)] > 0
      BY RateAssumption DEF Core, TypeOK, TakeToken
    <3>4. tokens' \in [Rated -> Nat]
      BY <3>1, <3>2, <3>3
    <3> QED BY <3>1, <3>2, <3>3, <3>4
  <2> QED BY <1>1, <2>1
      DEF Core, TypeOK, TakeToken, bucketVars, PC, Calls
<1>3. ASSUME NEW v \in Workers
      PROVE  CursorOK(v)'
  <2>1. CASE v = w
    BY <1>0, <1>1, <2>1, WorkerFacts, ConstantFacts
    DEF TakeToken, CursorOK, Current, Admitting, InBucket, Outside
  <2>2. CASE v # w
    BY <1>1, <2>2, WorkerFacts DEF TakeToken, CursorOK, Current
  <2> QED BY <2>1, <2>2
<1>4. CallsFresh'
  BY <1>1, WorkerFacts DEF Core, Control, TypeOK, CallsFresh, Calls, Outside, TakeToken
<1> QED BY <1>2, <1>3, <1>4 DEF Core, Control

\* Core is preserved by a select that sees its context or the bucket done.
LEMMA SelectRefuseCore ==
    ASSUME Core, NEW w \in Workers, SelectRefuse(w)
    PROVE  Core'
<1>0. pos[w] \in 1 .. Len(Names[w]) /\ Current(w) \in Resources
  BY WorkerFacts, ConstantFacts DEF SelectRefuse, CursorOK, Admitting, Current
<1>1. /\ pc' \in [Workers -> PC] /\ pc'[w] = "refund"
      /\ \A v \in Workers \ {w} : pc'[v] = pc[v]
  BY DEF Core, TypeOK, SelectRefuse, Goto, PC
<1>2. TypeOK'
  BY <1>1
  DEF Core, TypeOK, SelectRefuse, bucketVars, PC, Calls
<1>3. ASSUME NEW v \in Workers
      PROVE  CursorOK(v)'
  <2>1. CASE v = w
    BY <1>0, <1>1, <2>1, WorkerFacts, ConstantFacts
    DEF SelectRefuse, CursorOK, Current, Admitting, InBucket, Outside
  <2>2. CASE v # w
    BY <1>1, <2>2, WorkerFacts DEF SelectRefuse, CursorOK, Current
  <2> QED BY <2>1, <2>2
<1>4. CallsFresh'
  BY <1>1, WorkerFacts DEF Core, Control, TypeOK, CallsFresh, Calls, Outside, SelectRefuse
<1> QED BY <1>2, <1>3, <1>4 DEF Core, Control

\* Core is preserved by TokenBucket.refund, which never overfills the bucket.
LEMMA RefundCore ==
    ASSUME Core, NEW w \in Workers, Refund(w)
    PROVE  Core'
<1>0. pos[w] \in 1 .. Len(Names[w]) /\ Current(w) \in Resources
  BY WorkerFacts, ConstantFacts DEF Refund, CursorOK, Admitting, Current
<1>1. /\ acquired' \in [Workers -> 0 .. MaxUnits] /\ acquired'[w] < acquired[w]
      /\ \A v \in Workers \ {w} : acquired'[v] = acquired[v]
  <2>1. acquired[w] - 1 \in 0 .. MaxUnits /\ 0 \in 0 .. MaxUnits
    BY WorkerFacts, ConstantFacts DEF Refund
  <2>2. \/ acquired' = [acquired EXCEPT ![w] = acquired[w] - 1]
        \/ acquired' = [acquired EXCEPT ![w] = 0]
    BY DEF Refund
  <2>3. acquired \in [Workers -> 0 .. MaxUnits] /\ acquired[w] > 0
    BY DEF Core, TypeOK, Refund
  <2>4. acquired' \in [Workers -> 0 .. MaxUnits]
    BY <2>1, <2>2, <2>3
  <2> QED BY <2>1, <2>2, <2>3, <2>4
<1>2. TypeOK'
  <2>1. (tokens \in [Rated -> Nat] /\ \A r \in Rated : tokens[r] <= Burst[r])'
    BY RateAssumption DEF Core, TypeOK, Refund
  <2> QED BY <1>1, <2>1
      DEF Core, TypeOK, Refund, bucketVars, PC, Calls
<1>3. ASSUME NEW v \in Workers
      PROVE  CursorOK(v)'
  <2>1. CASE v = w
    BY <1>0, <1>1, <2>1, WorkerFacts, ConstantFacts
    DEF Refund, CursorOK, Current, Admitting, InBucket, Outside
  <2>2. CASE v # w
    BY <1>1, <2>2, WorkerFacts DEF Refund, CursorOK, Current
  <2> QED BY <2>1, <2>2
<1>4. CallsFresh'
  BY <1>1, WorkerFacts DEF Core, Control, TypeOK, CallsFresh, Calls, Outside, Refund
<1> QED BY <1>2, <1>3, <1>4 DEF Core, Control

\* Core is preserved when the rollback goes on from a bucket to its budget.
LEMMA RefundDoneCore ==
    ASSUME Core, NEW w \in Workers, RefundDone(w)
    PROVE  Core'
<1>0. pos[w] \in 1 .. Len(Names[w]) /\ Current(w) \in Resources
  BY WorkerFacts, ConstantFacts DEF RefundDone, CursorOK, Admitting, Current
<1>1. /\ pc' \in [Workers -> PC] /\ pc'[w] = "unbudget"
      /\ \A v \in Workers \ {w} : pc'[v] = pc[v]
  BY DEF Core, TypeOK, RefundDone, Goto, PC
<1>2. TypeOK'
  BY <1>1
  DEF Core, TypeOK, RefundDone, bucketVars, PC, Calls
<1>3. ASSUME NEW v \in Workers
      PROVE  CursorOK(v)'
  <2>1. CASE v = w
    BY <1>0, <1>1, <2>1, WorkerFacts, ConstantFacts
    DEF RefundDone, CursorOK, Current, Admitting, InBucket, Outside
  <2>2. CASE v # w
    BY <1>1, <2>2, WorkerFacts DEF RefundDone, CursorOK, Current
  <2> QED BY <2>1, <2>2
<1>4. CallsFresh'
  BY <1>1, WorkerFacts DEF Core, Control, TypeOK, CallsFresh, Calls, Outside, RefundDone
<1> QED BY <1>2, <1>3, <1>4 DEF Core, Control

\* Core is preserved by the commit: the call is one that its worker has counted.
LEMMA CommitCore ==
    ASSUME Core, NEW w \in Workers, Commit(w)
    PROVE  Core'
<1>1. /\ pc' \in [Workers -> PC] /\ pos' \in [Workers -> Nat]
      /\ pc'[w] = "work" /\ pos'[w] = 0
      /\ \A v \in Workers \ {w} : pc'[v] = pc[v] /\ pos'[v] = pos[v]
  BY DEF Core, TypeOK, Commit, Goto, PC
<1>2. TypeOK'
  <2>1. (started \subseteq Calls)'
    <3>1. calls[w] \in 1 .. MaxCalls /\ units[w] \in 1 .. MaxUnits
      BY WorkerFacts, ConstantFacts DEF Commit, CursorOK, Outside
    <3>2. Call(w) \in Calls
      BY <3>1 DEF Call, Calls
    <3> QED BY <3>2 DEF Core, TypeOK, Commit, Calls
  <2> QED BY <1>1, <2>1
      DEF Core, TypeOK, Commit, bucketVars, PC, Calls
<1>3. ASSUME NEW v \in Workers
      PROVE  CursorOK(v)'
  <2>1. CASE v = w
    BY <1>1, <2>1, WorkerFacts, ConstantFacts
    DEF Commit, CursorOK, Current, Admitting, InBucket, Outside
  <2>2. CASE v # w
    BY <1>1, <2>2, WorkerFacts DEF Commit, CursorOK, Current
  <2> QED BY <2>1, <2>2
<1>4. CallsFresh'
  BY <1>1, WorkerFacts DEF Core, Control, TypeOK, CallsFresh, Calls, Outside, Commit, Call
<1> QED BY <1>2, <1>3, <1>4 DEF Core, Control

\* Core is preserved by a new call: its number is not among the started ones.
LEMMA AdmitCore ==
    ASSUME Core, NEW w \in Workers, Admit(w)
    PROVE  Core'
<1>1. /\ pc' \in [Workers -> PC] /\ pos' \in [Workers -> Nat]
      /\ calls' \in [Workers -> 0 .. MaxCalls]
      /\ units' \in [Workers -> 0 .. MaxUnits]
      /\ pc'[w] = IF Len(Names[w]) = 0 THEN "commit" ELSE "budget"
      /\ pos'[w] = 1 /\ calls'[w] = calls[w] + 1 /\ units'[w] \in 1 .. MaxUnits
      /\ \A v \in Workers \ {w} : /\ pc'[v] = pc[v] /\ pos'[v] = pos[v]
                                  /\ calls'[v] = calls[v] /\ units'[v] = units[v]
  <2>1. PICK u \in Sizes[w] : units' = [units EXCEPT ![w] = u]
    BY DEF Admit
  <2>2. u \in 1 .. MaxUnits /\ calls[w] + 1 \in 0 .. MaxCalls
    BY WorkerFacts, ConstantFacts DEF Admit
  <2>3. units' \in [Workers -> 0 .. MaxUnits] /\ units'[w] \in 1 .. MaxUnits
    BY <2>1, <2>2, ConstantFacts DEF Core, TypeOK
  <2>4. calls' \in [Workers -> 0 .. MaxCalls] /\ calls'[w] = calls[w] + 1
    BY <2>2 DEF Core, TypeOK, Admit
  <2>5. pc' \in [Workers -> PC] /\ pos' \in [Workers -> Nat] /\ pos'[w] = 1
    BY DEF Core, TypeOK, Admit, Goto, PC
  <2>6. pc'[w] = IF Len(Names[w]) = 0 THEN "commit" ELSE "budget"
    BY ConstantFacts DEF Core, TypeOK, Admit, Goto
  <2>7. \A v \in Workers \ {w} : /\ pc'[v] = pc[v] /\ pos'[v] = pos[v]
                                /\ calls'[v] = calls[v] /\ units'[v] = units[v]
    BY <2>1 DEF Core, TypeOK, Admit, Goto
  <2> QED BY <2>3, <2>4, <2>5, <2>6, <2>7
<1>2. TypeOK'
  BY <1>1
  DEF Core, TypeOK, Admit, bucketVars, PC, Calls
<1>3. ASSUME NEW v \in Workers
      PROVE  CursorOK(v)'
  <2>1. CASE v = w
    BY <1>1, <2>1, WorkerFacts, ConstantFacts
    DEF Admit, CursorOK, Current, Admitting, InBucket, Outside
  <2>2. CASE v # w
    BY <1>1, <2>2, WorkerFacts DEF Admit, CursorOK, Current
  <2> QED BY <2>1, <2>2
<1>4. CallsFresh'
  <2>1. \A c \in started : c[1] \in Workers /\ c[2] \in Nat /\ c[2] <= calls[c[1]]
    BY ConstantFacts DEF Core, Control, TypeOK, CallsFresh, Calls
  <2>2. started' = started
    BY DEF Admit
  <2>3. ASSUME NEW c \in started
        PROVE  /\ c[2] <= calls'[c[1]]
               /\ pc'[c[1]] \notin Outside => c[2] < calls'[c[1]]
    <3>1. CASE c[1] = w
      BY <1>1, <2>1, <3>1, WorkerFacts
    <3>2. CASE c[1] # w
      BY <1>1, <2>1, <3>2 DEF Core, Control, CallsFresh
    <3> QED BY <3>1, <3>2
  <2> QED BY <2>2, <2>3 DEF CallsFresh, Outside
<1> QED BY <1>2, <1>3, <1>4 DEF Core, Control

\* Core is preserved by the return of Do.
LEMMA WorkReturnsCore ==
    ASSUME Core, NEW w \in Workers, WorkReturns(w)
    PROVE  Core'
<1>1. /\ pc' \in [Workers -> PC] /\ pc'[w] = "idle"
      /\ \A v \in Workers \ {w} : pc'[v] = pc[v]
  BY DEF Core, TypeOK, WorkReturns, Goto, PC
<1>2. TypeOK'
  BY <1>1
  DEF Core, TypeOK, WorkReturns, bucketVars, PC, Calls
<1>3. ASSUME NEW v \in Workers
      PROVE  CursorOK(v)'
  <2>1. CASE v = w
    BY <1>1, <2>1, WorkerFacts, ConstantFacts
    DEF WorkReturns, CursorOK, Current, Admitting, InBucket, Outside
  <2>2. CASE v # w
    BY <1>1, <2>2, WorkerFacts DEF WorkReturns, CursorOK, Current
  <2> QED BY <2>1, <2>2
<1>4. CallsFresh'
  BY <1>1, WorkerFacts DEF Core, Control, TypeOK, CallsFresh, Calls, Outside, WorkReturns
<1> QED BY <1>2, <1>3, <1>4 DEF Core, Control

\* The steps that touch neither a cursor nor a budget.
LEMMA EnvironmentCore ==
    ASSUME Core,
           \/ \E w \in Workers : Cancel(w)
           \/ \E r \in Rated : Replenish(r) \/ Close(r)
           \/ UNCHANGED vars
    PROVE  Core'
<1>1. TypeOK'
  BY RateAssumption DEF Core, TypeOK, Cancel, Replenish, Close, vars, bucketVars, PC, Calls
<1>2. ASSUME NEW v \in Workers PROVE CursorOK(v)'
  BY WorkerFacts DEF CursorOK, Current, Cancel, Replenish, Close, vars
<1>3. CallsFresh'
  BY DEF Core, Control, CallsFresh, Cancel, Replenish, Close, vars
<1> QED BY <1>1, <1>2, <1>3 DEF Core, Control

\* Core is inductive.
LEMMA CoreNext == Core /\ [Next]_vars => Core'
BY BudgetReserveCore, BudgetRefuseCore, BudgetRollbackCore, BucketCheckCore,
   TakeTokenCore, SelectRefuseCore, RefundCore, RefundDoneCore, CommitCore,
   AdmitCore, WorkReturnsCore, EnvironmentCore
DEF Next, AdmitStep

\* Budgets never go negative, buckets never overflow, and every worker's cursor
\* stays inside its names, for any configuration.
THEOREM TypeCorrect == Spec => []TypeOK
<1>1. Core => TypeOK
  BY DEF Core
<1> QED BY CoreInit, CoreNext, <1>1, PTL DEF Spec

------------------------------------------------------------------------------
(* Budgets                                                                   *)

\* The units of w's current call.
Block(w) == {Call(w)} \X (1 .. units[w])

\* A call's units are as many elements as it asks for.
LEMMA BlockCardinality ==
    ASSUME Core, NEW w \in Workers
    PROVE  IsFiniteSet(Block(w)) /\ Cardinality(Block(w)) = units[w]
<1>1. units[w] \in Nat
  BY WorkerFacts
<1>2. IsFiniteSet(1 .. units[w]) /\ Cardinality(1 .. units[w]) = units[w]
  BY <1>1, FS_Interval
<1>3. IsFiniteSet({Call(w)}) /\ Cardinality({Call(w)}) = 1
  BY FS_Singleton
<1>4. Cardinality(Block(w)) = 1 * units[w]
  BY <1>2, <1>3, FS_Product DEF Block
<1>5. IsFiniteSet(Block(w))
  BY <1>2, <1>3, FS_Product DEF Block
<1> QED BY <1>1, <1>4, <1>5

\* Membership in HeldNames, with the positions it ranges over.
LEMMA HeldMember ==
    ASSUME NEW w \in Workers, NEW r
    PROVE  r \in HeldNames(w) <=>
             \E i \in 1 .. Len(Names[w]) :
                /\ r = Names[w][i]
                /\ \/ i < pos[w]
                   \/ i = pos[w] /\ pc[w] \in {"check", "select", "refund", "unbudget"}
BY DEF HeldNames

\* Reserving or undoing a budget adds or removes exactly one name.
LEMMA HeldReserve ==
    ASSUME Core, NEW w \in Workers, BudgetReserve(w)
    PROVE  /\ Current(w) \notin HeldNames(w)
           /\ HeldNames(w)' = HeldNames(w) \cup {Current(w)}
<1>1. pos[w] \in 1 .. Len(Names[w]) /\ pc[w] = "budget" /\ Len(Names[w]) \in Nat
  BY WorkerFacts, ConstantFacts DEF BudgetReserve, CursorOK, Admitting
<1>2. \/ pos'[w] = pos[w] /\ pc'[w] = "check"
      \/ pos'[w] = pos[w] + 1 /\ pc'[w] \in {"commit", "budget"}
  <2>1. CASE Current(w) \in Rated
    BY <2>1 DEF BudgetReserve, Goto, Core, TypeOK
  <2>2. CASE Current(w) \notin Rated
    BY <2>2, AdvanceEffect DEF BudgetReserve
  <2> QED BY <2>1, <2>2
<1>3. Current(w) \notin HeldNames(w)
  BY <1>1, HeldMember, NamesDistinct DEF Current
<1>4. \A i \in 1 .. Len(Names[w]) :
        (i < pos'[w] \/ (i = pos'[w] /\ pc'[w] \in InChain))
          <=> (i < pos[w] \/ i = pos[w])
  BY <1>1, <1>2 DEF InChain
<1>5. HeldNames(w)' = {Names[w][i] : i \in {j \in 1 .. Len(Names[w]) : j < pos[w] \/ j = pos[w]}}
  BY <1>4 DEF HeldNames, InChain
<1>6. HeldNames(w) = {Names[w][i] : i \in {j \in 1 .. Len(Names[w]) : j < pos[w]}}
  BY <1>1 DEF HeldNames
<1> QED BY <1>1, <1>3, <1>5, <1>6 DEF Current

\* Undoing the budget of the current name removes exactly that name.
LEMMA HeldRollback ==
    ASSUME Core, NEW w \in Workers, BudgetRollback(w)
    PROVE  /\ Current(w) \in HeldNames(w)
           /\ HeldNames(w)' = HeldNames(w) \ {Current(w)}
<1>1. pos[w] \in 1 .. Len(Names[w]) /\ pc[w] = "unbudget" /\ Len(Names[w]) \in Nat
  BY WorkerFacts, ConstantFacts DEF BudgetRollback, CursorOK, Admitting
<1>2. /\ pos'[w] = pos[w] - 1
      /\ pos[w] > 1 => pc'[w] \in {"refund", "unbudget"}
  BY <1>1, RetreatEffect DEF BudgetRollback
<1>3. \A i \in 1 .. Len(Names[w]) :
        (i < pos'[w] \/ (i = pos'[w] /\ pc'[w] \in InChain))
          <=> i < pos[w]
  BY <1>1, <1>2 DEF InChain
<1>4. HeldNames(w)' = {Names[w][i] : i \in {j \in 1 .. Len(Names[w]) : j < pos[w]}}
  BY <1>3 DEF HeldNames, InChain
<1>5. HeldNames(w) = {Names[w][i] : i \in {j \in 1 .. Len(Names[w]) : j < pos[w] \/ j = pos[w]}}
  BY <1>1 DEF HeldNames
<1>6. Current(w) \notin {Names[w][i] : i \in {j \in 1 .. Len(Names[w]) : j < pos[w]}}
  BY <1>1, NamesDistinct DEF Current
<1> QED BY <1>1, <1>4, <1>5, <1>6 DEF Current

\* The steps of admit that move the cursor without touching a budget.
HeldSteps(w) ==
    \/ BudgetRefuse(w) \/ BucketCheck(w) \/ TakeToken(w) \/ SelectRefuse(w)
    \/ Refund(w) \/ RefundDone(w) \/ WorkReturns(w)

\* Refusals, bucket steps and the return of Do leave the held names alone.
LEMMA HeldSame ==
    ASSUME Core, NEW w \in Workers, HeldSteps(w)
    PROVE  HeldNames(w)' = HeldNames(w)
<1>1. pos[w] \in Nat /\ Len(Names[w]) \in Nat
  BY WorkerFacts, ConstantFacts
<1> SUFFICES \A i \in 1 .. Len(Names[w]) :
               (i < pos'[w] \/ (i = pos'[w] /\ pc'[w] \in InChain))
                 <=> (i < pos[w] \/ (i = pos[w] /\ pc[w] \in InChain))
  BY DEF HeldNames, InChain
<1>2. CASE BudgetRefuse(w)
  <2>1. pos[w] \in 1 .. Len(Names[w]) /\ pc[w] = "budget"
    BY <1>2, WorkerFacts, ConstantFacts DEF BudgetRefuse, CursorOK, Admitting
  <2>2. pos'[w] = pos[w] - 1 /\ (pos[w] > 1 => pc'[w] \in {"refund", "unbudget"})
    BY <1>2, <2>1, RetreatEffect DEF BudgetRefuse
  <2> QED BY <1>1, <2>1, <2>2 DEF InChain
<1>3. CASE BucketCheck(w)
  <2>1. \/ pos'[w] = pos[w] /\ pc'[w] \in {"refund", "select"}
        \/ pos'[w] = pos[w] + 1 /\ pc'[w] \in {"commit", "budget"}
    <3>1. CASE Advance(w)
      BY <3>1, AdvanceEffect
    <3>2. CASE ~Advance(w)
      BY <1>3, <3>2 DEF BucketCheck, Goto, Core, TypeOK
    <3> QED BY <3>1, <3>2
  <2> QED BY <1>1, <1>3, <2>1 DEF BucketCheck, InChain
<1>4. CASE TakeToken(w) \/ SelectRefuse(w) \/ Refund(w) \/ RefundDone(w)
  BY <1>4 DEF TakeToken, SelectRefuse, Refund, RefundDone, Goto, Core, TypeOK, InChain
<1>5. CASE WorkReturns(w)
  BY <1>5 DEF WorkReturns, Goto, Core, TypeOK, InChain
<1> QED BY <1>2, <1>3, <1>4, <1>5 DEF HeldSteps

\* A call that has just been asked for holds nothing.
LEMMA HeldAdmit ==
    ASSUME Core, NEW w \in Workers, Admit(w)
    PROVE  HeldNames(w) = {} /\ HeldNames(w)' = {}
<1>1. pos[w] = 0 /\ pc[w] = "idle"
  BY WorkerFacts DEF Admit, CursorOK, Outside
<1>2. pos'[w] = 1 /\ pc'[w] \in {"commit", "budget"}
  BY DEF Admit, Goto, Core, TypeOK
<1> QED BY <1>1, <1>2 DEF HeldNames

\* A call that commits holds all its names, and nothing afterwards.
LEMMA HeldCommit ==
    ASSUME Core, NEW w \in Workers, Commit(w)
    PROVE  HeldNames(w) = NamedBy(w) /\ HeldNames(w)' = {}
<1>1. pos[w] = Len(Names[w]) + 1 /\ pc[w] = "commit" /\ Len(Names[w]) \in Nat
  BY WorkerFacts, ConstantFacts DEF Commit, CursorOK
<1>2. pos'[w] = 0 /\ pc'[w] = "work"
  BY DEF Commit, Goto, Core, TypeOK
<1>3. \A j \in 1 .. Len(Names[w]) : j < pos[w]
  BY <1>1
<1>4. HeldNames(w)' = {}
  BY <1>2 DEF HeldNames
<1> QED BY <1>3, <1>4 DEF HeldNames, NamedBy

\* A worker's step leaves the reservations of the others alone.
LEMMA HeldOthers ==
    ASSUME Core, NEW w \in Workers, NEW v \in Workers, v # w,
           AdmitStep(w) \/ Admit(w) \/ WorkReturns(w)
    PROVE  HeldNames(v)' = HeldNames(v)
<1> SUFFICES pos'[v] = pos[v] /\ pc'[v] = pc[v]
  BY DEF HeldNames
<1> QED
  BY DEF AdmitStep, BudgetReserve, BudgetRefuse, BudgetRollback, BucketCheck, TakeToken,
     SelectRefuse, Refund, RefundDone, Commit, Admit, WorkReturns, Advance, Retreat, Goto,
     Core, TypeOK

\* Which units are charged, read off a pair of a call and a unit.
LEMMA ChargedMember ==
    ASSUME NEW r, NEW p
    PROVE  p \in Charged(r) <=>
             /\ p \in Calls \X (1 .. MaxUnits)
             /\ p[2] <= p[1][3]
             /\ \/ p[1] \in started /\ r \in NamedBy(p[1][1])
                \/ p[1] = Call(p[1][1]) /\ r \in HeldNames(p[1][1])
BY DEF Charged

\* Charged depends only on the calls, the started ones and the held names.
LEMMA ChargedFrame ==
    ASSUME Core, UNCHANGED <<calls, units, started>>,
           \A v \in Workers : HeldNames(v)' = HeldNames(v), NEW r
    PROVE  Charged(r)' = Charged(r)
BY DEF Charged, Calls, Call, NamedBy

\* The units of the call that is reserving r.
LEMMA BlockMember ==
    ASSUME Core, NEW w \in Workers, pc[w] \notin Outside, NEW p
    PROVE  /\ p \in Block(w) <=> /\ p \in Calls \X (1 .. MaxUnits)
                                 /\ p[1] = Call(w) /\ p[2] <= p[1][3]
           /\ Call(w) \notin started
<1>1. calls[w] \in 1 .. MaxCalls /\ units[w] \in 1 .. MaxUnits
  BY WorkerFacts, ConstantFacts DEF CursorOK
<1>2. Call(w) \in Calls
  BY <1>1 DEF Call, Calls
<1>3. p \in Block(w) => p \in Calls \X (1 .. MaxUnits) /\ p[1] = Call(w) /\ p[2] <= p[1][3]
  BY <1>1, <1>2, ConstantFacts DEF Block, Call
<1>4. ASSUME p \in Calls \X (1 .. MaxUnits), p[1] = Call(w), p[2] <= p[1][3]
      PROVE  p \in Block(w)
  <2>1. p = <<p[1], p[2]>> /\ p[2] \in 1 .. MaxUnits
    BY <1>4
  <2>2. p[2] \in 1 .. units[w]
    BY <1>1, <1>4, <2>1, ConstantFacts DEF Call
  <2> QED BY <1>4, <2>1, <2>2 DEF Block
<1>5. Call(w) \notin started
  <2>1. Call(w)[1] = w /\ Call(w)[2] = calls[w]
    BY DEF Call
  <2> QED BY <1>1, <2>1 DEF Core, Control, CallsFresh
<1> QED BY <1>3, <1>4, <1>5

\* Budget.Reserve charges the units of the call to the current name, once.
LEMMA ReserveCharges ==
    ASSUME Core, NEW w \in Workers, BudgetReserve(w), NEW r \in Resources
    PROVE  /\ r = Current(w) => /\ Charged(r)' = Charged(r) \cup Block(w)
                                /\ Charged(r) \cap Block(w) = {}
           /\ r # Current(w) => Charged(r)' = Charged(r)
<1>1. pc[w] \notin Outside /\ UNCHANGED <<calls, units, started>>
  BY DEF BudgetReserve, Outside
<1>2. \A v \in Workers : r \in HeldNames(v)' <=>
                           r \in HeldNames(v) \/ (v = w /\ r = Current(w))
  BY HeldReserve, HeldOthers DEF AdmitStep
<1>3. ASSUME NEW p
      PROVE  p \in Charged(r)' <=> p \in Charged(r) \/ (r = Current(w) /\ p \in Block(w))
  <2>1. p \in Charged(r)' <=>
             /\ p \in Calls \X (1 .. MaxUnits)
             /\ p[2] <= p[1][3]
             /\ \/ p[1] \in started /\ r \in NamedBy(p[1][1])
                \/ p[1] = Call(p[1][1]) /\ r \in HeldNames(p[1][1])'
    BY <1>1 DEF Charged, Calls, NamedBy, Call
  <2>2. p \in Calls \X (1 .. MaxUnits) => p[1][1] \in Workers
    BY DEF Calls
  <2>3. Call(w)[1] = w
    BY DEF Call
  <2> QED BY <1>1, <1>2, <2>1, <2>2, <2>3, BlockMember, ChargedMember
<1>4. r = Current(w) => Charged(r) \cap Block(w) = {}
  <2>1. Call(w)[1] = w
    BY DEF Call
  <2> QED BY <1>1, <2>1, HeldReserve, BlockMember, ChargedMember
<1> QED BY <1>3, <1>4

\* Rollback takes back the units of the call from the current name.
LEMMA RollbackCharges ==
    ASSUME Core, NEW w \in Workers, BudgetRollback(w), NEW r \in Resources
    PROVE  /\ r = Current(w) => /\ Charged(r)' = Charged(r) \ Block(w)
                                /\ Block(w) \subseteq Charged(r)
           /\ r # Current(w) => Charged(r)' = Charged(r)
<1>1. pc[w] \notin Outside /\ UNCHANGED <<calls, units, started>>
  BY DEF BudgetRollback, Outside
<1>2. \A v \in Workers : r \in HeldNames(v)' <=>
                           r \in HeldNames(v) /\ ~(v = w /\ r = Current(w))
  BY HeldRollback, HeldOthers DEF AdmitStep
<1>3. Call(w)[1] = w
  BY DEF Call
<1>4. ASSUME NEW p
      PROVE  p \in Charged(r)' <=> p \in Charged(r) /\ ~(r = Current(w) /\ p \in Block(w))
  <2>1. p \in Charged(r)' <=>
             /\ p \in Calls \X (1 .. MaxUnits)
             /\ p[2] <= p[1][3]
             /\ \/ p[1] \in started /\ r \in NamedBy(p[1][1])
                \/ p[1] = Call(p[1][1]) /\ r \in HeldNames(p[1][1])'
    BY <1>1 DEF Charged, Calls, NamedBy, Call
  <2>2. p \in Calls \X (1 .. MaxUnits) => p[1][1] \in Workers
    BY DEF Calls
  <2> QED BY <1>1, <1>2, <1>3, <2>1, <2>2, BlockMember, ChargedMember
<1>5. r = Current(w) => Block(w) \subseteq Charged(r)
  BY <1>1, <1>3, HeldRollback, BlockMember, ChargedMember
<1> QED BY <1>4, <1>5

\* Starting a call turns its reservations into what it paid.
LEMMA CommitCharges ==
    ASSUME Core, NEW w \in Workers, Commit(w), NEW r \in Resources
    PROVE  Charged(r)' = Charged(r)
<1>1. /\ UNCHANGED <<calls, units>> /\ started' = started \cup {Call(w)}
      /\ Call(w)[1] = w
  BY DEF Commit, Call
<1>2. \A v \in Workers : r \in HeldNames(v)' <=> r \in HeldNames(v) /\ v # w
  BY HeldCommit, HeldOthers DEF AdmitStep
<1>3. ASSUME NEW p PROVE p \in Charged(r)' <=> p \in Charged(r)
  <2>1. p \in Charged(r)' <=>
             /\ p \in Calls \X (1 .. MaxUnits)
             /\ p[2] <= p[1][3]
             /\ \/ p[1] \in started \cup {Call(w)} /\ r \in NamedBy(p[1][1])
                \/ p[1] = Call(p[1][1]) /\ r \in HeldNames(p[1][1])'
    BY <1>1 DEF Charged, Calls, NamedBy, Call
  <2>2. p \in Calls \X (1 .. MaxUnits) => p[1][1] \in Workers
    BY DEF Calls
  <2> QED BY <1>1, <1>2, <2>1, <2>2, HeldCommit, ChargedMember
<1> QED BY <1>3

\* A call that begins admission has charged nothing.
LEMMA AdmitCharges ==
    ASSUME Core, NEW w \in Workers, Admit(w), NEW r \in Resources
    PROVE  Charged(r)' = Charged(r)
<1>1. \A v \in Workers : HeldNames(v)' = HeldNames(v)
  BY HeldAdmit, HeldOthers
<1>2. /\ started' = started /\ HeldNames(w) = {}
      /\ \A v \in Workers \ {w} : Call(v)' = Call(v)
  BY HeldAdmit DEF Admit, Call, Core, TypeOK
<1>3. ASSUME NEW p PROVE p \in Charged(r)' <=> p \in Charged(r)
  <2>1. p \in Charged(r)' <=>
             /\ p \in Calls \X (1 .. MaxUnits)
             /\ p[2] <= p[1][3]
             /\ \/ p[1] \in started /\ r \in NamedBy(p[1][1])
                \/ p[1] = Call(p[1][1])' /\ r \in HeldNames(p[1][1])'
    BY <1>2 DEF Charged, Calls, NamedBy
  <2>2. p \in Calls \X (1 .. MaxUnits) => p[1][1] \in Workers
    BY DEF Calls
  <2> QED BY <1>1, <1>2, <2>1, <2>2, ChargedMember
<1> QED BY <1>3

Budgets == /\ \A r \in Resources : IsFiniteSet(Charged(r))
           /\ BudgetConserved

\* A new runEnv has charged nothing.
LEMMA BudgetsInit == Init => Budgets
<1> SUFFICES ASSUME Init PROVE Budgets
  OBVIOUS
<1>1. \A v \in Workers : HeldNames(v) = {}
  BY AdmissionAssumption, ConstantFacts DEF Init, HeldNames
<1>2. \A r \in Resources : Charged(r) = {}
  BY <1>1 DEF Init, Charged, Calls
<1>3. \A r \in Resources : Limit[r] \in Nat /\ remaining[r] = Limit[r]
  BY AdmissionAssumption DEF Init
<1>4. \A r \in Resources : IsFiniteSet(Charged(r)) /\ Cardinality(Charged(r)) = 0
  BY <1>2, FS_EmptySet
<1> QED BY <1>3, <1>4 DEF Budgets, BudgetConserved

\* A step that changes no charge and no budget.
LEMMA BudgetsFrame ==
    ASSUME Budgets, UNCHANGED remaining, \A r \in Resources : Charged(r)' = Charged(r)
    PROVE  Budgets'
BY DEF Budgets, BudgetConserved

\* What Budget.Reserve takes from a budget is what it charges.
LEMMA BudgetsReserve ==
    ASSUME Core, Budgets, NEW w \in Workers, BudgetReserve(w)
    PROVE  Budgets'
<1> SUFFICES ASSUME NEW r \in Resources
             PROVE  /\ IsFiniteSet(Charged(r)')
                    /\ remaining'[r] + Cardinality(Charged(r)') = Limit[r]
  BY DEF Budgets, BudgetConserved
<1>1. /\ remaining[r] \in Nat /\ Limit[r] \in Nat /\ units[w] \in Nat
      /\ IsFiniteSet(Charged(r)) /\ remaining[r] + Cardinality(Charged(r)) = Limit[r]
      /\ Cardinality(Charged(r)) \in Nat
  BY WorkerFacts, AdmissionAssumption, FS_CardinalityType
  DEF Core, TypeOK, Budgets, BudgetConserved
<1>2. CASE r = Current(w)
  <2>1. remaining'[r] = remaining[r] - units[w]
    BY <1>2 DEF BudgetReserve, Core, TypeOK
  <2>2. Charged(r)' = Charged(r) \cup Block(w) /\ Charged(r) \cap Block(w) = {}
    BY <1>2, ReserveCharges
  <2>3. IsFiniteSet(Block(w)) /\ Cardinality(Block(w)) = units[w]
    BY BlockCardinality
  <2>4. /\ IsFiniteSet(Charged(r)')
        /\ Cardinality(Charged(r)') = Cardinality(Charged(r)) + units[w] - Cardinality({})
    BY <1>1, <2>2, <2>3, FS_Union
  <2> QED BY <1>1, <2>1, <2>4, FS_EmptySet
<1>3. CASE r # Current(w)
  <2>1. remaining'[r] = remaining[r]
    BY <1>3 DEF BudgetReserve, Core, TypeOK
  <2> QED BY <1>1, <1>3, <2>1, ReserveCharges
<1> QED BY <1>2, <1>3

\* What a rollback gives back is what had been charged.
LEMMA BudgetsRollback ==
    ASSUME Core, Budgets, NEW w \in Workers, BudgetRollback(w)
    PROVE  Budgets'
<1> SUFFICES ASSUME NEW r \in Resources
             PROVE  /\ IsFiniteSet(Charged(r)')
                    /\ remaining'[r] + Cardinality(Charged(r)') = Limit[r]
  BY DEF Budgets, BudgetConserved
<1>1. /\ remaining[r] \in Nat /\ Limit[r] \in Nat /\ units[w] \in Nat
      /\ IsFiniteSet(Charged(r)) /\ remaining[r] + Cardinality(Charged(r)) = Limit[r]
      /\ Cardinality(Charged(r)) \in Nat
  BY WorkerFacts, AdmissionAssumption, FS_CardinalityType
  DEF Core, TypeOK, Budgets, BudgetConserved
<1>2. CASE r = Current(w)
  <2>1. remaining'[r] = remaining[r] + units[w]
    BY <1>2 DEF BudgetRollback, Core, TypeOK
  <2>2. Charged(r)' = Charged(r) \ Block(w) /\ Charged(r) \cap Block(w) = Block(w)
    BY <1>2, RollbackCharges
  <2>3. IsFiniteSet(Block(w)) /\ Cardinality(Block(w)) = units[w]
    BY BlockCardinality
  <2>4. /\ IsFiniteSet(Charged(r)')
        /\ Cardinality(Charged(r)') = Cardinality(Charged(r)) - units[w]
    <3>1. IsFiniteSet(Charged(r) \ Block(w))
      BY <1>1, FS_Difference
    <3>2. Cardinality(Charged(r) \ Block(w))
            = Cardinality(Charged(r)) - Cardinality(Charged(r) \cap Block(w))
      BY <1>1, FS_Difference
    <3> QED BY <2>2, <2>3, <3>1, <3>2
  <2> QED BY <1>1, <2>1, <2>4
<1>3. CASE r # Current(w)
  <2>1. remaining'[r] = remaining[r]
    BY <1>3 DEF BudgetRollback, Core, TypeOK
  <2> QED BY <1>1, <1>3, <2>1, RollbackCharges
<1> QED BY <1>2, <1>3

\* Conservation is preserved by every step.
LEMMA BudgetsNext == Core /\ Budgets /\ [Next]_vars => Budgets'
<1> SUFFICES ASSUME Core, Budgets, [Next]_vars PROVE Budgets'
  OBVIOUS
<1>1. ASSUME NEW w \in Workers, HeldSteps(w)
      PROVE  Budgets'
  <2>1. \A v \in Workers : HeldNames(v)' = HeldNames(v)
    BY <1>1, HeldSame, HeldOthers DEF HeldSteps, AdmitStep
  <2>2. UNCHANGED <<remaining, calls, units, started>>
    BY <1>1 DEF HeldSteps, BudgetRefuse, BucketCheck, TakeToken, SelectRefuse, Refund,
       RefundDone, WorkReturns
  <2> QED BY <2>1, <2>2, ChargedFrame, BudgetsFrame
<1>2. ASSUME NEW w \in Workers, Commit(w) \/ Admit(w)
      PROVE  Budgets'
  <2>1. UNCHANGED remaining
    BY <1>2 DEF Commit, Admit
  <2> QED BY <1>2, <2>1, CommitCharges, AdmitCharges, BudgetsFrame
<1>3. CASE \/ \E w \in Workers : Cancel(w)
           \/ \E r \in Rated : Replenish(r) \/ Close(r)
           \/ UNCHANGED vars
  <2>1. UNCHANGED <<remaining, pc, pos, calls, units, started>>
    BY <1>3 DEF Cancel, Replenish, Close, vars
  <2>2. \A v \in Workers : HeldNames(v)' = HeldNames(v)
    BY <2>1 DEF HeldNames
  <2> QED BY <2>1, <2>2, ChargedFrame, BudgetsFrame
<1> QED BY <1>1, <1>2, <1>3, BudgetsReserve, BudgetsRollback DEF Next, AdmitStep, HeldSteps

\* Every budget is its limit less what started calls paid and what calls in
\* admission have reserved: no interleaving loses or invents a unit.
THEOREM BudgetConservation == Spec => []BudgetConserved
<1>1. Core /\ Budgets => BudgetConserved
  BY DEF Budgets
<1> QED BY CoreInit, CoreNext, BudgetsInit, BudgetsNext, <1>1, PTL DEF Spec

\* Whatever is charged fits the budget.
LEMMA ChargedFits ==
    ASSUME Core, Budgets, NEW r \in Resources, NEW S, S \subseteq Charged(r)
    PROVE  Cardinality(S) <= Limit[r]
<1>1. IsFiniteSet(Charged(r)) /\ remaining[r] + Cardinality(Charged(r)) = Limit[r]
  BY DEF Budgets, BudgetConserved
<1>2. /\ IsFiniteSet(S) /\ Cardinality(S) <= Cardinality(Charged(r))
      /\ Cardinality(S) \in Nat /\ Cardinality(Charged(r)) \in Nat
  BY <1>1, FS_Subset, FS_CardinalityType
<1> QED BY <1>1, <1>2, AdmissionAssumption DEF Core, TypeOK

\* The work that has started never costs more than a budget allows.
THEOREM WorkStaysWithinBudget == Spec => []WorkWithinBudget
<1>1. ASSUME Core, Budgets, NEW r \in Resources
      PROVE  Paid(started, r) \subseteq Charged(r)
  BY DEF Paid, Charged
<1>2. Core /\ Budgets => WorkWithinBudget
  BY <1>1, ChargedFits DEF WorkWithinBudget
<1> QED BY CoreInit, CoreNext, BudgetsInit, BudgetsNext, <1>2, PTL DEF Spec

------------------------------------------------------------------------------
(* Rates                                                                     *)

\* The tokens held for the i-th name when the cursor is at q, with a tokens of
\* that name acquired and u units asked for: all of them before the cursor, none
\* behind it.
TokensAt(i, q, a, u) == IF i < q THEN u ELSE IF i = q THEN a ELSE 0

\* The tokens a call holds, by position, before and after a step.
LEMMA HeldTokensAt ==
    ASSUME NEW w \in Workers, NEW i \in 1 .. Len(Names[w]), pos[w] \in Nat
    PROVE  HeldTokens(w, Names[w][i]) = TokensAt(i, pos[w], acquired[w], units[w])
<1>1. Len(Names[w]) \in Nat
  BY ConstantFacts
<1>2. pos[w] \in 1 .. Len(Names[w]) /\ Current(w) = Names[w][i] <=> i = pos[w]
  BY <1>1, NamesDistinct DEF Current
<1>3. i # pos[w] => (Names[w][i] \in HeldNames(w) <=> i < pos[w])
  BY <1>1, NamesDistinct, HeldMember
<1> QED BY <1>1, <1>2, <1>3 DEF HeldTokens, TokensAt

\* The same for the next state.
LEMMA HeldTokensAtNext ==
    ASSUME NEW w \in Workers, NEW i \in 1 .. Len(Names[w]), pos'[w] \in Nat
    PROVE  HeldTokens(w, Names[w][i])' = TokensAt(i, pos'[w], acquired'[w], units'[w])
<1>1. Len(Names[w]) \in Nat
  BY ConstantFacts
<1>2. pos'[w] \in 1 .. Len(Names[w]) /\ Current(w)' = Names[w][i] <=> i = pos'[w]
  BY <1>1, NamesDistinct DEF Current
<1>3. i # pos'[w] => (Names[w][i] \in HeldNames(w)' <=> i < pos'[w])
  BY <1>1, NamesDistinct DEF HeldNames
<1> QED BY <1>1, <1>2, <1>3 DEF HeldTokens, TokensAt

\* A call holds no tokens of a resource it does not name.
LEMMA HeldTokensNone ==
    ASSUME NEW w \in Workers, NEW r, r \notin NamedBy(w)
    PROVE  HeldTokens(w, r) = 0 /\ HeldTokens(w, r)' = 0
BY DEF HeldTokens, HeldNames, NamedBy, Current

\* A step after which every rated name has the tokens it had, wherever the cursor
\* has gone.
LEMMA TokensKept ==
    ASSUME Core, NEW w \in Workers, pos'[w] \in Nat, NEW r \in Rated,
           \A i \in 1 .. Len(Names[w]) : Names[w][i] \in Rated =>
             TokensAt(i, pos'[w], acquired'[w], units'[w])
               = TokensAt(i, pos[w], acquired[w], units[w])
    PROVE  HeldTokens(w, r)' = HeldTokens(w, r)
<1>1. CASE r \in NamedBy(w)
  <2>1. PICK i \in 1 .. Len(Names[w]) : r = Names[w][i]
    BY <1>1 DEF NamedBy
  <2>2. pos[w] \in Nat
    BY WorkerFacts
  <2>3. HeldTokens(w, Names[w][i]) = TokensAt(i, pos[w], acquired[w], units[w])
    BY <2>2, HeldTokensAt
  <2>4. HeldTokens(w, Names[w][i])' = TokensAt(i, pos'[w], acquired'[w], units'[w])
    BY HeldTokensAtNext
  <2> QED BY <2>1, <2>3, <2>4 DEF HeldTokens, HeldNames, Current
<1>2. CASE r \notin NamedBy(w)
  BY <1>2, HeldTokensNone
<1> QED BY <1>1, <1>2

\* The steps of a worker that neither receive nor refund a token nor commit.
TokenSteady(w) ==
    \/ BudgetReserve(w) \/ BudgetRefuse(w) \/ BudgetRollback(w) \/ BucketCheck(w)
    \/ SelectRefuse(w) \/ RefundDone(w) \/ Admit(w) \/ WorkReturns(w)

\* None of these changes how many tokens the call holds: a rollback that moves to
\* an earlier name takes up exactly the tokens that name had acquired.
LEMMA SteadyTokens ==
    ASSUME Core, NEW w \in Workers, TokenSteady(w), NEW r \in Rated
    PROVE  HeldTokens(w, r)' = HeldTokens(w, r)
<1>0. /\ pos[w] \in Nat /\ acquired[w] \in Nat /\ units[w] \in Nat /\ Len(Names[w]) \in Nat
      /\ CursorOK(w)
  BY WorkerFacts, ConstantFacts
<1>1. CASE BudgetReserve(w)
  <2>1. acquired'[w] = acquired[w] /\ units'[w] = units[w] /\ acquired[w] = 0
        /\ Current(w) = Names[w][pos[w]] /\ pos[w] \in 1 .. Len(Names[w])
    BY <1>0, <1>1 DEF BudgetReserve, CursorOK, InBucket, Current, Admitting
  <2>2. CASE Current(w) \in Rated
    <3>1. pos'[w] = pos[w]
      BY <1>1, <2>2 DEF BudgetReserve
    <3> QED BY <1>0, <2>1, <3>1, TokensKept
  <2>3. CASE Current(w) \notin Rated
    <3>1. pos'[w] = pos[w] + 1
      BY <1>1, <2>3, AdvanceEffect DEF BudgetReserve
    <3>2. \A i \in 1 .. Len(Names[w]) : Names[w][i] \in Rated =>
            TokensAt(i, pos'[w], acquired'[w], units'[w])
              = TokensAt(i, pos[w], acquired[w], units[w])
      BY <1>0, <2>1, <2>3, <3>1 DEF TokensAt
    <3> QED BY <1>0, <3>1, <3>2, TokensKept
  <2> QED BY <2>2, <2>3
<1>2. CASE BudgetRefuse(w) \/ BudgetRollback(w)
  <2>1. /\ units'[w] = units[w] /\ acquired[w] = 0 /\ pos[w] \in 1 .. Len(Names[w])
        /\ Retreat(w)
    BY <1>0, <1>2 DEF BudgetRefuse, BudgetRollback, CursorOK, InBucket, Admitting
  <2>2. /\ pos'[w] = pos[w] - 1
        /\ pos[w] > 1 /\ Names[w][pos[w] - 1] \in Rated => acquired'[w] = units[w]
    BY <2>1, RetreatEffect
  <2>3. \A i \in 1 .. Len(Names[w]) : Names[w][i] \in Rated =>
          TokensAt(i, pos'[w], acquired'[w], units'[w])
            = TokensAt(i, pos[w], acquired[w], units[w])
    BY <1>0, <2>1, <2>2 DEF TokensAt
  <2> QED BY <1>0, <2>1, <2>2, <2>3, TokensKept
<1>3. CASE BucketCheck(w)
  <2>1. units'[w] = units[w]
    BY <1>3 DEF BucketCheck
  <2>2. CASE UNCHANGED <<pos, acquired>>
    BY <1>0, <2>1, <2>2, TokensKept
  <2>3. CASE Advance(w) /\ acquired[w] = units[w] /\ acquired' = [acquired EXCEPT ![w] = 0]
    <3>1. pos'[w] = pos[w] + 1 /\ acquired'[w] = 0
      BY <2>3, AdvanceEffect DEF Core, TypeOK
    <3>2. \A i \in 1 .. Len(Names[w]) : Names[w][i] \in Rated =>
            TokensAt(i, pos'[w], acquired'[w], units'[w])
              = TokensAt(i, pos[w], acquired[w], units[w])
      BY <1>0, <2>1, <2>3, <3>1 DEF TokensAt
    <3> QED BY <1>0, <3>1, <3>2, TokensKept
  <2> QED BY <1>3, <2>2, <2>3 DEF BucketCheck
<1>4. CASE SelectRefuse(w) \/ RefundDone(w) \/ WorkReturns(w)
  <2>1. UNCHANGED <<pos, acquired, units>>
    BY <1>4 DEF SelectRefuse, RefundDone, WorkReturns
  <2> QED BY <1>0, <2>1, TokensKept
<1>5. CASE Admit(w)
  <2>1. pos[w] = 0 /\ acquired[w] = 0 /\ pos'[w] = 1 /\ acquired'[w] = 0
    BY <1>0, <1>5 DEF Admit, CursorOK, Outside, InBucket, Core, TypeOK
  <2>2. \A i \in 1 .. Len(Names[w]) : Names[w][i] \in Rated =>
          TokensAt(i, pos'[w], acquired'[w], units'[w])
            = TokensAt(i, pos[w], acquired[w], units[w])
    BY <2>1 DEF TokensAt
  <2> QED BY <2>1, <2>2, TokensKept
<1> QED BY <1>1, <1>2, <1>3, <1>4, <1>5 DEF TokenSteady

\* A worker's step leaves the tokens that the others hold alone.
LEMMA TokensOthers ==
    ASSUME Core, NEW w \in Workers, NEW v \in Workers, v # w, NEW r,
           AdmitStep(w) \/ Admit(w) \/ WorkReturns(w)
    PROVE  HeldTokens(v, r)' = HeldTokens(v, r) /\ Call(v)' = Call(v)
<1>1. HeldNames(v)' = HeldNames(v)
  BY HeldOthers
<1>2. pos'[v] = pos[v] /\ acquired'[v] = acquired[v] /\ units'[v] = units[v] /\ calls'[v] = calls[v]
  BY DEF AdmitStep, BudgetReserve, BudgetRefuse, BudgetRollback, BucketCheck, TakeToken,
     SelectRefuse, Refund, RefundDone, Commit, Admit, WorkReturns, Advance, Retreat, Goto,
     Core, TypeOK
<1> QED BY <1>1, <1>2 DEF HeldTokens, Current, Call

\* Which tokens are drawn, before and after a step.
LEMMA DrawnMember ==
    ASSUME NEW r, NEW p
    PROVE  /\ p \in Drawn(r) <=>
                /\ p \in Calls \X (1 .. MaxUnits)
                /\ \/ p[1] \in started /\ r \in NamedBy(p[1][1]) /\ p[2] <= p[1][3]
                   \/ p[1] = Call(p[1][1]) /\ p[2] <= HeldTokens(p[1][1], r)
           /\ p \in Drawn(r)' <=>
                /\ p \in Calls \X (1 .. MaxUnits)
                /\ \/ p[1] \in started' /\ r \in NamedBy(p[1][1]) /\ p[2] <= p[1][3]
                   \/ p[1] = Call(p[1][1])' /\ p[2] <= HeldTokens(p[1][1], r)'
<1>1. p \in Calls \X (1 .. MaxUnits) => p[1][1] \in Workers
  BY DEF Calls
<1> QED BY <1>1 DEF Drawn, Calls, NamedBy, Call, HeldTokens, HeldNames, Current

\* A step that changes nobody's tokens and starts no call.
LEMMA DrawnFrame ==
    ASSUME UNCHANGED started, NEW r,
           \A v \in Workers : /\ HeldTokens(v, r)' = HeldTokens(v, r)
                              /\ Call(v)' = Call(v) \/ HeldTokens(v, r) = 0
    PROVE  Drawn(r)' = Drawn(r)
<1>1. ASSUME NEW p PROVE p \in Drawn(r)' <=> p \in Drawn(r)
  <2>1. p \in Calls \X (1 .. MaxUnits) => p[1][1] \in Workers /\ p[2] \in 1 .. MaxUnits
    BY DEF Calls
  <2>2. p[2] \in 1 .. MaxUnits => ~(p[2] <= 0)
    BY AdmissionAssumption
  <2> QED BY <2>1, <2>2, DrawnMember
<1> QED BY <1>1

\* The tokens of a call in its current bucket, and the call itself.
LEMMA BucketFacts ==
    ASSUME Core, NEW w \in Workers, pc[w] \in InBucket
    PROVE  /\ Current(w) \in Rated /\ HeldTokens(w, Current(w)) = acquired[w]
           /\ Call(w) \in Calls /\ Call(w) \notin started /\ Call(w)[1] = w
           /\ acquired[w] \in Nat /\ acquired[w] <= units[w] /\ units[w] \in 1 .. MaxUnits
<1>1. /\ Current(w) \in Rated /\ pos[w] \in 1 .. Len(Names[w])
      /\ acquired[w] \in Nat /\ acquired[w] <= units[w]
      /\ units[w] \in 1 .. MaxUnits /\ calls[w] \in 1 .. MaxCalls
  BY WorkerFacts, ConstantFacts DEF CursorOK, InBucket, Admitting, Outside
<1>2. HeldTokens(w, Current(w)) = acquired[w]
  BY <1>1 DEF HeldTokens
<1>3. Call(w) \in Calls /\ Call(w)[1] = w
  BY <1>1 DEF Call, Calls
<1>4. Call(w) \notin started
  BY BlockMember DEF InBucket, Outside
<1> QED BY <1>1, <1>2, <1>3, <1>4

\* A receive or a refund changes the tokens of the current bucket only.
LEMMA BucketStep ==
    ASSUME Core, NEW w \in Workers, TakeToken(w) \/ Refund(w), NEW r
    PROVE  /\ UNCHANGED <<minted, started>> /\ \A v \in Workers : Call(v)' = Call(v)
           /\ \A v \in Workers : v # w \/ r # Current(w) => HeldTokens(v, r)' = HeldTokens(v, r)
           /\ r = Current(w) => HeldTokens(w, r)' = acquired'[w]
           /\ pc[w] \in InBucket
<1>1. UNCHANGED <<minted, started, pos, calls, units>> /\ pc[w] \in InBucket
  BY DEF TakeToken, Refund, InBucket
<1>2. HeldNames(w)' = HeldNames(w)
  BY HeldSame DEF HeldSteps
<1>3. r # Current(w) => HeldTokens(w, r)' = HeldTokens(w, r)
  BY <1>1, <1>2 DEF HeldTokens, Current
<1>4. pos[w] \in 1 .. Len(Names[w])
  BY <1>1, WorkerFacts DEF CursorOK, InBucket, Admitting
<1>5. r = Current(w) => HeldTokens(w, r)' = acquired'[w]
  BY <1>1, <1>4 DEF HeldTokens, Current
<1> QED BY <1>1, <1>3, <1>5, TokensOthers DEF AdmitStep, Call

\* A receive draws one more token for the call.
LEMMA TakeDraws ==
    ASSUME Core, NEW w \in Workers, TakeToken(w), NEW r \in Rated
    PROVE  /\ r # Current(w) => Drawn(r)' = Drawn(r)
           /\ r = Current(w) => /\ Drawn(r)' = Drawn(r) \cup {<<Call(w), acquired[w] + 1>>}
                                /\ <<Call(w), acquired[w] + 1>> \notin Drawn(r)
<1>1. /\ UNCHANGED <<minted, started>> /\ \A v \in Workers : Call(v)' = Call(v)
      /\ \A v \in Workers : v # w \/ r # Current(w) => HeldTokens(v, r)' = HeldTokens(v, r)
      /\ r = Current(w) => HeldTokens(w, r)' = acquired'[w]
      /\ pc[w] \in InBucket
  BY BucketStep
<1>2. acquired'[w] = acquired[w] + 1 /\ acquired[w] < units[w]
  BY WorkerFacts DEF TakeToken, Core, TypeOK, CursorOK
<1>3. /\ Current(w) \in Rated /\ HeldTokens(w, Current(w)) = acquired[w]
      /\ Call(w) \in Calls /\ Call(w) \notin started /\ Call(w)[1] = w
      /\ acquired[w] \in Nat /\ units[w] \in 1 .. MaxUnits
  BY <1>1, BucketFacts
<1>4. r # Current(w) => Drawn(r)' = Drawn(r)
  BY <1>1, DrawnFrame
<1>5. ASSUME r = Current(w), NEW p
      PROVE  /\ p \in Drawn(r)' <=> p \in Drawn(r) \/ p = <<Call(w), acquired[w] + 1>>
             /\ p = <<Call(w), acquired[w] + 1>> => p \notin Drawn(r)
  <2>1. p \in Calls \X (1 .. MaxUnits) =>
          p[1][1] \in Workers /\ p[2] \in Nat /\ p = <<p[1], p[2]>>
    BY AdmissionAssumption DEF Calls
  <2>2. <<Call(w), acquired[w] + 1>> \in Calls \X (1 .. MaxUnits)
    BY <1>2, <1>3, AdmissionAssumption
  <2>3. HeldTokens(w, r) = acquired[w] /\ HeldTokens(w, r)' = acquired[w] + 1
    BY <1>1, <1>2, <1>3, <1>5
  <2>4. p[2] \in Nat => (p[2] <= acquired[w] + 1 <=> p[2] <= acquired[w] \/ p[2] = acquired[w] + 1)
    BY <1>3
  <2>5. CASE p \notin Calls \X (1 .. MaxUnits)
    BY <2>2, <2>5, DrawnMember
  <2>6. CASE p \in Calls \X (1 .. MaxUnits) /\ p[1] = Call(w)
    <3>1. p[1][1] = w /\ p[1] \notin started /\ p[2] \in Nat /\ p = <<Call(w), p[2]>>
      BY <1>3, <2>1, <2>6
    <3>2. p \in Drawn(r) <=> p[2] <= acquired[w]
      BY <1>3, <2>3, <2>6, <3>1, DrawnMember
    <3>3. p \in Drawn(r)' <=> p[2] <= acquired[w] + 1
      BY <1>1, <1>3, <2>3, <2>6, <3>1, DrawnMember
    <3>4. p = <<Call(w), acquired[w] + 1>> <=> p[2] = acquired[w] + 1
      BY <3>1
    <3> QED BY <1>3, <2>4, <3>1, <3>2, <3>3, <3>4
  <2>7. CASE p \in Calls \X (1 .. MaxUnits) /\ p[1] # Call(w)
    BY <1>1, <2>1, <2>7, DrawnMember
  <2> QED BY <2>5, <2>6, <2>7
<1> QED BY <1>4, <1>5

\* A refund gives one token back, or drops tokens that a full bucket has no room for.
LEMMA RefundDraws ==
    ASSUME Core, NEW w \in Workers, Refund(w), NEW r \in Rated
    PROVE  /\ r # Current(w) => Drawn(r)' = Drawn(r)
           /\ Drawn(r)' \subseteq Drawn(r)
           /\ r = Current(w) /\ acquired'[w] = acquired[w] - 1 =>
                Drawn(r)' = Drawn(r) \ {<<Call(w), acquired[w]>>}
           /\ r = Current(w) => <<Call(w), acquired[w]>> \in Drawn(r)
<1>1. /\ UNCHANGED <<minted, started>> /\ \A v \in Workers : Call(v)' = Call(v)
      /\ \A v \in Workers : v # w \/ r # Current(w) => HeldTokens(v, r)' = HeldTokens(v, r)
      /\ r = Current(w) => HeldTokens(w, r)' = acquired'[w]
      /\ pc[w] \in InBucket
  BY BucketStep
<1>2. /\ Current(w) \in Rated /\ HeldTokens(w, Current(w)) = acquired[w]
      /\ Call(w) \in Calls /\ Call(w) \notin started /\ Call(w)[1] = w
      /\ acquired[w] \in Nat /\ units[w] \in 1 .. MaxUnits /\ acquired[w] <= units[w]
  BY <1>1, BucketFacts
<1>3. acquired'[w] \in {acquired[w] - 1, 0} /\ acquired[w] > 0
  BY DEF Refund, Core, TypeOK
<1>4. r # Current(w) => Drawn(r)' = Drawn(r)
  BY <1>1, DrawnFrame
<1>5. ASSUME r = Current(w), NEW p
      PROVE  /\ p \in Drawn(r)' => p \in Drawn(r)
             /\ acquired'[w] = acquired[w] - 1 =>
                  (p \in Drawn(r)' <=> p \in Drawn(r) /\ p # <<Call(w), acquired[w]>>)
             /\ p = <<Call(w), acquired[w]>> => p \in Drawn(r)
  <2>1. p \in Calls \X (1 .. MaxUnits) =>
          p[1][1] \in Workers /\ p[2] \in Nat /\ p = <<p[1], p[2]>>
    BY AdmissionAssumption DEF Calls
  <2>2. <<Call(w), acquired[w]>> \in Calls \X (1 .. MaxUnits)
    BY <1>2, <1>3, AdmissionAssumption
  <2>3. HeldTokens(w, r) = acquired[w] /\ HeldTokens(w, r)' = acquired'[w]
    BY <1>1, <1>2, <1>5
  <2>4. p[2] \in Nat =>
          /\ p[2] <= acquired'[w] => p[2] <= acquired[w]
          /\ acquired'[w] = acquired[w] - 1 =>
               (p[2] <= acquired'[w] <=> p[2] <= acquired[w] /\ p[2] # acquired[w])
    BY <1>2, <1>3
  <2>5. CASE p \notin Calls \X (1 .. MaxUnits)
    BY <2>2, <2>5, DrawnMember
  <2>6. CASE p \in Calls \X (1 .. MaxUnits) /\ p[1] = Call(w)
    <3>1. p[1][1] = w /\ p[1] \notin started /\ p[2] \in Nat /\ p = <<Call(w), p[2]>>
      BY <1>2, <2>1, <2>6
    <3>2. p \in Drawn(r) <=> p[2] <= acquired[w]
      BY <1>2, <2>3, <2>6, <3>1, DrawnMember
    <3>3. p \in Drawn(r)' <=> p[2] <= acquired'[w]
      BY <1>1, <1>2, <2>3, <2>6, <3>1, DrawnMember
    <3>4. p = <<Call(w), acquired[w]>> <=> p[2] = acquired[w]
      BY <3>1
    <3> QED BY <1>2, <2>4, <3>1, <3>2, <3>3, <3>4
  <2>7. CASE p \in Calls \X (1 .. MaxUnits) /\ p[1] # Call(w)
    BY <1>1, <2>1, <2>7, DrawnMember
  <2> QED BY <2>5, <2>6, <2>7
<1> QED BY <1>4, <1>5

\* Starting a call turns the tokens it holds into tokens it has used.
LEMMA CommitDraws ==
    ASSUME Core, NEW w \in Workers, Commit(w), NEW r \in Rated
    PROVE  Drawn(r)' = Drawn(r)
<1>1. /\ started' = started \cup {Call(w)} /\ Call(w)[1] = w /\ Call(w)[3] = units[w]
      /\ \A v \in Workers : Call(v)' = Call(v)
  BY DEF Commit, Call
<1>2. pos[w] = Len(Names[w]) + 1 /\ pos'[w] = 0 /\ Len(Names[w]) \in Nat
  BY WorkerFacts, ConstantFacts DEF Commit, CursorOK, Core, TypeOK
<1>3. /\ r \in NamedBy(w) => HeldTokens(w, r) = units[w]
      /\ r \notin NamedBy(w) => HeldTokens(w, r) = 0
      /\ HeldTokens(w, r)' = 0
  <2>1. HeldNames(w) = NamedBy(w) /\ HeldNames(w)' = {}
    BY HeldCommit
  <2> QED BY <1>2, <2>1 DEF HeldTokens
<1>4. \A v \in Workers \ {w} : HeldTokens(v, r)' = HeldTokens(v, r)
  BY TokensOthers DEF AdmitStep
<1>5. ASSUME NEW p PROVE p \in Drawn(r)' <=> p \in Drawn(r)
  <2>1. p \in Calls \X (1 .. MaxUnits) => p[1][1] \in Workers /\ p[2] \in 1 .. MaxUnits
    BY DEF Calls
  <2>2. p[2] \in 1 .. MaxUnits => ~(p[2] <= 0)
    BY AdmissionAssumption
  <2> QED BY <1>1, <1>3, <1>4, <2>1, <2>2, DrawnMember
<1> QED BY <1>5

Rates == /\ \A r \in Rated : IsFiniteSet(Drawn(r))
         /\ RateNeverExceeded

\* A new bucket is full and nothing is drawn from it.
LEMMA RatesInit == Init => Rates
<1> SUFFICES ASSUME Init PROVE Rates
  OBVIOUS
<1>1. \A v \in Workers, r \in Rated : HeldTokens(v, r) = 0
  BY DEF Init, HeldTokens, HeldNames
<1>2. \A r \in Rated : Drawn(r) = {}
  <2> SUFFICES ASSUME NEW r \in Rated, NEW p, p \in Drawn(r) PROVE FALSE
    OBVIOUS
  <2>1. p \in Calls \X (1 .. MaxUnits) => p[1][1] \in Workers /\ p[2] \in 1 .. MaxUnits
    BY DEF Calls
  <2>2. p[2] \in 1 .. MaxUnits => ~(p[2] <= 0)
    BY AdmissionAssumption
  <2> QED BY <1>1, <2>1, <2>2, DrawnMember DEF Init
<1>3. \A r \in Rated : Burst[r] \in Nat /\ tokens[r] = Burst[r] /\ minted[r] = 0
  BY RateAssumption DEF Init
<1>4. \A r \in Rated : IsFiniteSet(Drawn(r)) /\ Cardinality(Drawn(r)) = 0
  BY <1>2, FS_EmptySet
<1> QED BY <1>3, <1>4 DEF Rates, RateNeverExceeded

\* What Rates says of one bucket, with the types of the counters.
LEMMA RateFacts ==
    ASSUME Core, Rates, NEW r \in Rated
    PROVE  /\ tokens[r] \in Nat /\ minted[r] \in Nat /\ Burst[r] \in Nat
           /\ IsFiniteSet(Drawn(r)) /\ Cardinality(Drawn(r)) \in Nat
           /\ tokens[r] + Cardinality(Drawn(r)) <= Burst[r] + minted[r]
<1>1. IsFiniteSet(Drawn(r)) /\ tokens[r] + Cardinality(Drawn(r)) <= Burst[r] + minted[r]
  BY DEF Rates, RateNeverExceeded
<1> QED BY <1>1, RateAssumption, FS_CardinalityType DEF Core, TypeOK

\* A step that draws nothing and mints at least what it adds.
LEMMA RatesFrame ==
    ASSUME Core, Rates, \A r \in Rated : Drawn(r)' = Drawn(r),
           \/ UNCHANGED <<tokens, minted>>
           \/ \E r \in Rated : /\ tokens' = [tokens EXCEPT ![r] = @ + 1]
                               /\ minted' = [minted EXCEPT ![r] = @ + 1]
    PROVE  Rates'
<1> SUFFICES ASSUME NEW r \in Rated
             PROVE  /\ IsFiniteSet(Drawn(r)')
                    /\ tokens'[r] + Cardinality(Drawn(r)') <= Burst[r] + minted'[r]
  BY DEF Rates, RateNeverExceeded
<1>1. \/ tokens'[r] = tokens[r] /\ minted'[r] = minted[r]
      \/ tokens'[r] = tokens[r] + 1 /\ minted'[r] = minted[r] + 1
  <2>1. CASE UNCHANGED <<tokens, minted>>
    BY <2>1
  <2>2. ASSUME NEW q \in Rated, tokens' = [tokens EXCEPT ![q] = @ + 1],
               minted' = [minted EXCEPT ![q] = @ + 1]
        PROVE  \/ tokens'[r] = tokens[r] /\ minted'[r] = minted[r]
               \/ tokens'[r] = tokens[r] + 1 /\ minted'[r] = minted[r] + 1
    <3>1. tokens \in [Rated -> Nat] /\ minted \in [Rated -> 0 .. MaxMinted]
      BY DEF Core, TypeOK
    <3>2. CASE q = r
      BY <2>2, <3>1, <3>2
    <3>3. CASE q # r
      BY <2>2, <3>1, <3>3
    <3> QED BY <3>2, <3>3
  <2> QED BY <2>1, <2>2
<1>2. IsFiniteSet(Drawn(r)') /\ Cardinality(Drawn(r)') = Cardinality(Drawn(r))
  BY RateFacts
<1> QED BY <1>1, <1>2, RateFacts

\* A receive moves a token from the bucket to the call.
LEMMA RatesTake ==
    ASSUME Core, Rates, NEW w \in Workers, TakeToken(w)
    PROVE  Rates'
<1> SUFFICES ASSUME NEW r \in Rated
             PROVE  /\ IsFiniteSet(Drawn(r)')
                    /\ tokens'[r] + Cardinality(Drawn(r)') <= Burst[r] + minted'[r]
  BY DEF Rates, RateNeverExceeded
<1>1. minted'[r] = minted[r]
  BY DEF TakeToken
<1>2. CASE r # Current(w)
  <2>1. tokens'[r] = tokens[r]
    BY <1>2 DEF TakeToken, Core, TypeOK
  <2> QED BY <1>1, <1>2, <2>1, TakeDraws, RateFacts
<1>3. CASE r = Current(w)
  <2>1. tokens'[r] = tokens[r] - 1
    BY <1>3 DEF TakeToken, Core, TypeOK
  <2>2. /\ Drawn(r)' = Drawn(r) \cup {<<Call(w), acquired[w] + 1>>}
        /\ <<Call(w), acquired[w] + 1>> \notin Drawn(r)
    BY <1>3, TakeDraws
  <2>3. IsFiniteSet(Drawn(r)') /\ Cardinality(Drawn(r)') = Cardinality(Drawn(r)) + 1
    <3> DEFINE D == Drawn(r)
               x == <<Call(w), acquired[w] + 1>>
    <3>1. IsFiniteSet(D) /\ x \notin D
      BY <2>2, RateFacts
    <3>2. IsFiniteSet(D \cup {x}) /\ Cardinality(D \cup {x}) = Cardinality(D) + 1
      <4> HIDE DEF D, x
      <4> QED BY <3>1, FS_AddElement
    <3> QED BY <2>2, <3>2
  <2> QED BY <1>1, <2>1, <2>3, RateFacts
<1> QED BY <1>2, <1>3

\* A refund moves a token back, or forgets it.
LEMMA RatesRefund ==
    ASSUME Core, Rates, NEW w \in Workers, Refund(w)
    PROVE  Rates'
<1> SUFFICES ASSUME NEW r \in Rated
             PROVE  /\ IsFiniteSet(Drawn(r)')
                    /\ tokens'[r] + Cardinality(Drawn(r)') <= Burst[r] + minted'[r]
  BY DEF Rates, RateNeverExceeded
<1>1. minted'[r] = minted[r]
  BY DEF Refund
<1>2. /\ IsFiniteSet(Drawn(r)') /\ Cardinality(Drawn(r)') <= Cardinality(Drawn(r))
      /\ Cardinality(Drawn(r)') \in Nat
  BY RefundDraws, RateFacts, FS_Subset, FS_CardinalityType
<1>3. CASE tokens'[r] = tokens[r]
  BY <1>1, <1>2, <1>3, RateFacts
<1>4. CASE tokens'[r] # tokens[r]
  <2>1. r = Current(w) /\ tokens'[r] = tokens[r] + 1 /\ acquired'[w] = acquired[w] - 1
    BY <1>4 DEF Refund, Core, TypeOK
  <2>2. Drawn(r)' = Drawn(r) \ {<<Call(w), acquired[w]>>} /\ <<Call(w), acquired[w]>> \in Drawn(r)
    BY <2>1, RefundDraws
  <2>3. Cardinality(Drawn(r)') = Cardinality(Drawn(r)) - 1
    BY <2>2, RateFacts, FS_RemoveElement
  <2> QED BY <1>1, <1>2, <2>1, <2>3, RateFacts
<1> QED BY <1>3, <1>4

\* The bound on tokens is preserved by every step.
LEMMA RatesNext == Core /\ Rates /\ [Next]_vars => Rates'
<1> SUFFICES ASSUME Core, Rates, [Next]_vars PROVE Rates'
  OBVIOUS
<1>1. ASSUME NEW w \in Workers, TokenSteady(w)
      PROVE  Rates'
  <2>1. UNCHANGED <<tokens, minted, started>>
    BY <1>1 DEF TokenSteady, BudgetReserve, BudgetRefuse, BudgetRollback, BucketCheck,
       SelectRefuse, RefundDone, Admit, WorkReturns, bucketVars
  <2>2. ASSUME NEW r \in Rated, NEW v \in Workers
        PROVE  /\ HeldTokens(v, r)' = HeldTokens(v, r)
               /\ Call(v)' = Call(v) \/ HeldTokens(v, r) = 0
    <3>1. CASE v # w
      BY <1>1, <3>1, TokensOthers DEF TokenSteady, AdmitStep
    <3>2. CASE v = w
      <4>1. HeldTokens(w, r)' = HeldTokens(w, r)
        BY <1>1, SteadyTokens
      <4>2. CASE Admit(w)
        <5>1. pos[w] = 0 /\ HeldNames(w) = {}
          BY <4>2, WorkerFacts, HeldAdmit DEF Admit, CursorOK, Outside
        <5> QED BY <3>2, <4>1, <5>1 DEF HeldTokens
      <4>3. CASE ~Admit(w)
        <5>1. UNCHANGED <<calls, units>>
          BY <1>1, <4>3 DEF TokenSteady, BudgetReserve, BudgetRefuse, BudgetRollback,
             BucketCheck, SelectRefuse, RefundDone, WorkReturns
        <5> QED BY <3>2, <4>1, <5>1 DEF Call
      <4> QED BY <4>2, <4>3
    <3> QED BY <3>1, <3>2
  <2> QED BY <2>1, <2>2, DrawnFrame, RatesFrame
<1>2. ASSUME NEW w \in Workers, Commit(w)
      PROVE  Rates'
  <2>1. UNCHANGED <<tokens, minted>>
    BY <1>2 DEF Commit, bucketVars
  <2> QED BY <1>2, <2>1, CommitDraws, RatesFrame
<1>3. CASE \/ \E w \in Workers : Cancel(w)
           \/ \E r \in Rated : Replenish(r) \/ Close(r)
           \/ UNCHANGED vars
  <2>1. UNCHANGED <<pc, pos, acquired, calls, units, started>>
    BY <1>3 DEF Cancel, Replenish, Close, vars
  <2>2. \A v \in Workers, r \in Rated : /\ HeldTokens(v, r)' = HeldTokens(v, r)
                                        /\ Call(v)' = Call(v)
    BY <2>1 DEF HeldTokens, HeldNames, Current, Call
  <2>3. \/ UNCHANGED <<tokens, minted>>
        \/ \E r \in Rated : /\ tokens' = [tokens EXCEPT ![r] = @ + 1]
                            /\ minted' = [minted EXCEPT ![r] = @ + 1]
    BY <1>3 DEF Cancel, Replenish, Close, vars, bucketVars
  <2> QED BY <2>1, <2>2, <2>3, DrawnFrame, RatesFrame
<1> QED BY <1>1, <1>2, <1>3, RatesTake, RatesRefund DEF Next, AdmitStep, TokenSteady

\* No bucket ever lets through more than its burst and what its replenisher added:
\* refunds of refused, canceled and closed-out calls never multiply tokens
\* (TokenBucket.Reserve, refund), for any workers, orders of names and requests.
THEOREM RateIsKept == Spec => []RateNeverExceeded
<1>1. Core /\ Rates => RateNeverExceeded
  BY DEF Rates
<1> QED BY CoreInit, CoreNext, RatesInit, RatesNext, <1>1, PTL DEF Spec

------------------------------------------------------------------------------
(* Refinement                                                                *)

\* Commit is the step in which the call pays for everything at once.
LEMMA CommitStarts ==
    ASSUME Core, Budgets, NEW w \in Workers, Commit(w)
    PROVE  Atomic!Next
<1>1. pc[w] \notin Outside /\ started' = started \cup {Call(w)} /\ Call(w)[1] = w
  BY DEF Commit, Outside, Call
<1>2. Call(w) \notin started
  BY <1>1, BlockMember
<1>3. Call(w) \in Calls
  <2>1. calls[w] \in 1 .. MaxCalls /\ units[w] \in 1 .. MaxUnits
    BY <1>1, WorkerFacts, ConstantFacts DEF CursorOK
  <2> QED BY <2>1 DEF Call, Calls
<1>4. ASSUME NEW r \in Resources
      PROVE  Cardinality(Atomic!Paid(started \cup {Call(w)}, r)) <= Limit[r]
  <2>1. Atomic!Paid(started \cup {Call(w)}, r) \subseteq Charged(r)
    BY <1>1, HeldCommit DEF Atomic!Paid, Atomic!Calls, Atomic!NamedBy, Charged, Calls, NamedBy
  <2> QED BY <2>1, ChargedFits
<1>5. Atomic!Start(Call(w))
  <2>1. \A S : Atomic!Cardinality(S) = Cardinality(S)
    BY DEF Atomic!Cardinality, Cardinality
  <2> QED BY <1>1, <1>2, <1>4, <2>1 DEF Atomic!Start, Atomic!Affordable
<1>6. Atomic!Calls = Calls
  BY DEF Atomic!Calls, Calls
<1> QED BY <1>3, <1>5, <1>6 DEF Atomic!Next

\* The detailed admission implements the indivisible one: whatever the
\* interleaving of reservations, rollbacks and token waits, work starts as if
\* each call had paid for all its resources in one step.
THEOREM AdmissionIsAtomic == Spec => ImplementsAtomic
<1>1. Init => Atomic!Init
  BY DEF Init, Atomic!Init
<1>2. Core /\ Budgets /\ [Next]_vars => [Atomic!Next]_started
  <2> SUFFICES ASSUME Core, Budgets, [Next]_vars
               PROVE  Atomic!Next \/ started' = started
    OBVIOUS
  <2>1. CASE \E w \in Workers : Commit(w)
    BY <2>1, CommitStarts
  <2>2. CASE ~ \E w \in Workers : Commit(w)
    BY <2>2
    DEF Next, AdmitStep, vars, BudgetReserve, BudgetRefuse, BudgetRollback, BucketCheck,
        TakeToken, SelectRefuse, Refund, RefundDone, Admit, WorkReturns, Cancel, Replenish,
        Close
  <2> QED BY <2>1, <2>2
<1> QED BY CoreInit, CoreNext, BudgetsInit, BudgetsNext, <1>1, <1>2, PTL
        DEF Spec, ImplementsAtomic, Atomic!Spec

==============================================================================
