--------------------------- MODULE WorkloadsProofs ---------------------------
(* Safety of the work queue for every set of workers, jobs and requests and *)
(* every value of the bounds: IInv is inductive, and with it the attempt    *)
(* bound, the fencing of stale workers, the permanence of outcomes, the     *)
(* refinement of WorkloadDelivery and, last, how far the count before the   *)
(* claim can overshoot the limit of a tenant.                               *)
EXTENDS Workloads, FiniteSetTheorems, TLAPS

(* One disjunct per action, for the proofs by cases.                        *)
LEMMA NextCases ==
  ASSUME Next
  PROVE  \/ \E p \in Producers, j \in Jobs : EnqueueRead(p, j)
         \/ \E p \in Producers : EnqueueInsert(p)
         \/ \E w \in Workers : WorkerStep(w)
         \/ \E w \in Workers : Heartbeat(w) \/ Crash(w)
         \/ \E c \in Cancellers, j \in Jobs : CancelRead(c, j)
         \/ \E c \in Cancellers : CancelCommit(c)
         \/ Tick
  BY DEF Next

(* The candidate query returns eligible rows no other worker holds.         *)
LEMMA BatchEligible ==
  ASSUME NEW w \in Workers
  PROVE  /\ Batch(w) \in SUBSET Jobs
         /\ \A j \in Batch(w) : Eligible(j, age[w]) /\ UnlockedFor(w, j)
BY DEF Batch, FirstOf

(* Every step keeps the types; WorkersFenced says that a worker past its    *)
(* claim has a job.                                                         *)
LEMMA EndCallTypes ==
  ASSUME WorkerTypes, NEW w \in Workers, EndCall(w)
  PROVE  WorkerTypes'
BY DEF WorkerTypes, EndCall, WorkerPCs

LEMMA TypeStep ==
  ASSUME TypeOK, WorkersFenced, [Next]_vars
  PROVE  TypeOK'
<1>0. RowTypes /\ WorkerTypes /\ OtherTypes
  BY DEF TypeOK
<1>r. ASSUME UNCHANGED rows
      PROVE  RowTypes'
  BY <1>0, <1>r DEF RowTypes, rows
<1>w. ASSUME UNCHANGED workerVars
      PROVE  WorkerTypes'
  BY <1>0, <1>w DEF WorkerTypes, workerVars
<1>o. ASSUME UNCHANGED <<inserting, cancelling, executions, crashes>>
      PROVE  OtherTypes'
  BY <1>0, <1>o DEF OtherTypes
<1>1. CASE UNCHANGED vars
  BY <1>1, <1>r, <1>w, <1>o DEF vars, TypeOK
<1>2. ASSUME NEW p \in Producers, NEW j \in Jobs, EnqueueRead(p, j)
      PROVE  TypeOK'
  <2>1. OtherTypes'
    BY <1>2, <1>0 DEF EnqueueRead, OtherTypes
  <2> QED
    BY <1>2, <1>r, <1>w, <2>1 DEF EnqueueRead, TypeOK
<1>3. ASSUME NEW p \in Producers, EnqueueInsert(p)
      PROVE  TypeOK'
  <2>1. OtherTypes'
    BY <1>3, <1>0 DEF EnqueueInsert, OtherTypes
  <2>2. RowTypes'
    BY <1>3, <1>0, <1>r DEF EnqueueInsert, InsertRow, RowTypes, Statuses
  <2> QED
    BY <1>3, <1>w, <2>1, <2>2 DEF EnqueueInsert, TypeOK
<1>4. ASSUME NEW w \in Workers, WorkerStep(w)
      PROVE  TypeOK'
  <2>1. CASE StartCall(w)
    <3>1. WorkerTypes'
      BY <2>1, <1>0 DEF StartCall, Goto, session, WorkerTypes, WorkerPCs
    <3> QED
      BY <2>1, <3>1, <1>r, <1>o DEF StartCall, TypeOK
  <2>2. CASE Recover(w)
    <3>1. WorkerTypes'
      BY <2>2, <1>0 DEF Recover, Goto, session, WorkerTypes, WorkerPCs
    <3>2. age[w] \in Nat
      BY <1>0 DEF WorkerTypes
    <3>3. RowTypes'
      BY <2>2, <1>0, <3>2 DEF Recover, RowTypes, Statuses, Terminal
    <3> QED
      BY <2>2, <3>1, <3>3, <1>o DEF Recover, TypeOK
  <2>3. CASE SelectCandidates(w)
    <3>1. CASE Batch(w) = {}
      <4>1. WorkerTypes'
        BY <2>3, <3>1, <1>0, EndCallTypes DEF SelectCandidates
      <4> QED
        BY <2>3, <4>1, <1>r, <1>o DEF SelectCandidates, TypeOK
    <3>2. CASE Batch(w) # {}
      <4>1. /\ held' = [held EXCEPT ![w] = Batch(w)]
            /\ todo' = [todo EXCEPT ![w] = Batch(w)]
            /\ pc' = [pc EXCEPT ![w] = "count"]
            /\ UNCHANGED <<age, job, lease>>
        BY <2>3, <3>2 DEF SelectCandidates, Goto
      <4>2. WorkerTypes'
        BY <4>1, <1>0, BatchEligible DEF WorkerTypes, WorkerPCs
      <4> QED
        BY <2>3, <4>2, <1>r, <1>o DEF SelectCandidates, TypeOK
    <3> QED
      BY <3>1, <3>2
  <2>4. CASE CountActive(w)
    <3>1. PICK j \in todo[w] :
            \/ EndCall(w)
            \/ todo' = [todo EXCEPT ![w] = @ \ {j}] /\ UNCHANGED <<pc, age, held, job, lease>>
            \/ pc' = [pc EXCEPT ![w] = "claim"] /\ UNCHANGED <<age, held, todo, job, lease>>
      BY <2>4 DEF CountActive, Goto, session
    <3>2. WorkerTypes'
      BY <3>1, <1>0, EndCallTypes DEF WorkerTypes, WorkerPCs
    <3> QED
      BY <2>4, <3>2, <1>r, <1>o DEF CountActive, TypeOK
  <2>5. CASE Claim(w)
    <3>1. PICK j \in todo[w] :
            /\ status'   = [status EXCEPT ![j] = "leased"]
            /\ owner'    = [owner EXCEPT ![j] = w]
            /\ expires'  = [expires EXCEPT ![j] = LeaseSeconds - age[w]]
            /\ attempts' = [attempts EXCEPT ![j] = @ + 1]
            /\ job'      = [job EXCEPT ![w] = j]
            /\ lease'    = [lease EXCEPT ![w] = attempts[j] + 1]
      BY <2>5 DEF Claim
    <3>2. /\ held' = [held EXCEPT ![w] = {}]
          /\ todo' = [todo EXCEPT ![w] = {}]
          /\ age'  = [age EXCEPT ![w] = 0]
          /\ pc'   = [pc EXCEPT ![w] = "mark"]
          /\ UNCHANGED <<scheduled, inserting, cancelling, executions, crashes>>
      BY <2>5 DEF Claim, Goto
    <3>3. /\ j \in Jobs /\ attempts[j] \in Nat
          /\ age[w] \in Nat /\ LeaseSeconds \in Nat
      BY <1>0, WorkloadAssumption DEF WorkerTypes, RowTypes
    <3>4. RowTypes'
      BY <3>1, <3>2, <3>3, <1>0 DEF RowTypes, Statuses, Active
    <3>5. WorkerTypes'
      BY <3>1, <3>2, <3>3, <1>0 DEF WorkerTypes, WorkerPCs
    <3> QED
      BY <3>2, <3>4, <3>5, <1>o DEF TypeOK
  <2>6. CASE MarkRunning(w)
    <3>1. CASE HoldsLease(w, job[w])
      <4>1. job[w] \in Jobs
        BY <2>6 DEF MarkRunning, AtJob, WorkersFenced, Fenced
      <4>2. RowTypes' /\ OtherTypes'
        BY <2>6, <3>1, <4>1, <1>0
           DEF MarkRunning, RowTypes, OtherTypes, Statuses, Active
      <4>3. WorkerTypes'
        BY <2>6, <3>1, <1>0 DEF MarkRunning, Goto, session, WorkerTypes, WorkerPCs
      <4> QED
        BY <4>2, <4>3 DEF TypeOK
    <3>2. CASE ~HoldsLease(w, job[w])
      <4>1. WorkerTypes'
        BY <2>6, <3>2, <1>0, EndCallTypes DEF MarkRunning
      <4> QED
        BY <2>6, <3>2, <4>1, <1>r, <1>o DEF MarkRunning, rows, TypeOK
    <3> QED
      BY <3>1, <3>2
  <2>7. ASSUME AtJob(w, "run"), NEW s \in Statuses, Report(w, s)
        PROVE  TypeOK'
    <3>1. job[w] \in Jobs /\ RetryDelay \in Int
      BY <2>7, WorkloadAssumption DEF AtJob, WorkersFenced, Fenced
    <3>2. RowTypes'
      BY <2>7, <3>1, <1>0, <1>r DEF Report, RowTypes, rows
    <3>3. WorkerTypes'
      BY <2>7, <1>0, EndCallTypes DEF Report
    <3> QED
      BY <2>7, <3>2, <3>3, <1>o DEF Report, TypeOK
  <2>8. CASE Succeed(w) \/ FailFinal(w) \/ FailRetryable(w)
    BY <2>7, <2>8 DEF Succeed, FailFinal, FailRetryable, Statuses, Terminal
  <2> QED
    BY <1>4, <2>1, <2>2, <2>3, <2>4, <2>5, <2>6, <2>8 DEF WorkerStep
<1>5. ASSUME NEW w \in Workers, Heartbeat(w) \/ Crash(w)
      PROVE  TypeOK'
  <2>1. CASE Heartbeat(w)
    <3>1. LeaseSeconds \in Int
      BY WorkloadAssumption
    <3>2. RowTypes'
      BY <2>1, <3>1, <1>0 DEF Heartbeat, RowTypes
    <3> QED
      BY <2>1, <3>2, <1>w, <1>o DEF Heartbeat, TypeOK
  <2>2. CASE Crash(w)
    <3>1. WorkerTypes'
      BY <2>2, <1>0, EndCallTypes DEF Crash
    <3>2. OtherTypes'
      BY <2>2, <1>0 DEF Crash, OtherTypes
    <3> QED
      BY <2>2, <3>1, <3>2, <1>r DEF Crash, TypeOK
  <2> QED
    BY <1>5, <2>1, <2>2
<1>6. ASSUME NEW c \in Cancellers, NEW j \in Jobs, CancelRead(c, j)
      PROVE  TypeOK'
  <2>1. OtherTypes'
    BY <1>6, <1>0 DEF CancelRead, OtherTypes, Requests
  <2> QED
    BY <1>6, <2>1, <1>r, <1>w DEF CancelRead, TypeOK
<1>7. ASSUME NEW c \in Cancellers, CancelCommit(c)
      PROVE  TypeOK'
  <2>1. cancelling[c].job \in Jobs
    BY <1>7, <1>0 DEF CancelCommit, OtherTypes, Requests
  <2>2. RowTypes'
    BY <1>7, <2>1, <1>0 DEF CancelCommit, RowTypes, Statuses, Terminal
  <2>3. OtherTypes'
    BY <1>7, <1>0 DEF CancelCommit, OtherTypes
  <2> QED
    BY <1>7, <2>2, <2>3, <1>w DEF CancelCommit, TypeOK
<1>8. CASE Tick
  <2>1. MaxAge \in Nat
    BY WorkloadAssumption
  <2>2. RowTypes'
    BY <1>8, <2>1, <1>0 DEF Tick, Older, RowTypes
  <2>3. WorkerTypes'
    BY <1>8, <1>0 DEF Tick, session, WorkerTypes
  <2> QED
    BY <1>8, <2>2, <2>3, <1>o DEF Tick, TypeOK
<1> QED
  BY <1>1, <1>2, <1>3, <1>4, <1>5, <1>6, <1>7, <1>8, NextCases

(* What a worker holds and means to claim is queued and held by it alone.   *)
LEMMA ClaimsQueuedRow ==
  ASSUME IInv, NEW w \in Workers, NEW j \in todo[w]
  PROVE  /\ j \in Jobs /\ status[j] = "queued"
         /\ owner[j] = None /\ attempts[j] < MaxAttempts
         /\ \A v \in Workers \ {w} : j \notin held[v] /\ j \notin todo[v]
BY DEF IInv, TypeOK, WorkerTypes, QueueConsistent

(* Locks only taken back, rows untouched.                                   *)
LEMMA QueueFrame ==
  ASSUME IInv, UNCHANGED <<status, attempts, owner>>,
         \A w \in Workers : held'[w] \subseteq held[w] /\ todo'[w] \subseteq held'[w]
  PROVE  QueueConsistent'
BY DEF IInv, QueueConsistent

(* Locks untouched, one row changed that no worker holds.                   *)
LEMMA QueueRow ==
  ASSUME IInv, NEW j \in Jobs, UNCHANGED <<attempts, held, todo>>,
         \A w \in Workers : j \notin held[w],
         \A k \in Jobs \ {j} : status'[k] = status[k] /\ owner'[k] = owner[k],
         status'[j] = "queued" => owner'[j] = None /\ attempts[j] < MaxAttempts,
         status'[j] \in Active => owner'[j] # None
  PROVE  QueueConsistent'
BY DEF IInv, TypeOK, WorkerTypes, QueueConsistent

LEMMA EndCallLocks ==
  ASSUME TypeOK, NEW w \in Workers, EndCall(w)
  PROVE  \A v \in Workers : /\ held'[v] = IF v = w THEN {} ELSE held[v]
                            /\ todo'[v] = IF v = w THEN {} ELSE todo[v]
BY DEF TypeOK, WorkerTypes, EndCall

(* The row of a worker past its claim is held by nobody when the worker     *)
(* touches it.                                                              *)
LEMMA AtJobUnheld ==
  ASSUME IInv, NEW w \in Workers, NEW l \in {"mark", "run"}, AtJob(w, l),
         HoldsLease(w, job[w])
  PROVE  /\ job[w] \in Jobs
         /\ \A v \in Workers : job[w] \notin held[v]
BY DEF IInv, TypeOK, RowTypes, QueueConsistent, WorkersFenced, Fenced, AtJob, HoldsLease, UnlockedFor, Active

LEMMA QueueStep ==
  ASSUME IInv, [Next]_vars
  PROVE  QueueConsistent'
<1>0. TypeOK /\ QueueConsistent
  BY DEF IInv
<1>a. \A w \in Workers : todo[w] \subseteq held[w]
  BY <1>0 DEF QueueConsistent
<1>1. CASE UNCHANGED vars
  BY <1>1, <1>0 DEF vars, rows, workerVars, QueueConsistent
<1>2. ASSUME NEW p \in Producers, NEW j \in Jobs, EnqueueRead(p, j)
      PROVE  QueueConsistent'
  BY <1>2, <1>0 DEF EnqueueRead, rows, workerVars, QueueConsistent
<1>3. ASSUME NEW p \in Producers, EnqueueInsert(p)
      PROVE  QueueConsistent'
  <2> DEFINE j == inserting[p]
  <2>1. j \in Jobs
    BY <1>3, <1>0 DEF EnqueueInsert, TypeOK, OtherTypes
  <2>2. CASE status[j] # "absent"
    BY <1>3, <2>2, <1>0, <1>a, QueueFrame DEF EnqueueInsert, InsertRow, rows, workerVars
  <2>3. CASE status[j] = "absent"
    <3>1. /\ status' = [status EXCEPT ![j] = "queued"]
          /\ attempts' = [attempts EXCEPT ![j] = 0]
          /\ UNCHANGED <<owner, held, todo>>
      BY <1>3, <2>3 DEF EnqueueInsert, InsertRow, workerVars
    <3>2. attempts[j] = 0 /\ owner[j] = None
      BY <2>1, <2>3 DEF IInv, RowsClean
    <3>3. attempts' = attempts
      BY <3>1, <3>2, <2>1, <1>0 DEF TypeOK, RowTypes
    <3>4. \A w \in Workers : j \notin held[w]
      BY <2>3, <1>0 DEF QueueConsistent
    <3>5. 0 < MaxAttempts
      BY WorkloadAssumption
    <3> HIDE DEF j
    <3> QED
      BY <2>1, <3>1, <3>2, <3>3, <3>4, <3>5, <1>0, QueueRow DEF TypeOK, RowTypes, Active
  <2> QED
    BY <2>2, <2>3
<1>4. ASSUME NEW w \in Workers, WorkerStep(w)
      PROVE  QueueConsistent'
  <2>1. CASE StartCall(w)
    BY <2>1, <1>a, QueueFrame DEF StartCall, rows, session
  <2>2. CASE Recover(w)
    <3> DEFINE lapsed == {j \in Jobs : LeaseLapsed(j, age[w]) /\ UnlockedFor(w, j)}
    <3>1. \A j \in Jobs : j \in lapsed => status[j] \in Active
      BY DEF LeaseLapsed
    <3>2. \A j \in Jobs :
            /\ status'[j] = IF j \in lapsed
                            THEN IF Spent(j) THEN "dead_lettered" ELSE "queued"
                            ELSE status[j]
            /\ owner'[j] = IF j \in lapsed THEN None ELSE owner[j]
      BY <2>2 DEF Recover
    <3>3. UNCHANGED <<attempts, held, todo>>
      BY <2>2 DEF Recover, session
    <3>4. \A j \in Jobs : attempts[j] \in Nat /\ MaxAttempts \in Nat
      BY <1>0, WorkloadAssumption DEF TypeOK, RowTypes
    <3> HIDE DEF lapsed
    <3> QED
      BY <3>1, <3>2, <3>3, <3>4, <1>0 DEF Spent, QueueConsistent, TypeOK, WorkerTypes, Active
  <2>3. CASE SelectCandidates(w)
    <3>1. CASE Batch(w) = {}
      BY <2>3, <3>1, <1>0, <1>a, EndCallLocks, QueueFrame DEF SelectCandidates, rows
    <3>2. CASE Batch(w) # {}
      <4>1. /\ held' = [held EXCEPT ![w] = Batch(w)]
            /\ todo' = [todo EXCEPT ![w] = Batch(w)]
            /\ UNCHANGED <<status, attempts, owner>>
        BY <2>3, <3>2 DEF SelectCandidates, rows
      <4>2. \A j \in Batch(w) : /\ j \in Jobs /\ status[j] = "queued"
                               /\ \A v \in Workers \ {w} : j \notin held[v]
        BY BatchEligible DEF Eligible, UnlockedFor
      <4> QED
        BY <4>1, <4>2, <1>0 DEF QueueConsistent, TypeOK, WorkerTypes
    <3> QED
      BY <3>1, <3>2
  <2>4. CASE CountActive(w)
    <3>1. UNCHANGED <<status, attempts, owner>>
      BY <2>4 DEF CountActive, rows
    <3>2. \/ EndCall(w)
          \/ held' = held /\ \E j \in todo[w] : todo' = [todo EXCEPT ![w] = @ \ {j}]
          \/ UNCHANGED <<held, todo>>
      BY <2>4 DEF CountActive, session
    <3>3. CASE EndCall(w)
      BY <3>1, <3>3, <1>0, <1>a, EndCallLocks, QueueFrame
    <3>4. CASE held' = held /\ \E j \in todo[w] : todo' = [todo EXCEPT ![w] = @ \ {j}]
      BY <3>1, <3>4, <1>0, <1>a, QueueFrame DEF TypeOK, RowTypes
    <3>5. CASE UNCHANGED <<held, todo>>
      BY <3>1, <3>5, <1>a, QueueFrame
    <3> QED
      BY <3>2, <3>3, <3>4, <3>5
  <2>5. CASE Claim(w)
    <3>1. PICK j \in todo[w] :
            /\ status'   = [status EXCEPT ![j] = "leased"]
            /\ owner'    = [owner EXCEPT ![j] = w]
            /\ attempts' = [attempts EXCEPT ![j] = @ + 1]
      BY <2>5 DEF Claim
    <3>2. held' = [held EXCEPT ![w] = {}] /\ todo' = [todo EXCEPT ![w] = {}]
      BY <2>5 DEF Claim
    <3>3. /\ j \in Jobs /\ status[j] = "queued"
          /\ \A v \in Workers \ {w} : j \notin held[v]
      BY ClaimsQueuedRow
    <3>4. \A v \in Workers : \A k \in held'[v] : v # w /\ k # j /\ k \in held[v]
      BY <3>2, <3>3, <1>0 DEF TypeOK, WorkerTypes
    <3>5. ASSUME NEW k \in Jobs
          PROVE  /\ status'[k] = "queued"  => owner'[k] = None /\ attempts'[k] < MaxAttempts
                 /\ status'[k] \in Active  => owner'[k] # None
      BY <3>1, <3>3, <1>0, WorkloadAssumption DEF TypeOK, RowTypes, QueueConsistent, Active
    <3>6. ASSUME NEW v \in Workers
          PROVE  /\ todo'[v] \subseteq held'[v]
                 /\ \A k \in held'[v] : status'[k] = "queued"
                 /\ \A u \in Workers \ {v} : held'[u] \intersect held'[v] = {}
      BY <3>1, <3>2, <3>3, <3>4, <1>0 DEF TypeOK, WorkerTypes, QueueConsistent
    <3> QED
      BY <3>5, <3>6 DEF QueueConsistent
  <2>6. CASE MarkRunning(w)
    <3>1. CASE HoldsLease(w, job[w])
      <4>1. /\ status' = [status EXCEPT ![job[w]] = "running"]
            /\ UNCHANGED <<attempts, owner, held, todo>>
        BY <2>6, <3>1 DEF MarkRunning, session
      <4>2. job[w] \in Jobs /\ \A v \in Workers : job[w] \notin held[v]
        BY <2>6, <3>1, AtJobUnheld DEF MarkRunning
      <4>3. owner[job[w]] # None
        BY <3>1, WorkloadAssumption DEF HoldsLease
      <4> QED
        BY <4>1, <4>2, <4>3, <1>0, QueueRow DEF TypeOK, RowTypes, Active
    <3>2. CASE ~HoldsLease(w, job[w])
      BY <2>6, <3>2, <1>0, <1>a, EndCallLocks, QueueFrame DEF MarkRunning
    <3> QED
      BY <3>1, <3>2
  <2>7. ASSUME AtJob(w, "run"), NEW s, s \notin Active, Report(w, s),
               s = "queued" /\ job[w] \in Jobs => attempts[job[w]] < MaxAttempts
        PROVE  QueueConsistent'
    <3>1. EndCall(w) /\ attempts' = attempts
      BY <2>7 DEF Report
    <3>2. CASE HoldsLease(w, job[w])
      <4>1. /\ status' = [status EXCEPT ![job[w]] = s]
            /\ owner'  = [owner EXCEPT ![job[w]] = None]
        BY <2>7, <3>2 DEF Report
      <4>2. job[w] \in Jobs /\ \A v \in Workers : job[w] \notin held[v]
        BY <2>7, <3>2, AtJobUnheld
      <4>3. \A v \in Workers : held'[v] \subseteq held[v] /\ todo'[v] \subseteq held'[v]
        BY <3>1, <1>0, <1>a, EndCallLocks
      <4>4. \A k \in Jobs \ {job[w]} : status'[k] = status[k] /\ owner'[k] = owner[k]
        BY <4>1, <1>0 DEF TypeOK, RowTypes
      <4>5. status'[job[w]] = s /\ owner'[job[w]] = None
        BY <4>1, <4>2, <1>0 DEF TypeOK, RowTypes
      <4>6. \A v \in Workers : held'[v] \subseteq Jobs
        BY <4>3, <1>0 DEF TypeOK, WorkerTypes
      <4> QED
        BY <2>7, <3>1, <4>2, <4>3, <4>4, <4>5, <4>6, <1>0 DEF QueueConsistent
    <3>3. CASE ~HoldsLease(w, job[w])
      BY <2>7, <3>1, <3>3, <1>0, <1>a, EndCallLocks, QueueFrame DEF Report
    <3> QED
      BY <3>2, <3>3
  <2>8. CASE Succeed(w) \/ FailFinal(w)
    BY <2>7, <2>8 DEF Succeed, FailFinal, Active
  <2>9. CASE FailRetryable(w)
    <3>1. CASE Spent(job[w])
      BY <2>7, <2>9, <3>1 DEF FailRetryable, Active
    <3>2. CASE ~Spent(job[w])
      <4>1. ASSUME job[w] \in Jobs
            PROVE  attempts[job[w]] < MaxAttempts
        <5>1. attempts[job[w]] \in Nat /\ MaxAttempts \in Nat
          BY <4>1, <1>0, WorkloadAssumption DEF TypeOK, RowTypes
        <5>2. ~(attempts[job[w]] >= MaxAttempts)
          BY <3>2 DEF Spent
        <5> QED
          BY <5>1, <5>2
      <4> QED
        BY <2>7, <2>9, <3>2, <4>1 DEF FailRetryable, Active
    <3> QED
      BY <3>1, <3>2
  <2> QED
    BY <1>4, <2>1, <2>2, <2>3, <2>4, <2>5, <2>6, <2>8, <2>9 DEF WorkerStep
<1>5. ASSUME NEW w \in Workers, Heartbeat(w) \/ Crash(w)
      PROVE  QueueConsistent'
  BY <1>5, <1>0, <1>a, EndCallLocks, QueueFrame DEF Heartbeat, Crash, rows, workerVars
<1>6. ASSUME NEW c \in Cancellers, NEW j \in Jobs, CancelRead(c, j)
      PROVE  QueueConsistent'
  BY <1>6, <1>0 DEF CancelRead, rows, workerVars, QueueConsistent
<1>7. ASSUME NEW c \in Cancellers, CancelCommit(c)
      PROVE  QueueConsistent'
  <2> DEFINE j == cancelling[c].job
  <2>1. j \in Jobs
    BY <1>7, <1>0 DEF CancelCommit, TypeOK, OtherTypes, Requests
  <2>2. /\ \A w \in Workers : j \notin held[w]
        /\ status' = [status EXCEPT ![j] = "cancelled"]
        /\ owner' = [owner EXCEPT ![j] = None] \/ owner' = owner
        /\ UNCHANGED <<attempts, held, todo>>
    BY <1>7 DEF CancelCommit, Unlocked, workerVars
  <2> HIDE DEF j
  <2> QED
    BY <2>1, <2>2, <1>0, QueueRow DEF TypeOK, RowTypes, Active
<1>8. CASE Tick
  BY <1>8, <1>a, QueueFrame DEF Tick, session
<1> QED
  BY <1>1, <1>2, <1>3, <1>4, <1>5, <1>6, <1>7, <1>8, NextCases

----------------------------------------------------------------------------
(* The attempt bound and the fencing of workers.                            *)

(* Attempts and executions move in two places only; of any other step it is *)
(* enough to know which rows become active or dead-lettered.                *)
LEMMA AttemptsFrame ==
  ASSUME IInv, UNCHANGED <<attempts, executions>>,
         \A j \in Jobs : status'[j] = "dead_lettered" =>
           status[j] = "dead_lettered" \/ attempts[j] >= MaxAttempts,
         \A j \in Jobs : status'[j] \in Active => status[j] \in Active
  PROVE  AttemptsBounded'
<1> SUFFICES ASSUME NEW j \in Jobs
             PROVE  /\ executions[j] <= attempts[j]
                    /\ attempts[j] <= MaxAttempts
                    /\ status'[j] \in Active => attempts[j] > 0
                    /\ status'[j] = "dead_lettered" => attempts[j] = MaxAttempts
  BY DEF AttemptsBounded
<1>1. /\ executions[j] <= attempts[j] /\ attempts[j] <= MaxAttempts
      /\ status[j] \in Active => attempts[j] > 0
      /\ status[j] = "dead_lettered" => attempts[j] = MaxAttempts
  BY DEF IInv, AttemptsBounded
<1>2. attempts[j] \in Nat /\ MaxAttempts \in Nat
  BY WorkloadAssumption DEF IInv, TypeOK, RowTypes
<1> QED
  BY <1>1, <1>2

LEMMA AttemptsStep ==
  ASSUME IInv, [Next]_vars
  PROVE  AttemptsBounded'
<1>0. TypeOK /\ AttemptsBounded
  BY DEF IInv
<1>1. CASE UNCHANGED vars
  BY <1>1, AttemptsFrame DEF vars, rows
<1>2. ASSUME NEW p \in Producers, NEW j \in Jobs, EnqueueRead(p, j)
      PROVE  AttemptsBounded'
  BY <1>2, AttemptsFrame DEF EnqueueRead, rows
<1>3. ASSUME NEW p \in Producers, EnqueueInsert(p)
      PROVE  AttemptsBounded'
  <2> DEFINE j == inserting[p]
  <2>1. j \in Jobs /\ executions' = executions
    BY <1>3, <1>0 DEF EnqueueInsert, TypeOK, OtherTypes
  <2>2. CASE status[j] # "absent"
    BY <1>3, <2>1, <2>2, AttemptsFrame DEF EnqueueInsert, InsertRow, rows
  <2>3. CASE status[j] = "absent"
    <3>1. /\ status' = [status EXCEPT ![j] = "queued"]
          /\ attempts' = [attempts EXCEPT ![j] = 0]
      BY <1>3, <2>3 DEF EnqueueInsert, InsertRow
    <3>2. attempts[j] = 0
      BY <2>1, <2>3 DEF IInv, RowsClean
    <3>3. attempts' = attempts
      BY <3>1, <3>2, <2>1, <1>0 DEF TypeOK, RowTypes
    <3> HIDE DEF j
    <3> QED
      BY <2>1, <3>1, <3>3, <1>0, AttemptsFrame DEF TypeOK, RowTypes, Active
  <2> QED
    BY <2>2, <2>3
<1>4. ASSUME NEW w \in Workers, WorkerStep(w)
      PROVE  AttemptsBounded'
  <2>1. CASE StartCall(w) \/ SelectCandidates(w) \/ CountActive(w)
    BY <2>1, AttemptsFrame DEF StartCall, SelectCandidates, CountActive, rows
  <2>2. CASE Recover(w)
    <3>1. \A j \in Jobs : status'[j] = "dead_lettered" =>
            status[j] = "dead_lettered" \/ Spent(j)
      BY <2>2 DEF Recover
    <3>3. \A j \in Jobs : status'[j] \in Active => status[j] \in Active
      BY <2>2 DEF Recover, Active
    <3>2. UNCHANGED <<attempts, executions>>
      BY <2>2 DEF Recover
    <3> QED
      BY <3>1, <3>2, <3>3, AttemptsFrame DEF Spent
  <2>3. CASE Claim(w)
    <3>1. PICK j \in todo[w] :
            /\ status'   = [status EXCEPT ![j] = "leased"]
            /\ attempts' = [attempts EXCEPT ![j] = @ + 1]
      BY <2>3 DEF Claim
    <3>2. executions' = executions
      BY <2>3 DEF Claim
    <3>3. j \in Jobs /\ attempts[j] < MaxAttempts
      BY ClaimsQueuedRow
    <3> QED
      BY <3>1, <3>2, <3>3, <1>0, WorkloadAssumption DEF TypeOK, RowTypes, OtherTypes, AttemptsBounded
  <2>4. CASE MarkRunning(w)
    <3>1. CASE HoldsLease(w, job[w])
      <4>1. /\ status' = [status EXCEPT ![job[w]] = "running"]
            /\ executions' = [executions EXCEPT ![job[w]] = @ + 1]
            /\ attempts' = attempts
        BY <2>4, <3>1 DEF MarkRunning
      <4>2. job[w] \in Jobs /\ executions[job[w]] < attempts[job[w]]
        BY <2>4, <3>1 DEF MarkRunning, AtJob, HoldsLease, IInv, WorkersFenced, Fenced, OwnsRow
      <4> QED
        BY <4>1, <4>2, <1>0 DEF TypeOK, RowTypes, OtherTypes, AttemptsBounded
    <3>2. CASE ~HoldsLease(w, job[w])
      BY <2>4, <3>2, AttemptsFrame DEF MarkRunning
    <3> QED
      BY <3>1, <3>2
  <2>5. ASSUME NEW s, s \notin Active, Report(w, s),
               s = "dead_lettered" => attempts[job[w]] >= MaxAttempts
        PROVE  AttemptsBounded'
    <3>1. UNCHANGED <<attempts, executions>>
      BY <2>5 DEF Report
    <3>2. status' = [status EXCEPT ![job[w]] = s] \/ status' = status
      BY <2>5 DEF Report
    <3> QED
      BY <2>5, <3>1, <3>2, <1>0, AttemptsFrame DEF TypeOK, RowTypes
  <2>6. CASE Succeed(w) \/ FailFinal(w)
    BY <2>5, <2>6 DEF Succeed, FailFinal, Active
  <2>7. CASE FailRetryable(w)
    <3>1. CASE Spent(job[w])
      BY <2>5, <2>7, <3>1 DEF FailRetryable, Spent, Active
    <3>2. CASE ~Spent(job[w])
      BY <2>5, <2>7, <3>2 DEF FailRetryable, Active
    <3> QED
      BY <3>1, <3>2
  <2> QED
    BY <1>4, <2>1, <2>2, <2>3, <2>4, <2>6, <2>7 DEF WorkerStep
<1>5. ASSUME NEW w \in Workers, Heartbeat(w) \/ Crash(w)
      PROVE  AttemptsBounded'
  BY <1>5, AttemptsFrame DEF Heartbeat, Crash, rows
<1>6. ASSUME NEW c \in Cancellers, NEW j \in Jobs, CancelRead(c, j)
      PROVE  AttemptsBounded'
  BY <1>6, AttemptsFrame DEF CancelRead, rows
<1>7. ASSUME NEW c \in Cancellers, CancelCommit(c)
      PROVE  AttemptsBounded'
  <2>1. /\ status' = [status EXCEPT ![cancelling[c].job] = "cancelled"]
        /\ UNCHANGED <<attempts, executions>>
    BY <1>7 DEF CancelCommit
  <2> QED
    BY <2>1, <1>0, AttemptsFrame DEF TypeOK, RowTypes, Active
<1>8. CASE Tick
  BY <1>8, AttemptsFrame DEF Tick
<1> QED
  BY <1>1, <1>2, <1>3, <1>4, <1>5, <1>6, <1>7, <1>8, NextCases

LEMMA CleanFrame ==
  ASSUME IInv,
         \A j \in Jobs : status'[j] = "absent" =>
           /\ status[j] = "absent"
           /\ attempts'[j] = attempts[j] /\ executions'[j] = executions[j]
           /\ owner'[j] = owner[j]
  PROVE  RowsClean'
BY DEF IInv, RowsClean

LEMMA CleanStep ==
  ASSUME IInv, [Next]_vars
  PROVE  RowsClean'
<1>0. TypeOK
  BY DEF IInv
<1>1. CASE UNCHANGED vars
  BY <1>1, CleanFrame DEF vars, rows
<1>2. ASSUME NEW p \in Producers, NEW j \in Jobs, EnqueueRead(p, j)
      PROVE  RowsClean'
  BY <1>2, CleanFrame DEF EnqueueRead, rows
<1>3. ASSUME NEW p \in Producers, EnqueueInsert(p)
      PROVE  RowsClean'
  BY <1>3, <1>0, CleanFrame DEF EnqueueInsert, InsertRow, rows, TypeOK, RowTypes
<1>4. ASSUME NEW w \in Workers, WorkerStep(w)
      PROVE  RowsClean'
  <2>1. CASE StartCall(w) \/ SelectCandidates(w) \/ CountActive(w)
    BY <2>1, CleanFrame DEF StartCall, SelectCandidates, CountActive, rows
  <2>2. CASE Recover(w)
    <3>1. \A j \in Jobs : status'[j] = "absent" => status[j] = "absent"
      BY <2>2 DEF Recover
    <3>2. \A j \in Jobs : status[j] = "absent" => owner'[j] = owner[j]
      BY <2>2 DEF Recover, LeaseLapsed, Active
    <3>3. UNCHANGED <<attempts, executions>>
      BY <2>2 DEF Recover
    <3> QED
      BY <3>1, <3>2, <3>3, CleanFrame
  <2>3. CASE Claim(w)
    <3>1. PICK j \in todo[w] :
            /\ status'   = [status EXCEPT ![j] = "leased"]
            /\ owner'    = [owner EXCEPT ![j] = w]
            /\ attempts' = [attempts EXCEPT ![j] = @ + 1]
      BY <2>3 DEF Claim
    <3>2. executions' = executions /\ j \in Jobs
      BY <2>3, ClaimsQueuedRow DEF Claim
    <3> QED
      BY <3>1, <3>2, <1>0, CleanFrame DEF TypeOK, RowTypes
  <2>4. CASE MarkRunning(w)
    <3>1. CASE HoldsLease(w, job[w])
      <4>1. /\ status' = [status EXCEPT ![job[w]] = "running"]
            /\ executions' = [executions EXCEPT ![job[w]] = @ + 1]
            /\ UNCHANGED <<attempts, owner>>
        BY <2>4, <3>1 DEF MarkRunning
      <4> QED
        BY <4>1, <1>0, CleanFrame DEF TypeOK, RowTypes
    <3>2. CASE ~HoldsLease(w, job[w])
      BY <2>4, <3>2, CleanFrame DEF MarkRunning
    <3> QED
      BY <3>1, <3>2
  <2>5. ASSUME NEW s, s # "absent", Report(w, s)
        PROVE  RowsClean'
    BY <2>5, <1>0, CleanFrame DEF Report, TypeOK, RowTypes
  <2>6. CASE Succeed(w) \/ FailFinal(w) \/ FailRetryable(w)
    BY <2>5, <2>6 DEF Succeed, FailFinal, FailRetryable
  <2> QED
    BY <1>4, <2>1, <2>2, <2>3, <2>4, <2>6 DEF WorkerStep
<1>5. ASSUME NEW w \in Workers, Heartbeat(w) \/ Crash(w)
      PROVE  RowsClean'
  BY <1>5, CleanFrame DEF Heartbeat, Crash, rows
<1>6. ASSUME NEW c \in Cancellers, NEW j \in Jobs, CancelRead(c, j)
      PROVE  RowsClean'
  BY <1>6, CleanFrame DEF CancelRead, rows
<1>7. ASSUME NEW c \in Cancellers, CancelCommit(c)
      PROVE  RowsClean'
  <2>1. /\ status' = [status EXCEPT ![cancelling[c].job] = "cancelled"]
        /\ owner' = [owner EXCEPT ![cancelling[c].job] = None] \/ owner' = owner
        /\ UNCHANGED <<attempts, executions>>
    BY <1>7 DEF CancelCommit
  <2> QED
    BY <2>1, <1>0, CleanFrame DEF TypeOK, RowTypes
<1>8. CASE Tick
  BY <1>8, CleanFrame DEF Tick
<1> QED
  BY <1>1, <1>2, <1>3, <1>4, <1>5, <1>6, <1>7, <1>8, NextCases

(* A step that neither takes worker v to a new job nor gives v a row it did *)
(* not own keeps v fenced.                                                  *)
LEMMA FencedFrame ==
  ASSUME IInv, NEW v \in Workers,
         pc'[v] \in {"mark", "run"} =>
           pc'[v] = pc[v] /\ job'[v] = job[v] /\ lease'[v] = lease[v],
         \A j \in Jobs : OwnsRow(v, j)' =>
           /\ OwnsRow(v, j)
           /\ attempts'[j] = attempts[j] /\ executions'[j] = executions[j]
  PROVE  Fenced(v)'
BY DEF IInv, WorkersFenced, Fenced

LEMMA EndCallFenced ==
  ASSUME TypeOK, NEW w \in Workers, EndCall(w), NEW v \in Workers
  PROVE  pc'[v] \in {"mark", "run"} =>
           pc'[v] = pc[v] /\ job'[v] = job[v] /\ lease'[v] = lease[v]
BY DEF TypeOK, WorkerTypes, EndCall

LEMMA FencedStep ==
  ASSUME IInv, [Next]_vars
  PROVE  WorkersFenced'
<1> SUFFICES ASSUME NEW v \in Workers
             PROVE  Fenced(v)'
  BY DEF WorkersFenced
<1>0. TypeOK
  BY DEF IInv
<1>1. CASE UNCHANGED vars
  BY <1>1, FencedFrame DEF vars, rows, workerVars, OwnsRow
<1>2. ASSUME NEW p \in Producers, NEW j \in Jobs, EnqueueRead(p, j)
      PROVE  Fenced(v)'
  BY <1>2, FencedFrame DEF EnqueueRead, rows, workerVars, OwnsRow
<1>3. ASSUME NEW p \in Producers, EnqueueInsert(p)
      PROVE  Fenced(v)'
  BY <1>3, <1>0, FencedFrame
     DEF EnqueueInsert, InsertRow, rows, workerVars, OwnsRow, TypeOK, RowTypes, Active
<1>4. ASSUME NEW w \in Workers, WorkerStep(w)
      PROVE  Fenced(v)'
  <2>1. CASE StartCall(w)
    BY <2>1, <1>0, FencedFrame DEF StartCall, Goto, rows, OwnsRow, TypeOK, RowTypes
  <2>2. CASE Recover(w)
    <3>1. \A j \in Jobs : status'[j] \in Active => status'[j] = status[j] /\ owner'[j] = owner[j]
      BY <2>2 DEF Recover, Active
    <3>2. UNCHANGED <<attempts, executions, job, lease>> /\ pc' = [pc EXCEPT ![w] = "select"]
      BY <2>2 DEF Recover, Goto
    <3> QED
      BY <3>1, <3>2, <1>0, FencedFrame DEF OwnsRow, TypeOK, RowTypes
  <2>3. CASE SelectCandidates(w)
    <3>1. EndCall(w) \/ (pc' = [pc EXCEPT ![w] = "count"] /\ UNCHANGED <<job, lease>>)
      BY <2>3 DEF SelectCandidates, Goto
    <3> QED
      BY <2>3, <3>1, <1>0, EndCallFenced, FencedFrame DEF SelectCandidates, rows, OwnsRow, TypeOK, WorkerTypes
  <2>4. CASE CountActive(w)
    <3>1. \/ EndCall(w)
          \/ pc' = [pc EXCEPT ![w] = "claim"] /\ UNCHANGED <<job, lease>>
          \/ UNCHANGED <<pc, job, lease>>
      BY <2>4 DEF CountActive, Goto
    <3> QED
      BY <2>4, <3>1, <1>0, EndCallFenced, FencedFrame DEF CountActive, rows, OwnsRow, TypeOK, WorkerTypes
  <2>5. CASE Claim(w)
    <3>1. PICK j \in todo[w] :
            /\ status'   = [status EXCEPT ![j] = "leased"]
            /\ owner'    = [owner EXCEPT ![j] = w]
            /\ attempts' = [attempts EXCEPT ![j] = @ + 1]
            /\ job'      = [job EXCEPT ![w] = j]
            /\ lease'    = [lease EXCEPT ![w] = attempts[j] + 1]
      BY <2>5 DEF Claim
    <3>2. executions' = executions /\ pc' = [pc EXCEPT ![w] = "mark"]
      BY <2>5 DEF Claim, Goto
    <3>3. j \in Jobs
      BY ClaimsQueuedRow
    <3>4. CASE v = w
      BY <3>1, <3>2, <3>3, <3>4, <1>0 DEF TypeOK, RowTypes, WorkerTypes, OtherTypes, Fenced, IInv, AttemptsBounded
    <3>5. CASE v # w
      BY <3>1, <3>2, <3>3, <3>5, <1>0, FencedFrame DEF OwnsRow, TypeOK, RowTypes
    <3> QED
      BY <3>4, <3>5
  <2>6. CASE MarkRunning(w)
    <3>1. CASE HoldsLease(w, job[w])
      <4>1. /\ status' = [status EXCEPT ![job[w]] = "running"]
            /\ executions' = [executions EXCEPT ![job[w]] = @ + 1]
            /\ pc' = [pc EXCEPT ![w] = "run"]
            /\ UNCHANGED <<attempts, owner, job, lease>>
        BY <2>6, <3>1 DEF MarkRunning, Goto
      <4>2. job[w] \in Jobs /\ pc[w] = "mark" /\ owner[job[w]] = w /\ status[job[w]] \in Active
        BY <2>6, <3>1 DEF MarkRunning, AtJob, HoldsLease, IInv, WorkersFenced, Fenced
      <4>3. CASE v = w
        BY <4>1, <4>2, <4>3, <1>0 DEF TypeOK, WorkerTypes, IInv, WorkersFenced, Fenced, OwnsRow
      <4>4. CASE v # w
        BY <4>1, <4>2, <4>4, <1>0, FencedFrame DEF TypeOK, RowTypes, OwnsRow
      <4> QED
        BY <4>3, <4>4
    <3>2. CASE ~HoldsLease(w, job[w])
      BY <2>6, <3>2, <1>0, EndCallFenced, FencedFrame DEF MarkRunning, OwnsRow
    <3> QED
      BY <3>1, <3>2
  <2>7. ASSUME NEW s, s \notin Active, Report(w, s)
        PROVE  Fenced(v)'
    <3>1. EndCall(w) /\ UNCHANGED <<attempts, executions>>
      BY <2>7 DEF Report
    <3>2. \A j \in Jobs : OwnsRow(v, j)' => OwnsRow(v, j)
      BY <2>7, <1>0 DEF Report, OwnsRow, TypeOK, RowTypes
    <3> QED
      BY <3>1, <3>2, <1>0, EndCallFenced, FencedFrame
  <2>8. CASE Succeed(w) \/ FailFinal(w) \/ FailRetryable(w)
    BY <2>7, <2>8 DEF Succeed, FailFinal, FailRetryable, Active
  <2> QED
    BY <1>4, <2>1, <2>2, <2>3, <2>4, <2>5, <2>6, <2>8 DEF WorkerStep
<1>5. ASSUME NEW w \in Workers, Heartbeat(w) \/ Crash(w)
      PROVE  Fenced(v)'
  BY <1>5, <1>0, EndCallFenced, FencedFrame DEF Heartbeat, Crash, rows, workerVars, OwnsRow
<1>6. ASSUME NEW c \in Cancellers, NEW j \in Jobs, CancelRead(c, j)
      PROVE  Fenced(v)'
  BY <1>6, FencedFrame DEF CancelRead, rows, workerVars, OwnsRow
<1>7. ASSUME NEW c \in Cancellers, CancelCommit(c)
      PROVE  Fenced(v)'
  <2>1. /\ status' = [status EXCEPT ![cancelling[c].job] = "cancelled"]
        /\ owner' = [owner EXCEPT ![cancelling[c].job] = None] \/ owner' = owner
        /\ UNCHANGED <<attempts, executions, pc, job, lease>>
    BY <1>7 DEF CancelCommit, workerVars
  <2>2. \A j \in Jobs : OwnsRow(v, j)' => OwnsRow(v, j)
    BY <2>1, <1>0, WorkloadAssumption DEF OwnsRow, TypeOK, RowTypes, Active
  <2> QED
    BY <2>1, <2>2, FencedFrame
<1>8. CASE Tick
  BY <1>8, FencedFrame DEF Tick, OwnsRow
<1> QED
  BY <1>1, <1>2, <1>3, <1>4, <1>5, <1>6, <1>7, <1>8, NextCases

----------------------------------------------------------------------------
LEMMA InitIInv ==
  ASSUME Init
  PROVE  IInv
BY WorkloadAssumption
   DEF Init, IInv, TypeOK, RowTypes, WorkerTypes, OtherTypes, Statuses, WorkerPCs, QueueConsistent, Active, AttemptsBounded,
       RowsClean, WorkersFenced, Fenced

(* The inductive invariant of the queue (services/workloads.py with the     *)
(* loop of workers/registry.py and the cancel route).                       *)
THEOREM Invariance == Spec => []IInv
<1>1. Init => IInv
  BY InitIInv
<1>2. IInv /\ [Next]_vars => IInv'
  <2> SUFFICES ASSUME IInv, [Next]_vars
               PROVE  IInv'
    OBVIOUS
  <2>1. TypeOK'
    BY TypeStep DEF IInv
  <2> QED
    BY <2>1, QueueStep, AttemptsStep, CleanStep, FencedStep DEF IInv
<1> QED
  BY <1>1, <1>2, PTL DEF Spec

(* Rows, locks and process-local state keep their types.                    *)
THEOREM TypeCorrect == Spec => []TypeOK
BY Invariance, PTL DEF IInv

(* Candidates stay claimable while locked; queued rows have no lease and    *)
(* attempts left; active rows can be found by recovery.                     *)
THEOREM QueueSafe == Spec => []QueueConsistent
BY Invariance, PTL DEF IInv

(* No job's handler is started more than max_attempts times, and only spent *)
(* jobs are dead-lettered.                                                  *)
THEOREM AttemptsSafe == Spec => []AttemptsBounded
BY Invariance, PTL DEF IInv

(* A worker that passes _lock_current_lease reports on the latest attempt.  *)
THEOREM FencingSafe == Spec => []LatestAttemptHoldsLease
<1>1. IInv => LatestAttemptHoldsLease
  BY DEF IInv, WorkersFenced, Fenced, OwnsRow, LatestAttemptHoldsLease, HoldsLease
<1> QED
  BY <1>1, Invariance, PTL

----------------------------------------------------------------------------
(* Outcomes and the refinement.                                             *)

(* What a step may do to the status of one row.                             *)
LEMMA StatusStep ==
  ASSUME IInv, [Next]_vars, NEW j \in Jobs, status[j] \in Terminal
  PROVE  status'[j] \in {status[j], "cancelled"}
<1>0. TypeOK /\ status[j] \notin Active \union {"absent", "queued"}
  BY DEF IInv, Active, Terminal
<1>1. CASE UNCHANGED vars
  BY <1>1 DEF vars, rows
<1>2. ASSUME NEW p \in Producers, NEW k \in Jobs, EnqueueRead(p, k)
      PROVE  status'[j] = status[j]
  BY <1>2 DEF EnqueueRead, rows
<1>3. ASSUME NEW p \in Producers, EnqueueInsert(p)
      PROVE  status'[j] = status[j]
  BY <1>3, <1>0 DEF EnqueueInsert, InsertRow, rows, TypeOK, RowTypes
<1>4. ASSUME NEW w \in Workers, WorkerStep(w)
      PROVE  status'[j] = status[j]
  <2>1. CASE StartCall(w) \/ SelectCandidates(w) \/ CountActive(w)
    BY <2>1 DEF StartCall, SelectCandidates, CountActive, rows
  <2>2. CASE Recover(w)
    BY <2>2, <1>0 DEF Recover, LeaseLapsed
  <2>3. CASE Claim(w)
    <3>1. PICK k \in todo[w] : status' = [status EXCEPT ![k] = "leased"]
      BY <2>3 DEF Claim
    <3> QED
      BY <3>1, <1>0, ClaimsQueuedRow DEF TypeOK, RowTypes
  <2>4. CASE MarkRunning(w)
    BY <2>4, <1>0 DEF MarkRunning, HoldsLease, TypeOK, RowTypes
  <2>5. CASE Succeed(w) \/ FailFinal(w) \/ FailRetryable(w)
    BY <2>5, <1>0 DEF Succeed, FailFinal, FailRetryable, Report, HoldsLease, TypeOK, RowTypes
  <2> QED
    BY <1>4, <2>1, <2>2, <2>3, <2>4, <2>5 DEF WorkerStep
<1>5. ASSUME NEW w \in Workers, Heartbeat(w) \/ Crash(w)
      PROVE  status'[j] = status[j]
  BY <1>5 DEF Heartbeat, Crash, rows
<1>6. ASSUME NEW c \in Cancellers, NEW k \in Jobs, CancelRead(c, k)
      PROVE  status'[j] = status[j]
  BY <1>6 DEF CancelRead, rows
<1>7. ASSUME NEW c \in Cancellers, CancelCommit(c)
      PROVE  status'[j] \in {status[j], "cancelled"}
  BY <1>7, <1>0 DEF CancelCommit, TypeOK, RowTypes
<1>8. CASE Tick
  BY <1>8 DEF Tick
<1> QED
  BY <1>1, <1>2, <1>3, <1>4, <1>5, <1>6, <1>7, <1>8, NextCases

(* A recorded outcome is replaced by nothing but the cancel route.          *)
THEOREM OutcomesSafe == Spec => OutcomesKept
<1>1. IInv /\ [Next]_vars =>
        [\A j \in Jobs : status[j] \in Terminal =>
           status'[j] \in {status[j], "cancelled"}]_vars
  BY StatusStep
<1> QED
  BY <1>1, Invariance, PTL DEF Spec, OutcomesKept

LEMMA CandidatesStep ==
  ASSUME IInv, CandidatesInScope, [Next]_vars
  PROVE  CandidatesInScope'
<1>0. TypeOK
  BY DEF IInv
<1>1. ASSUME \A w \in Workers : held'[w] \subseteq held[w]
      PROVE  CandidatesInScope'
  BY <1>1 DEF CandidatesInScope, InScope
<1>2. ASSUME NEW w \in Workers, WorkerStep(w)
      PROVE  CandidatesInScope'
  <2>1. CASE SelectCandidates(w)
    <3>1. \/ EndCall(w)
          \/ held' = [held EXCEPT ![w] = Batch(w)]
      BY <2>1 DEF SelectCandidates
    <3>2. CASE EndCall(w)
      BY <3>2, <1>0, <1>1, EndCallLocks
    <3>3. CASE held' = [held EXCEPT ![w] = Batch(w)]
      BY <3>3, <1>0, BatchEligible
         DEF CandidatesInScope, InScope, Eligible, TypeOK, WorkerTypes
    <3> QED
      BY <3>1, <3>2, <3>3
  <2>2. CASE EndCall(w) \/ held' = held \/ held' = [held EXCEPT ![w] = {}]
    BY <2>2, <1>0, <1>1, EndCallLocks DEF TypeOK, WorkerTypes
  <2> QED
    BY <1>2, <2>1, <2>2
       DEF WorkerStep, StartCall, Recover, CountActive, Claim, MarkRunning, Succeed,
           FailFinal, FailRetryable, Report, session
<1>3. ASSUME NEW w \in Workers, Heartbeat(w) \/ Crash(w)
      PROVE  CandidatesInScope'
  BY <1>0, <1>1, <1>3, EndCallLocks DEF Heartbeat, Crash, workerVars
<1>4. CASE held' = held
  BY <1>1, <1>4
<1> QED
  BY <1>2, <1>3, <1>4, NextCases
     DEF vars, workerVars, session, EnqueueRead, EnqueueInsert, CancelRead, CancelCommit, Tick

LEMMA ScopeStep ==
  ASSUME IInv, CandidatesInScope, ScopeRespected, [Next]_vars
  PROVE  ScopeRespected'
<1> SUFFICES ASSUME NEW j \in Jobs, ~InScope(j)
             PROVE  attempts'[j] = 0 /\ status'[j] \in {"absent", "queued", "cancelled"}
  BY DEF ScopeRespected, InScope
<1>0. /\ TypeOK
      /\ attempts[j] = 0 /\ status[j] \in {"absent", "queued", "cancelled"}
      /\ status[j] \notin Active
  BY DEF IInv, ScopeRespected, Active
<1>1. CASE UNCHANGED <<status, attempts>>
  BY <1>0, <1>1
<1>2. ASSUME NEW p \in Producers, EnqueueInsert(p)
      PROVE  attempts'[j] = 0 /\ status'[j] \in {"absent", "queued", "cancelled"}
  BY <1>0, <1>2 DEF EnqueueInsert, InsertRow, rows, TypeOK, RowTypes
<1>3. ASSUME NEW w \in Workers, WorkerStep(w)
      PROVE  UNCHANGED <<status, attempts>> \/ (attempts'[j] = attempts[j] /\ status'[j] = status[j])
  <2>1. CASE StartCall(w) \/ SelectCandidates(w) \/ CountActive(w)
    BY <2>1 DEF StartCall, SelectCandidates, CountActive, rows
  <2>2. CASE Recover(w)
    BY <2>2, <1>0 DEF Recover, LeaseLapsed
  <2>3. CASE Claim(w)
    <3>1. PICK k \in todo[w] :
            /\ status'   = [status EXCEPT ![k] = "leased"]
            /\ attempts' = [attempts EXCEPT ![k] = @ + 1]
      BY <2>3 DEF Claim
    <3>2. k # j
      BY DEF IInv, QueueConsistent, CandidatesInScope
    <3> QED
      BY <3>1, <3>2, <1>0 DEF TypeOK, RowTypes
  <2>4. CASE MarkRunning(w)
    BY <2>4, <1>0 DEF MarkRunning, HoldsLease, TypeOK, RowTypes
  <2>5. CASE Succeed(w) \/ FailFinal(w) \/ FailRetryable(w)
    BY <2>5, <1>0 DEF Succeed, FailFinal, FailRetryable, Report, HoldsLease, TypeOK, RowTypes
  <2> QED
    BY <1>3, <2>1, <2>2, <2>3, <2>4, <2>5 DEF WorkerStep
<1>4. ASSUME NEW c \in Cancellers, CancelCommit(c)
      PROVE  attempts'[j] = 0 /\ status'[j] \in {"absent", "queued", "cancelled"}
  BY <1>0, <1>4 DEF CancelCommit, TypeOK, RowTypes
<1> QED
  BY <1>0, <1>1, <1>2, <1>3, <1>4, NextCases
     DEF vars, rows, EnqueueRead, Heartbeat, Crash, CancelRead, Tick

(* The rollout allow-list: a job of a tenant outside it is never tried.     *)
THEOREM ScopeSafe == Spec => []ScopeRespected
<1>1. Init => CandidatesInScope /\ ScopeRespected
  BY DEF Init, CandidatesInScope, ScopeRespected
<1>2. IInv /\ CandidatesInScope /\ ScopeRespected /\ [Next]_vars
        => (CandidatesInScope /\ ScopeRespected)'
  BY CandidatesStep, ScopeStep
<1> QED
  BY <1>1, <1>2, Invariance, PTL DEF Spec

LEMMA DeliveryInit ==
  ASSUME Init
  PROVE  Delivery!Init
BY DEF Init, Delivery!Init, DeliveryOutcome, DeliveryAccepted, Terminal

(* A step that leaves attempts, requests and every row's image alone.       *)
LEMMA Stutters ==
  ASSUME UNCHANGED <<attempts, cancelling>>,
         \A j \in Jobs : DeliveryOutcome'[j] = DeliveryOutcome[j]
  PROVE  UNCHANGED Delivery!vars
BY DEF Delivery!vars, DeliveryOutcome, DeliveryAccepted

(* A step that changes the status of one row maps to one that changes the   *)
(* outcome of one job.                                                      *)
LEMMA OneOutcome ==
  ASSUME TypeOK, NEW j \in Jobs, NEW s \in Statuses, status' = [status EXCEPT ![j] = s],
         UNCHANGED <<attempts, cancelling>>
  PROVE  /\ UNCHANGED <<attempts, DeliveryAccepted>>
         /\ DeliveryOutcome' = [DeliveryOutcome EXCEPT ![j] =
                                  IF s = "absent" THEN "unknown"
                                  ELSE IF s \in Terminal THEN s ELSE "pending"]
BY DEF TypeOK, RowTypes, DeliveryOutcome, DeliveryAccepted

LEMMA DeliveryStep ==
  ASSUME IInv, [Next]_vars
  PROVE  [Delivery!Next]_(Delivery!vars)
<1>0. TypeOK /\ AttemptsBounded
  BY DEF IInv
<1>a. ASSUME UNCHANGED <<status, attempts, cancelling>>
      PROVE  UNCHANGED Delivery!vars
  BY <1>a, Stutters DEF DeliveryOutcome
<1>1. CASE UNCHANGED vars
  BY <1>1, <1>a DEF vars, rows
<1>2. ASSUME NEW p \in Producers, NEW j \in Jobs, EnqueueRead(p, j)
      PROVE  UNCHANGED Delivery!vars
  BY <1>2, <1>a DEF EnqueueRead, rows
<1>3. ASSUME NEW p \in Producers, EnqueueInsert(p)
      PROVE  [Delivery!Next]_(Delivery!vars)
  <2> DEFINE j == inserting[p]
  <2>1. j \in Jobs /\ cancelling' = cancelling
    BY <1>3, <1>0 DEF EnqueueInsert, TypeOK, OtherTypes
  <2>2. CASE status[j] # "absent"
    BY <1>3, <2>1, <2>2, <1>a DEF EnqueueInsert, InsertRow, rows
  <2>3. CASE status[j] = "absent"
    <3>1. /\ status' = [status EXCEPT ![j] = "queued"]
          /\ attempts' = [attempts EXCEPT ![j] = 0]
      BY <1>3, <2>3 DEF EnqueueInsert, InsertRow
    <3>2. attempts' = attempts
      BY <3>1, <2>1, <2>3, <1>0 DEF TypeOK, RowTypes, IInv, RowsClean
    <3>3. DeliveryOutcome' = [DeliveryOutcome EXCEPT ![j] = "pending"]
      BY <3>1, <3>2, <2>1, <1>0, OneOutcome DEF Statuses, Terminal
    <3>4. DeliveryOutcome[j] = "unknown"
      BY <2>1, <2>3 DEF DeliveryOutcome
    <3>5. DeliveryAccepted' = DeliveryAccepted
      BY <2>1 DEF DeliveryAccepted
    <3>6. Delivery!Submit(j)
      BY <3>2, <3>3, <3>4, <3>5 DEF Delivery!Submit
    <3> QED
      BY <2>1, <3>6 DEF Delivery!Next
  <2> QED
    BY <2>2, <2>3
<1>4. ASSUME NEW w \in Workers, WorkerStep(w)
      PROVE  [Delivery!Next]_(Delivery!vars)
  <2>1. CASE StartCall(w) \/ SelectCandidates(w) \/ CountActive(w)
    BY <2>1, <1>a DEF StartCall, SelectCandidates, CountActive, rows
  <2>2. CASE Recover(w)
    <3> DEFINE lapsed == {j \in Jobs : LeaseLapsed(j, age[w]) /\ UnlockedFor(w, j)}
               spent  == {j \in lapsed : Spent(j)}
    <3>1. \A j \in Jobs :
            status'[j] = IF j \in spent THEN "dead_lettered"
                         ELSE IF j \in lapsed THEN "queued" ELSE status[j]
      BY <2>2 DEF Recover
    <3>2. UNCHANGED <<attempts, cancelling>>
      BY <2>2 DEF Recover
    <3>3. \A j \in lapsed : j \in Jobs /\ status[j] \in Active
      BY DEF LeaseLapsed
    <3>4. \A j \in spent : j \in lapsed /\ attempts[j] = MaxAttempts
      <4>1. ASSUME NEW j \in spent
            PROVE  attempts[j] = MaxAttempts
        <5>1. j \in Jobs /\ attempts[j] >= MaxAttempts
          BY DEF Spent
        <5>2. attempts[j] \in Nat /\ attempts[j] <= MaxAttempts /\ MaxAttempts \in Nat
          BY <5>1, <1>0, WorkloadAssumption DEF TypeOK, RowTypes, AttemptsBounded
        <5> QED
          BY <5>1, <5>2
      <4> QED
        BY <4>1
    <3> HIDE DEF lapsed, spent
    <3>5. \A j \in spent : DeliveryOutcome[j] = "pending"
      BY <3>3, <3>4 DEF DeliveryOutcome, Active, Terminal
    <3>6. DeliveryOutcome' = [j \in Jobs |-> IF j \in spent THEN "dead_lettered"
                                             ELSE DeliveryOutcome[j]]
      <4>1. ASSUME NEW j \in Jobs
            PROVE  DeliveryOutcome'[j] = IF j \in spent THEN "dead_lettered"
                                         ELSE DeliveryOutcome[j]
        BY <3>1, <3>3, <3>4 DEF DeliveryOutcome, Active, Terminal
      <4> QED
        BY <4>1 DEF DeliveryOutcome
    <3>7. DeliveryAccepted' = DeliveryAccepted
      BY <3>2 DEF DeliveryAccepted
    <3>8. spent \in SUBSET {j \in Jobs : DeliveryOutcome[j] = "pending"
                                         /\ attempts[j] = MaxAttempts}
      BY <3>3, <3>4, <3>5
    <3>9. Delivery!GiveUp
      BY <3>2, <3>6, <3>7, <3>8 DEF Delivery!GiveUp
    <3> QED
      BY <3>9 DEF Delivery!Next
  <2>3. CASE Claim(w)
    <3>1. PICK j \in todo[w] :
            /\ status'   = [status EXCEPT ![j] = "leased"]
            /\ attempts' = [attempts EXCEPT ![j] = @ + 1]
      BY <2>3 DEF Claim
    <3>2. cancelling' = cancelling
      BY <2>3 DEF Claim
    <3>3. j \in Jobs /\ status[j] = "queued" /\ attempts[j] < MaxAttempts
      BY ClaimsQueuedRow
    <3>4. DeliveryOutcome[j] = "pending"
      BY <3>3 DEF DeliveryOutcome, Terminal
    <3>5. DeliveryOutcome' = DeliveryOutcome
      BY <3>1, <3>3, <1>0 DEF DeliveryOutcome, TypeOK, RowTypes, Terminal
    <3>6. DeliveryAccepted' = DeliveryAccepted
      BY <3>2 DEF DeliveryAccepted
    <3>7. Delivery!Try(j)
      BY <3>1, <3>3, <3>4, <3>5, <3>6 DEF Delivery!Try
    <3> QED
      BY <3>3, <3>7 DEF Delivery!Next
  <2>4. CASE MarkRunning(w)
    <3>1. UNCHANGED <<attempts, cancelling>>
      BY <2>4 DEF MarkRunning
    <3>2. \A j \in Jobs : status'[j] = status[j] \/ (status[j] \in Active /\ status'[j] \in Active)
      BY <2>4, <1>0 DEF MarkRunning, HoldsLease, TypeOK, RowTypes, Active
    <3> QED
      BY <3>1, <3>2, Stutters DEF DeliveryOutcome, Active, Terminal
  <2>5. ASSUME NEW s \in Statuses \ (Active \union {"absent"}), AtJob(w, "run"), Report(w, s),
               s = "dead_lettered" => attempts[job[w]] >= MaxAttempts,
               s # "cancelled"
        PROVE  [Delivery!Next]_(Delivery!vars)
    <3>1. UNCHANGED <<attempts, cancelling>>
      BY <2>5 DEF Report
    <3>2. CASE ~HoldsLease(w, job[w])
      BY <2>5, <3>1, <3>2, <1>a DEF Report
    <3>3. CASE HoldsLease(w, job[w])
      <4> DEFINE j == job[w]
      <4>1. j \in Jobs /\ status[j] \in Active
        BY <2>5, <3>3 DEF AtJob, HoldsLease, IInv, WorkersFenced, Fenced
      <4>2. status' = [status EXCEPT ![j] = s]
        BY <2>5, <3>3 DEF Report
      <4>3. DeliveryOutcome[j] = "pending" /\ attempts[j] > 0
        BY <4>1, <1>0 DEF DeliveryOutcome, Active, Terminal, AttemptsBounded
      <4> HIDE DEF j
      <4>4. /\ DeliveryAccepted' = DeliveryAccepted
            /\ DeliveryOutcome' = [DeliveryOutcome EXCEPT ![j] =
                                     IF s \in Terminal THEN s ELSE "pending"]
        BY <2>5, <3>1, <4>1, <4>2, <1>0, OneOutcome
      <4>5. CASE s = "queued"
        <5>1. DeliveryOutcome' = DeliveryOutcome
          BY <4>1, <4>3, <4>4, <4>5 DEF DeliveryOutcome, Terminal
        <5> QED
          BY <5>1, <4>4, <3>1 DEF Delivery!vars
      <4>6. CASE s \in {"succeeded", "failed"}
        <5>1. Delivery!Report(j)
          BY <4>3, <4>4, <4>6, <3>1 DEF Delivery!Report, Terminal
        <5> QED
          BY <4>1, <5>1 DEF Delivery!Next
      <4>7. CASE s = "dead_lettered"
        <5>1. attempts[j] = MaxAttempts
          <6>1. attempts[j] >= MaxAttempts
            BY <2>5, <4>7 DEF j
          <6>2. attempts[j] \in Nat /\ attempts[j] <= MaxAttempts /\ MaxAttempts \in Nat
            BY <4>1, <1>0, WorkloadAssumption DEF TypeOK, RowTypes, AttemptsBounded
          <6> QED
            BY <6>1, <6>2
        <5>2. {j} \in SUBSET {k \in Jobs : DeliveryOutcome[k] = "pending"
                                            /\ attempts[k] = MaxAttempts}
          BY <4>1, <4>3, <5>1
        <5>3. DeliveryOutcome' = [k \in Jobs |-> IF k \in {j} THEN "dead_lettered"
                                                 ELSE DeliveryOutcome[k]]
          BY <4>4, <4>7 DEF DeliveryOutcome, Terminal
        <5>4. Delivery!GiveUp
          BY <5>2, <5>3, <4>4, <3>1 DEF Delivery!GiveUp
        <5> QED
          BY <5>4 DEF Delivery!Next
      <4> QED
        BY <4>5, <4>6, <4>7, <2>5 DEF Statuses, Terminal
    <3> QED
      BY <3>2, <3>3
  <2>6. CASE Succeed(w) \/ FailFinal(w)
    BY <2>5, <2>6 DEF Succeed, FailFinal, Statuses, Terminal, Active
  <2>7. CASE FailRetryable(w)
    <3>1. CASE Spent(job[w])
      BY <2>5, <2>7, <3>1 DEF FailRetryable, Spent, Statuses, Terminal, Active
    <3>2. CASE ~Spent(job[w])
      BY <2>5, <2>7, <3>2 DEF FailRetryable, Statuses, Terminal, Active
    <3> QED
      BY <3>1, <3>2
  <2> QED
    BY <1>4, <2>1, <2>2, <2>3, <2>4, <2>6, <2>7 DEF WorkerStep
<1>5. ASSUME NEW w \in Workers, Heartbeat(w) \/ Crash(w)
      PROVE  UNCHANGED Delivery!vars
  BY <1>5, <1>a DEF Heartbeat, Crash, rows
<1>6. ASSUME NEW c \in Cancellers, NEW j \in Jobs, CancelRead(c, j)
      PROVE  Delivery!Next
  <2>1. /\ cancelling[c] = None /\ status[j] \in {"queued"} \union Active
        /\ cancelling' = [cancelling EXCEPT ![c] = [job |-> j, leased |-> owner[j] # None]]
        /\ UNCHANGED <<status, attempts>>
    BY <1>6 DEF CancelRead, rows
  <2>2. [job |-> j, leased |-> owner[j] # None] \in Requests
    BY DEF Requests
  <2>3. None \notin Requests
    BY NoneAssumption DEF Requests
  <2>4. DeliveryOutcome[j] = "pending" /\ DeliveryOutcome' = DeliveryOutcome
    BY <2>1 DEF DeliveryOutcome, Active, Terminal
  <2>5. DeliveryAccepted[c] = None
    BY <2>1 DEF DeliveryAccepted
  <2>6. DeliveryAccepted' = [DeliveryAccepted EXCEPT ![c] = j]
    BY <2>1, <2>2, <2>3, <1>0 DEF DeliveryAccepted, TypeOK, OtherTypes
  <2>7. Delivery!AcceptCancel(c, j)
    BY <2>1, <2>4, <2>5, <2>6 DEF Delivery!AcceptCancel
  <2> QED
    BY <2>7 DEF Delivery!Next
<1>7. ASSUME NEW c \in Cancellers, CancelCommit(c)
      PROVE  Delivery!Next
  <2> DEFINE j == cancelling[c].job
  <2>1. cancelling[c] # None /\ j \in Jobs
    BY <1>7, <1>0 DEF CancelCommit, TypeOK, OtherTypes, Requests
  <2>2. /\ status' = [status EXCEPT ![j] = "cancelled"]
        /\ attempts' = attempts
        /\ cancelling' = [cancelling EXCEPT ![c] = None]
    BY <1>7 DEF CancelCommit
  <2>3. DeliveryAccepted[c] = j /\ j # None
    BY <2>1, WorkloadAssumption DEF DeliveryAccepted
  <2> HIDE DEF j
  <2>4. DeliveryOutcome' = [DeliveryOutcome EXCEPT ![j] = "cancelled"]
    BY <2>1, <2>2, <1>0 DEF DeliveryOutcome, Terminal, TypeOK, RowTypes
  <2>5. DeliveryAccepted' = [DeliveryAccepted EXCEPT ![c] = None]
    BY <2>2, <1>0 DEF DeliveryAccepted, TypeOK, OtherTypes
  <2>6. Delivery!Cancel(c)
    BY <2>2, <2>3, <2>4, <2>5 DEF Delivery!Cancel
  <2> QED
    BY <2>6 DEF Delivery!Next
<1>8. CASE Tick
  BY <1>8, <1>a DEF Tick
<1> QED
  BY <1>1, <1>2, <1>3, <1>4, <1>5, <1>6, <1>7, <1>8, NextCases

(* The queue implements its abstract specification.                         *)
THEOREM Refinement == Spec => DeliverySpec
<1>1. Init => Delivery!Init
  BY DeliveryInit
<1>2. IInv /\ [Next]_vars => [Delivery!Next]_(Delivery!vars)
  BY DeliveryStep
<1> QED
  BY <1>1, <1>2, Invariance, PTL DEF Spec, DeliverySpec, Delivery!Spec
----------------------------------------------------------------------------
(* The bound on the overshoot: each worker between its count and its claim  *)
(* may add one live lease to what it has counted.  Live leases and such     *)
(* workers together are bounded, and that is inductive.                     *)
Claiming(t) ==
    {w \in Workers : pc[w] = "claim" /\ \E j \in todo[w] : IsNext(w, j) /\ TenantOf[j] = t}

OvershootInv ==
    \A t \in TenantsUsed :
      Cardinality(LiveLeases(t)) + Cardinality(Claiming(t))
        <= PerTenantLimit + Cardinality(Workers) - 1

LEMMA LeaseSets ==
  ASSUME NEW t
  PROVE  /\ LiveLeases(t) \in SUBSET Jobs /\ Claiming(t) \in SUBSET Workers
         /\ IsFiniteSet(LiveLeases(t)) /\ IsFiniteSet(Claiming(t))
         /\ Cardinality(LiveLeases(t)) \in Nat /\ Cardinality(Claiming(t)) \in Nat
         /\ Cardinality(Claiming(t)) <= Cardinality(Workers)
         /\ Cardinality(Workers) \in Nat /\ PerTenantLimit \in Nat \ {0}
<1>1. IsFiniteSet(Jobs) /\ IsFiniteSet(Workers) /\ PerTenantLimit \in Nat \ {0}
  BY WorkloadAssumption DEF WorkloadAssumption
<1>2. LiveLeases(t) \in SUBSET Jobs /\ Claiming(t) \in SUBSET Workers
  BY DEF LiveLeases, Claiming
<1>3. IsFiniteSet(LiveLeases(t)) /\ IsFiniteSet(Claiming(t))
      /\ Cardinality(Claiming(t)) <= Cardinality(Workers)
  BY <1>1, <1>2, FS_Subset
<1> QED
  BY <1>1, <1>2, <1>3, FS_CardinalityType

(* Neither more live leases nor more workers about to claim                 *)
NoMore(t) == LiveLeases(t)' \subseteq LiveLeases(t) /\ Claiming(t)' \subseteq Claiming(t)

LEMMA OvershootKept ==
  ASSUME NEW t, NoMore(t)
  PROVE  Cardinality(LiveLeases(t))' + Cardinality(Claiming(t))'
           <= Cardinality(LiveLeases(t)) + Cardinality(Claiming(t))
<1>1. PICK L, C, M, D : /\ L = LiveLeases(t) /\ C = Claiming(t)
                        /\ M = LiveLeases(t)' /\ D = Claiming(t)'
  OBVIOUS
<1>2. M \in SUBSET L /\ D \in SUBSET C
  BY <1>1 DEF NoMore
<1>3. IsFiniteSet(L) /\ IsFiniteSet(C)
  BY <1>1, LeaseSets
<1>4. /\ Cardinality(M) <= Cardinality(L) /\ Cardinality(D) <= Cardinality(C)
      /\ Cardinality(M) \in Nat /\ Cardinality(L) \in Nat
      /\ Cardinality(D) \in Nat /\ Cardinality(C) \in Nat
  BY <1>2, <1>3, FS_Subset, FS_CardinalityType
<1> QED
  BY <1>1, <1>4

(* Leases go, or stay with what they had left.                              *)
LEMMA LeasesWane ==
  ASSUME NEW t,
         \A j \in Jobs : status'[j] \in Active /\ expires'[j] >= 0 =>
           status[j] \in Active /\ expires[j] >= 0
  PROVE  LiveLeases(t)' \subseteq LiveLeases(t)
BY DEF LiveLeases

(* A worker's next candidate changes with its own steps only.               *)
LEMMA ClaimingFrame ==
  ASSUME TypeOK, NEW w \in Workers, NEW t,
         \A v \in Workers \ {w} : pc'[v] = pc[v] /\ todo'[v] = todo[v],
         pc'[w] # "claim" \/ (pc'[w] = pc[w] /\ todo'[w] = todo[w])
  PROVE  Claiming(t)' \subseteq Claiming(t)
BY DEF Claiming, IsNext

LEMMA EndCallClaims ==
  ASSUME TypeOK, NEW w \in Workers, EndCall(w)
  PROVE  /\ pc'[w] = "idle"
         /\ \A v \in Workers \ {w} : pc'[v] = pc[v] /\ todo'[v] = todo[v]
BY DEF EndCall, TypeOK, WorkerTypes

LEMMA ClaimingSame ==
  ASSUME UNCHANGED <<pc, todo>>, NEW t
  PROVE  Claiming(t)' \subseteq Claiming(t)
BY DEF Claiming, IsNext

LEMMA ReportWanes ==
  ASSUME TypeOK, NEW w \in Workers, NEW t, NEW s, s \notin Active, Report(w, s)
  PROVE  NoMore(t)
<1>1. \A j \in Jobs : status'[j] \in Active /\ expires'[j] >= 0 =>
        status[j] \in Active /\ expires[j] >= 0
  BY DEF Report, HoldsLease, TypeOK, RowTypes, WorkerTypes
<1>2. Claiming(t)' \subseteq Claiming(t)
  BY EndCallClaims, ClaimingFrame DEF Report
<1> QED
  BY <1>1, <1>2, LeasesWane DEF NoMore

(* Every step but the count that lets a worker go on and the claim          *)
LEMMA OtherStepsWane ==
  ASSUME IInv, [Next]_vars, NEW t,
         \A w \in Workers : ~CountActive(w) /\ ~Claim(w)
  PROVE  NoMore(t)
<1> DEFINE Wanes ==
      \A j \in Jobs : status'[j] \in Active /\ expires'[j] >= 0 =>
        status[j] \in Active /\ expires[j] >= 0
<1>0. TypeOK
  BY DEF IInv
<1>r. ASSUME UNCHANGED <<status, expires>> PROVE Wanes
  BY <1>r
<1>q. ASSUME Wanes, Claiming(t)' \subseteq Claiming(t) PROVE NoMore(t)
  BY <1>q, LeasesWane DEF NoMore
<1>1. CASE UNCHANGED vars
  BY <1>1, <1>r, <1>q, ClaimingSame DEF vars, rows, workerVars, session
<1>2. ASSUME NEW p \in Producers, NEW j \in Jobs, EnqueueRead(p, j)
      PROVE  NoMore(t)
  BY <1>2, <1>r, <1>q, ClaimingSame DEF EnqueueRead, rows, workerVars, session
<1>3. ASSUME NEW p \in Producers, EnqueueInsert(p)
      PROVE  NoMore(t)
  <2>1. Wanes
    BY <1>0, <1>3 DEF EnqueueInsert, InsertRow, TypeOK, RowTypes, OtherTypes, rows, Active
  <2> QED
    BY <1>3, <2>1, <1>q, ClaimingSame DEF EnqueueInsert, workerVars, session
<1>4. ASSUME NEW w \in Workers, StartCall(w)
      PROVE  NoMore(t)
  <2>1. Claiming(t)' \subseteq Claiming(t)
    BY <1>0, <1>4, ClaimingFrame DEF StartCall, Goto, session, TypeOK, WorkerTypes
  <2> QED
    BY <1>4, <2>1, <1>r, <1>q DEF StartCall, rows
<1>5. ASSUME NEW w \in Workers, Recover(w)
      PROVE  NoMore(t)
  <2>1. Wanes
    <3> SUFFICES ASSUME NEW j \in Jobs, status'[j] \in Active
                 PROVE  status[j] \in Active /\ expires'[j] = expires[j]
      OBVIOUS
    <3>1. status'[j] = status[j] /\ ~(LeaseLapsed(j, age[w]) /\ UnlockedFor(w, j))
      BY <1>5 DEF Recover, Active
    <3> QED
      BY <1>5, <3>1 DEF Recover
  <2>2. Claiming(t)' \subseteq Claiming(t)
    BY <1>0, <1>5, ClaimingFrame DEF Recover, Goto, session, TypeOK, WorkerTypes
  <2> QED
    BY <2>1, <2>2, <1>q
<1>6. ASSUME NEW w \in Workers, SelectCandidates(w)
      PROVE  NoMore(t)
  <2>1. CASE EndCall(w)
    BY <1>0, <1>6, <2>1, <1>r, <1>q, EndCallClaims, ClaimingFrame DEF SelectCandidates, rows
  <2>2. CASE todo' = [todo EXCEPT ![w] = Batch(w)] /\ Goto(w, "count")
    <3>1. Claiming(t)' \subseteq Claiming(t)
      BY <1>0, <2>2, ClaimingFrame DEF Goto, TypeOK, WorkerTypes
    <3> QED
      BY <1>6, <3>1, <1>r, <1>q DEF SelectCandidates, rows
  <2> QED
    BY <1>6, <2>1, <2>2 DEF SelectCandidates
<1>7. ASSUME NEW w \in Workers, MarkRunning(w)
      PROVE  NoMore(t)
  <2>1. Wanes
    BY <1>0, <1>7 DEF MarkRunning, HoldsLease, TypeOK, RowTypes
  <2>2. CASE EndCall(w)
    BY <1>0, <2>1, <2>2, <1>q, EndCallClaims, ClaimingFrame
  <2>3. CASE Goto(w, "run") /\ UNCHANGED session
    <3>1. Claiming(t)' \subseteq Claiming(t)
      BY <1>0, <2>3, ClaimingFrame DEF Goto, session, TypeOK, WorkerTypes
    <3> QED
      BY <2>1, <3>1, <1>q
  <2> QED
    BY <1>7, <2>2, <2>3 DEF MarkRunning
<1>8. ASSUME NEW w \in Workers, Succeed(w) \/ FailFinal(w) \/ FailRetryable(w)
      PROVE  NoMore(t)
  <2>1. \E s : s \notin Active /\ Report(w, s)
    BY <1>8 DEF Succeed, FailFinal, FailRetryable, Active
  <2> QED
    BY <1>0, <2>1, ReportWanes
<1>9. ASSUME NEW w \in Workers, Heartbeat(w)
      PROVE  NoMore(t)
  <2>1. job[w] \in Jobs
    BY <1>9 DEF Heartbeat, AtJob, IInv, WorkersFenced, Fenced
  <2>2. status[job[w]] \in Active /\ expires[job[w]] >= 0
    BY <1>0, <1>9, <2>1 DEF Heartbeat, HoldsLease, TypeOK, RowTypes
  <2>3. Wanes
    BY <1>0, <1>9, <2>1, <2>2 DEF Heartbeat, TypeOK, RowTypes
  <2> QED
    BY <1>9, <2>3, <1>q, ClaimingSame DEF Heartbeat, workerVars, session
<1>10. ASSUME NEW w \in Workers, Crash(w)
       PROVE  NoMore(t)
  BY <1>0, <1>10, <1>r, <1>q, EndCallClaims, ClaimingFrame DEF Crash, rows
<1>11. ASSUME NEW c \in Cancellers, NEW j \in Jobs, CancelRead(c, j)
       PROVE  NoMore(t)
  BY <1>11, <1>r, <1>q, ClaimingSame DEF CancelRead, rows, workerVars, session
<1>12. ASSUME NEW c \in Cancellers, CancelCommit(c)
       PROVE  NoMore(t)
  <2>1. Wanes
    BY <1>0, <1>12 DEF CancelCommit, TypeOK, RowTypes, OtherTypes, Requests, Active
  <2> QED
    BY <1>12, <2>1, <1>q, ClaimingSame DEF CancelCommit, workerVars, session
<1>13. CASE Tick
  <2>1. Wanes
    <3> SUFFICES ASSUME NEW j \in Jobs, expires'[j] >= 0
                 PROVE  expires[j] >= 0
      BY <1>13 DEF Tick
    <3>1. expires'[j] \in {expires[j], expires[j] - 1} /\ expires[j] \in Int
      BY <1>0, <1>13 DEF Tick, Older, TypeOK, RowTypes
    <3> QED
      BY <3>1
  <2> QED
    BY <1>13, <2>1, <1>q, ClaimingSame DEF Tick, session
<1> QED
  BY <1>1, <1>2, <1>3, <1>4, <1>5, <1>6, <1>7, <1>8, <1>9, <1>10, <1>11, <1>12, <1>13, NextCases
     DEF WorkerStep

(* A count that lets a worker go on has seen fewer active jobs than allowed.*)
LEMMA CountBounds ==
  ASSUME IInv, NEW w \in Workers, CountActive(w), NEW t, ~NoMore(t)
  PROVE  Cardinality(LiveLeases(t))' + Cardinality(Claiming(t))'
           <= PerTenantLimit + Cardinality(Workers) - 1
<1>0. TypeOK
  BY DEF IInv
<1>1. LiveLeases(t)' = LiveLeases(t)
  BY DEF CountActive, rows, LiveLeases
<1>2. PICK j \in todo[w] :
        /\ IsNext(w, j)
        /\ IF Cardinality(ActiveJobs(TenantOf[j], age[w])) >= PerTenantLimit
           THEN IF todo[w] = {j} THEN EndCall(w)
                ELSE /\ todo' = [todo EXCEPT ![w] = @ \ {j}]
                     /\ UNCHANGED <<pc, age, held, job, lease>>
           ELSE Goto(w, "claim") /\ UNCHANGED <<age, session, job, lease>>
  BY DEF CountActive
<1>3. pc[w] = "count" /\ j \in Jobs
  BY <1>0 DEF CountActive, TypeOK, WorkerTypes
<1>4. ~EndCall(w)
  BY <1>0, <1>1, EndCallClaims, ClaimingFrame DEF NoMore
<1>5. ~(todo' = [todo EXCEPT ![w] = @ \ {j}] /\ UNCHANGED <<pc, age, held, job, lease>>)
  <2> SUFFICES ASSUME todo' = [todo EXCEPT ![w] = @ \ {j}], UNCHANGED pc PROVE FALSE
    OBVIOUS
  <2>1. Claiming(t)' \subseteq Claiming(t)
    BY <1>0, <1>3, ClaimingFrame DEF TypeOK, WorkerTypes
  <2> QED
    BY <1>1, <2>1 DEF NoMore
<1>6. /\ ~(Cardinality(ActiveJobs(TenantOf[j], age[w])) >= PerTenantLimit)
      /\ Goto(w, "claim") /\ UNCHANGED session
  BY <1>2, <1>4, <1>5
<1>7. TenantOf[j] = t
  <2> SUFFICES ASSUME TenantOf[j] # t PROVE FALSE
    OBVIOUS
  <2>1. pc' = [pc EXCEPT ![w] = "claim"] /\ todo' = todo
    BY <1>6 DEF Goto, session
  <2>2. \A k \in todo[w] : IsNext(w, k) => k = j
    BY <1>0, <1>2, WorkloadAssumption DEF IsNext, TypeOK, WorkerTypes, WorkloadAssumption
  <2>3. Claiming(t)' \subseteq Claiming(t)
    BY <1>0, <2>1, <2>2 DEF Claiming, IsNext, TypeOK, WorkerTypes
  <2> QED
    BY <1>1, <2>3 DEF NoMore
<1>8. LiveLeases(t) \in SUBSET ActiveJobs(t, age[w])
  BY <1>0 DEF LiveLeases, ActiveJobs, TypeOK, RowTypes, WorkerTypes
<1>9. ActiveJobs(t, age[w]) \in SUBSET Jobs /\ IsFiniteSet(Jobs)
  BY WorkloadAssumption DEF ActiveJobs, WorkloadAssumption
<1>10. /\ Cardinality(LiveLeases(t)) <= Cardinality(ActiveJobs(t, age[w]))
       /\ Cardinality(ActiveJobs(t, age[w])) \in Nat
  BY <1>8, <1>9, FS_Subset, FS_CardinalityType
<1>11. /\ Cardinality(Claiming(t))' \in Nat
       /\ Cardinality(Claiming(t))' <= Cardinality(Workers)
  <2>1. PICK D : D = Claiming(t)'
    OBVIOUS
  <2>2. D \in SUBSET Workers /\ IsFiniteSet(Workers)
    BY <2>1, WorkloadAssumption DEF Claiming, WorkloadAssumption
  <2> QED
    BY <2>1, <2>2, FS_Subset, FS_CardinalityType
<1>12. PICK l, c, n, a : /\ l = Cardinality(LiveLeases(t)) /\ c = Cardinality(Claiming(t))'
                         /\ n = Cardinality(Workers) /\ a = Cardinality(ActiveJobs(t, age[w]))
  OBVIOUS
<1>13. /\ l \in Nat /\ c \in Nat /\ n \in Nat /\ a \in Nat /\ PerTenantLimit \in Nat
       /\ l <= a /\ ~(a >= PerTenantLimit) /\ c <= n
  BY <1>6, <1>7, <1>10, <1>11, <1>12, LeaseSets
<1>14. l + c <= PerTenantLimit + n - 1
  BY <1>13
<1> QED
  BY <1>1, <1>12, <1>14

(* A claim adds one live lease at most, and takes its worker out.           *)
LEMMA ClaimBounds ==
  ASSUME IInv, NEW w \in Workers, Claim(w), NEW t
  PROVE  Cardinality(LiveLeases(t))' + Cardinality(Claiming(t))'
           <= Cardinality(LiveLeases(t)) + Cardinality(Claiming(t))
<1>0. TypeOK
  BY DEF IInv
<1>1. PICK j \in todo[w] :
        /\ IsNext(w, j)
        /\ status' = [status EXCEPT ![j] = "leased"]
        /\ expires' = [expires EXCEPT ![j] = LeaseSeconds - age[w]]
  BY DEF Claim
<1>2. j \in Jobs /\ pc[w] = "claim" /\ pc' = [pc EXCEPT ![w] = "mark"]
      /\ todo' = [todo EXCEPT ![w] = {}]
  BY <1>0 DEF Claim, Goto, TypeOK, WorkerTypes
<1>3. Claiming(t)' \subseteq Claiming(t) \ {w}
  BY <1>0, <1>2 DEF Claiming, IsNext, TypeOK, WorkerTypes
<1>4. CASE TenantOf[j] # t
  <2>1. LiveLeases(t)' \subseteq LiveLeases(t)
    BY <1>0, <1>1, <1>2, <1>4 DEF LiveLeases, TypeOK, RowTypes
  <2> QED
    BY <1>3, <2>1, OvershootKept DEF NoMore
<1>5. CASE TenantOf[j] = t
  <2>1. w \in Claiming(t)
    BY <1>1, <1>2, <1>5 DEF Claiming
  <2>2. LiveLeases(t)' \subseteq LiveLeases(t) \union {j}
    BY <1>0, <1>1, <1>2 DEF LiveLeases, TypeOK, RowTypes
  <2>3. PICK L, C, M, D : /\ L = LiveLeases(t) /\ C = Claiming(t)
                          /\ M = LiveLeases(t)' /\ D = Claiming(t)'
    OBVIOUS
  <2>4. /\ IsFiniteSet(L) /\ IsFiniteSet(C) /\ w \in C
        /\ M \in SUBSET (L \union {j}) /\ D \in SUBSET (C \ {w})
    BY <1>3, <2>1, <2>2, <2>3, LeaseSets
  <2>5. /\ IsFiniteSet(L \union {j}) /\ IsFiniteSet(C \ {w})
        /\ Cardinality(L) \in Nat /\ Cardinality(C) \in Nat
        /\ Cardinality(L \union {j}) <= Cardinality(L) + 1
        /\ Cardinality(C \ {w}) = Cardinality(C) - 1
    BY <2>4, FS_AddElement, FS_RemoveElement, FS_CardinalityType
  <2>6. /\ IsFiniteSet(M) /\ IsFiniteSet(D)
        /\ Cardinality(M) <= Cardinality(L \union {j})
        /\ Cardinality(D) <= Cardinality(C \ {w})
    BY <2>4, <2>5, FS_Subset
  <2>7. PICK l, c, m, d, k, e :
          /\ l = Cardinality(L) /\ c = Cardinality(C) /\ m = Cardinality(M) /\ d = Cardinality(D)
          /\ k = Cardinality(L \union {j}) /\ e = Cardinality(C \ {w})
    OBVIOUS
  <2>8. l \in Nat /\ c \in Nat /\ m \in Nat /\ d \in Nat /\ k \in Nat
        /\ k <= l + 1 /\ e = c - 1 /\ m <= k /\ d <= e
    BY <2>5, <2>6, <2>7, FS_CardinalityType
  <2>9. m + d <= l + c
    BY <2>8
  <2> QED
    BY <2>3, <2>7, <2>9
<1> QED
  BY <1>4, <1>5

LEMMA OvershootStep ==
  ASSUME IInv, OvershootInv, [Next]_vars
  PROVE  OvershootInv'
<1> SUFFICES ASSUME NEW t \in TenantsUsed
             PROVE  Cardinality(LiveLeases(t))' + Cardinality(Claiming(t))'
                      <= PerTenantLimit + Cardinality(Workers) - 1
  BY DEF OvershootInv, TenantsUsed
<1>1. Cardinality(LiveLeases(t)) + Cardinality(Claiming(t))
        <= PerTenantLimit + Cardinality(Workers) - 1
  BY DEF OvershootInv
<1>2. ASSUME Cardinality(LiveLeases(t))' + Cardinality(Claiming(t))'
               <= Cardinality(LiveLeases(t)) + Cardinality(Claiming(t))
      PROVE  Cardinality(LiveLeases(t))' + Cardinality(Claiming(t))'
               <= PerTenantLimit + Cardinality(Workers) - 1
  <2>1. PICK L, C, M, D : /\ L = LiveLeases(t) /\ C = Claiming(t)
                          /\ M = LiveLeases(t)' /\ D = Claiming(t)'
    OBVIOUS
  <2>2. /\ Cardinality(L) \in Nat /\ Cardinality(C) \in Nat
        /\ Cardinality(Workers) \in Nat /\ PerTenantLimit \in Nat
    BY <2>1, LeaseSets
  <2>3. M \in SUBSET Jobs /\ D \in SUBSET Workers
        /\ IsFiniteSet(Jobs) /\ IsFiniteSet(Workers)
    BY <2>1, WorkloadAssumption DEF LiveLeases, Claiming, WorkloadAssumption
  <2>4. Cardinality(M) \in Nat /\ Cardinality(D) \in Nat
    BY <2>3, FS_Subset, FS_CardinalityType
  <2> QED
    BY <1>1, <1>2, <2>1, <2>2, <2>4
<1>3. CASE NoMore(t)
  BY <1>2, <1>3, OvershootKept
<1>4. ASSUME NEW w \in Workers, CountActive(w), ~NoMore(t)
      PROVE  Cardinality(LiveLeases(t))' + Cardinality(Claiming(t))'
               <= PerTenantLimit + Cardinality(Workers) - 1
  BY <1>4, CountBounds
<1>5. ASSUME NEW w \in Workers, Claim(w)
      PROVE  Cardinality(LiveLeases(t))' + Cardinality(Claiming(t))'
               <= PerTenantLimit + Cardinality(Workers) - 1
  BY <1>5, <1>2, ClaimBounds
<1> QED
  BY <1>3, <1>4, <1>5, OtherStepsWane

LEMMA OvershootInit == Init => OvershootInv
<1> SUFFICES ASSUME Init, NEW t \in TenantsUsed
             PROVE  Cardinality(LiveLeases(t)) + Cardinality(Claiming(t))
                      <= PerTenantLimit + Cardinality(Workers) - 1
  BY DEF OvershootInv
<1>1. LiveLeases(t) = {} /\ Claiming(t) = {}
  BY DEF Init, LiveLeases, Claiming, Active
<1>2. Cardinality(LiveLeases(t)) = 0 /\ Cardinality(Claiming(t)) = 0
  BY <1>1, FS_EmptySet
<1>3. Cardinality(Workers) \in Nat /\ PerTenantLimit \in Nat \ {0}
  BY LeaseSets
<1> QED
  BY <1>2, <1>3

(* Workers whose counts overlap pass the per-tenant limit by at most one    *)
(* job for each worker beyond the first: each counts less than the limit    *)
(* before it claims, and claims one job per count.                          *)
THEOREM OvershootSafe == Spec => []TenantOvershootBounded
<1>1. OvershootInv => TenantOvershootBounded
  <2> SUFFICES ASSUME OvershootInv, NEW t \in TenantsUsed
               PROVE  Cardinality(LiveLeases(t)) <= PerTenantLimit + Cardinality(Workers) - 1
    BY DEF TenantOvershootBounded
  <2>1. Cardinality(LiveLeases(t)) + Cardinality(Claiming(t))
          <= PerTenantLimit + Cardinality(Workers) - 1
    BY DEF OvershootInv
  <2> QED
    BY <2>1, LeaseSets
<1>2. Init => OvershootInv
  BY OvershootInit
<1>3. IInv /\ OvershootInv /\ [Next]_vars => OvershootInv'
  BY OvershootStep
<1> QED
  BY <1>1, <1>2, <1>3, Invariance, PTL DEF Spec
=============================================================================
