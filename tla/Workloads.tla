------------------------------ MODULE Workloads ------------------------------
(* The durable work queue of services/workloads.py, the worker loop of      *)
(* workers/registry.py (run_one) and the cancel route of                    *)
(* api/routes/workloads.py, over one PostgreSQL table (durable_workloads).  *)
(*                                                                          *)
(* Isolation is READ COMMITTED: each SELECT sees what was committed before  *)
(* it, and only FOR UPDATE holds a row against other writers.  One action   *)
(* is one statement, or one transaction whose statements touch only rows    *)
(* it has locked.                                                           *)
(*                                                                          *)
(* Time is relative: a stored timestamp is kept as its distance from the    *)
(* present, Tick moves the present, and the `current` a lease call read     *)
(* when it started is kept as its age.  The shared clock is that of Python's*)
(* datetime.now(UTC) in every process.                                      *)
EXTENDS Integers, FiniteSets

CONSTANTS
    Workers,         \* worker processes, each with a worker_id of its own
    Producers,       \* request handlers that enqueue
    Cancellers,      \* request handlers of the cancel route
    Jobs,            \* (tenant, idempotency_key) pairs, numbered in claim order
                     \* (priority desc, created_at asc)
    TenantOf,        \* the tenant of a job
    AllowedTenants,  \* settings.async_workload_allowed_tenant_ids
    MaxAttempts,     \* max_attempts of a job
    LeaseSeconds,    \* lease_seconds
    RetryDelay,      \* retry_delay_seconds
    PerTenantLimit,  \* per_tenant_limit
    BatchLimit,      \* LIMIT of the candidate query (100 in the code)
    MaxAge,          \* bound: ticks between the start of a lease call and its end
    MaxCrashes,      \* bound: worker crashes in a behaviour
    None             \* SQL NULL, and "no job" in process-local state

ASSUME WorkloadAssumption ==
    /\ Jobs \subseteq Nat /\ IsFiniteSet(Jobs) /\ IsFiniteSet(Workers)
    /\ MaxAttempts \in Nat \ {0} /\ LeaseSeconds \in Nat \ {0}
    /\ RetryDelay \in Nat /\ PerTenantLimit \in Nat \ {0}
    /\ BatchLimit \in Nat \ {0} /\ MaxAge \in Nat /\ MaxCrashes \in Nat
    /\ None \notin Workers /\ None \notin Jobs

ASSUME NoneAssumption ==
    \A j \in Jobs, b \in BOOLEAN : None # [job |-> j, leased |-> b]

Active   == {"leased", "running"}
Terminal == {"succeeded", "failed", "cancelled", "dead_lettered"}
Statuses == {"absent", "queued"} \union Active \union Terminal

(* Where a worker is in its call of run_one.  "recover", "select", "count"  *)
(* and "claim" are inside lease_next_workload.                              *)
WorkerPCs == {"idle", "recover", "select", "count", "claim", "mark", "run"}

VARIABLES
    \* the rows ("absent": not inserted)
    status, attempts, owner,
    expires,     \* lease_expires_at; NULL exactly when owner is, and not read then
    scheduled,   \* scheduled_at, read of queued rows only
    \* the workers
    pc, age,
    held,        \* candidate rows this worker's transaction holds locked
    todo,        \* candidates its loop has not looked at yet
    job,         \* the workload it leased
    lease,       \* attempts of that row when it leased it (history)
    \* the request handlers
    inserting,   \* producer -> job whose absence it has read
    cancelling,  \* canceller -> [job, leased] as get_workload loaded it
    \* history
    executions,  \* job -> times its handler has been started
    crashes

rows      == <<status, attempts, owner, expires, scheduled>>
session   == <<held, todo>>
workerVars== <<pc, age, held, todo, job, lease>>
vars      == <<rows, workerVars, inserting, cancelling, executions, crashes>>

InLeaseCall(w) == pc[w] \in {"recover", "select", "count", "claim"}

(* A timestamp as far back as any age a worker can hold compares alike      *)
(* whatever its distance, so ageing stops there.                            *)
Older(t, last) == IF t > last THEN t - 1 ELSE t

(* Mutant: the candidate query without SKIP LOCKED.                         *)
LockedOrNot(w, j) == w \in Workers /\ j \in Jobs

(* What the row lock of a FOR UPDATE waits for: only candidate rows stay    *)
(* locked between two actions.                                              *)
UnlockedFor(w, j) == \A v \in Workers \ {w} : j \notin held[v]
Unlocked(j)       == \A v \in Workers : j \notin held[v]

Requests == [job : Jobs, leased : BOOLEAN]

RowTypes ==
    /\ status     \in [Jobs -> Statuses]
    /\ attempts   \in [Jobs -> Nat]
    /\ owner      \in [Jobs -> Workers \union {None}]
    /\ expires    \in [Jobs -> Int]
    /\ scheduled  \in [Jobs -> Int]

WorkerTypes ==
    /\ pc         \in [Workers -> WorkerPCs]
    /\ age        \in [Workers -> Nat]
    /\ held       \in [Workers -> SUBSET Jobs]
    /\ todo       \in [Workers -> SUBSET Jobs]
    /\ job        \in [Workers -> Jobs \union {None}]
    /\ lease      \in [Workers -> Nat]

OtherTypes ==
    /\ inserting  \in [Producers -> Jobs \union {None}]
    /\ cancelling \in [Cancellers -> Requests \union {None}]
    /\ executions \in [Jobs -> Nat]
    /\ crashes    \in Nat

TypeOK == RowTypes /\ WorkerTypes /\ OtherTypes

Init ==
    /\ status     = [j \in Jobs |-> "absent"]
    /\ attempts   = [j \in Jobs |-> 0]
    /\ owner      = [j \in Jobs |-> None]
    /\ expires    = [j \in Jobs |-> 0]
    /\ scheduled  = [j \in Jobs |-> 0]
    /\ pc         = [w \in Workers |-> "idle"]
    /\ age        = [w \in Workers |-> 0]
    /\ held       = [w \in Workers |-> {}]
    /\ todo       = [w \in Workers |-> {}]
    /\ job        = [w \in Workers |-> None]
    /\ lease      = [w \in Workers |-> 0]
    /\ inserting  = [p \in Producers |-> None]
    /\ cancelling = [c \in Cancellers |-> None]
    /\ executions = [j \in Jobs |-> 0]
    /\ crashes    = 0

----------------------------------------------------------------------------
(* enqueue_workload: a SELECT by key, then an INSERT the unique constraint  *)
(* uq_workload_tenant_idempotency may refuse (IntegrityError).  A request   *)
(* that finds the row returns it and changes nothing.                       *)

EnqueueRead(p, j) ==
    /\ inserting[p] = None
    /\ status[j] = "absent"
    /\ inserting' = [inserting EXCEPT ![p] = j]
    /\ UNCHANGED <<rows, workerVars, cancelling, executions, crashes>>

(* Mutant: the table has no unique constraint on the key.                   *)
InsertOver(j) ==
    /\ status'    = [status EXCEPT ![j] = "queued"]
    /\ attempts'  = [attempts EXCEPT ![j] = 0]
    /\ scheduled' = [scheduled EXCEPT ![j] = 0]
    /\ UNCHANGED <<owner, expires>>

InsertRow(j) ==
    IF status[j] = "absent"
    THEN /\ status'    = [status EXCEPT ![j] = "queued"]
         /\ attempts'  = [attempts EXCEPT ![j] = 0]
         /\ scheduled' = [scheduled EXCEPT ![j] = 0]
         /\ UNCHANGED <<owner, expires>>
    ELSE UNCHANGED rows

EnqueueInsert(p) ==
    /\ inserting[p] # None
    /\ InsertRow(inserting[p])
    /\ inserting' = [inserting EXCEPT ![p] = None]
    /\ UNCHANGED <<workerVars, cancelling, executions, crashes>>

----------------------------------------------------------------------------
(* lease_next_workload, as run_one calls it.                                *)

Goto(w, label) == pc' = [pc EXCEPT ![w] = label]

(* run_one returns or raises: its caller, which src/ has none of but tests  *)
(* and the capacity harness, closes the session, and its locks go.          *)
EndCall(w) ==
    /\ pc'    = [pc EXCEPT ![w] = "idle"]
    /\ age'   = [age EXCEPT ![w] = 0]
    /\ held'  = [held EXCEPT ![w] = {}]
    /\ todo'  = [todo EXCEPT ![w] = {}]
    /\ job'   = [job EXCEPT ![w] = None]
    /\ lease' = [lease EXCEPT ![w] = 0]

StartCall(w) ==
    /\ pc[w] = "idle"
    /\ Goto(w, "recover")
    /\ UNCHANGED <<rows, age, session, job, lease, inserting, cancelling,
                   executions, crashes>>

InScope(j) == TenantOf[j] \in AllowedTenants

(* Mutant: recovery looks for leased rows only.                             *)
LapsedBeforeRunning(j, a) ==
    status[j] = "leased" /\ owner[j] # None /\ expires[j] < -a /\ InScope(j)

(* lease_expires_at < current, of an active row in the rollout scope        *)
LeaseLapsed(j, a) ==
    /\ status[j] \in Active
    /\ owner[j] # None
    /\ expires[j] < -a
    /\ InScope(j)

(* Mutant: off by one in the comparison with max_attempts.                  *)
SpentOneLate(j) == attempts[j] > MaxAttempts

Spent(j) == attempts[j] >= MaxAttempts

(* recover_expired_leases: its own transaction                              *)
Recover(w) ==
    /\ pc[w] = "recover"
    /\ LET lapsed == {j \in Jobs : LeaseLapsed(j, age[w]) /\ UnlockedFor(w, j)}
           spent  == {j \in lapsed : Spent(j)}
       IN  /\ status' = [j \in Jobs |-> IF j \in spent THEN "dead_lettered"
                                        ELSE IF j \in lapsed THEN "queued"
                                        ELSE status[j]]
           /\ scheduled' = [j \in Jobs |-> IF j \in lapsed \ spent
                                           THEN -age[w] ELSE scheduled[j]]
           /\ owner'   = [j \in Jobs |-> IF j \in lapsed THEN None ELSE owner[j]]
           /\ expires' = [j \in Jobs |-> IF j \in lapsed THEN 0 ELSE expires[j]]
    /\ Goto(w, "select")
    /\ UNCHANGED <<attempts, age, session, job, lease, inserting, cancelling,
                   executions, crashes>>

(* Mutant: the candidate query forgets the rollout scope.                   *)
EligibleAnywhere(j, a) == status[j] = "queued" /\ scheduled[j] <= -a

Eligible(j, a) == status[j] = "queued" /\ scheduled[j] <= -a /\ InScope(j)

(* the first BatchLimit rows of S in claim order                            *)
FirstOf(S) == {j \in S : Cardinality({k \in S : k < j}) < BatchLimit}

(* the candidate query: ORDER BY ... LIMIT 100 FOR UPDATE SKIP LOCKED       *)
Batch(w) == FirstOf({j \in Jobs : Eligible(j, age[w]) /\ UnlockedFor(w, j)})

SelectCandidates(w) ==
    /\ pc[w] = "select"
    /\ IF Batch(w) = {}
       THEN EndCall(w)
       ELSE /\ held' = [held EXCEPT ![w] = Batch(w)]
            /\ todo' = [todo EXCEPT ![w] = Batch(w)]
            /\ Goto(w, "count")
            /\ UNCHANGED <<age, job, lease>>
    /\ UNCHANGED <<rows, inserting, cancelling, executions, crashes>>

(* Mutant: only running jobs are counted.                                   *)
RunningJobs(t, a) ==
    {j \in Jobs : TenantOf[j] = t /\ status[j] = "running"
                  /\ (owner[j] = None \/ expires[j] >= -a)}

(* the active-job count of one candidate's tenant, as of the worker's clock *)
ActiveJobs(t, a) ==
    {j \in Jobs : TenantOf[j] = t /\ status[j] \in Active
                  /\ (owner[j] = None \/ expires[j] >= -a)}

IsNext(w, j) == j \in todo[w] /\ \A k \in todo[w] : j <= k

CountActive(w) ==
    /\ pc[w] = "count"
    /\ \E j \in todo[w] :
         /\ IsNext(w, j)
         /\ IF Cardinality(ActiveJobs(TenantOf[j], age[w])) >= PerTenantLimit
            THEN IF todo[w] = {j}
                 THEN EndCall(w)
                 ELSE /\ todo' = [todo EXCEPT ![w] = @ \ {j}]
                      /\ UNCHANGED <<pc, age, held, job, lease>>
            ELSE /\ Goto(w, "claim")
                 /\ UNCHANGED <<age, session, job, lease>>
    /\ UNCHANGED <<rows, inserting, cancelling, executions, crashes>>

(* the claim and its COMMIT, which releases every candidate                 *)
Claim(w) ==
    /\ pc[w] = "claim"
    /\ \E j \in todo[w] :
         /\ IsNext(w, j)
         /\ status'   = [status EXCEPT ![j] = "leased"]
         /\ owner'    = [owner EXCEPT ![j] = w]
         /\ expires'  = [expires EXCEPT ![j] = LeaseSeconds - age[w]]
         /\ attempts' = [attempts EXCEPT ![j] = @ + 1]
         /\ job'      = [job EXCEPT ![w] = j]
         /\ lease'    = [lease EXCEPT ![w] = attempts[j] + 1]
    /\ held' = [held EXCEPT ![w] = {}]
    /\ todo' = [todo EXCEPT ![w] = {}]
    /\ age'  = [age EXCEPT ![w] = 0]
    /\ Goto(w, "mark")
    /\ UNCHANGED <<scheduled, inserting, cancelling, executions, crashes>>

----------------------------------------------------------------------------
(* The rest of run_one.  Each step locks and reloads the row                *)
(* (_lock_current_lease); a worker whose lease is gone gets a ValueError,   *)
(* which leaves run_one.                                                    *)

(* Mutant: the owner is not compared with the caller.                       *)
LeaseHeldByAnyone(w, j) ==
    w \in Workers /\ status[j] \in Active /\ expires[j] > 0

(* Mutant: the status is not compared.                                      *)
LeaseOfAnyStatus(w, j) == owner[j] = w /\ expires[j] > 0

HoldsLease(w, j) ==
    /\ owner[j] = w
    /\ status[j] \in Active
    /\ expires[j] > 0

AtJob(w, label) == pc[w] = label /\ UnlockedFor(w, job[w])

MarkRunning(w) ==
    /\ AtJob(w, "mark")
    /\ IF HoldsLease(w, job[w])
       THEN /\ status' = [status EXCEPT ![job[w]] = "running"]
            /\ executions' = [executions EXCEPT ![job[w]] = @ + 1]
            /\ Goto(w, "run")
            /\ UNCHANGED <<age, session, job, lease>>
       ELSE /\ EndCall(w)
            /\ UNCHANGED <<status, executions>>
    /\ UNCHANGED <<attempts, owner, expires, scheduled, inserting, cancelling, crashes>>

(* a handler may extend its lease; without one, heartbeat raises into the   *)
(* handler, whose failure path is FailRetryable below                       *)
Heartbeat(w) ==
    /\ AtJob(w, "run")
    /\ HoldsLease(w, job[w])
    /\ expires' = [expires EXCEPT ![job[w]] = LeaseSeconds]
    /\ UNCHANGED <<status, attempts, owner, scheduled, workerVars, inserting,
                   cancelling, executions, crashes>>

(* Mutant: an outcome nobody knows of.                                      *)
ReportUnknown(w, s) ==
    /\ IF HoldsLease(w, job[w])
       THEN status' = [status EXCEPT ![job[w]] = "retrying"]
       ELSE status' = status
    /\ EndCall(w)
    /\ UNCHANGED <<attempts, owner, expires, scheduled, inserting, cancelling,
                   executions, crashes>>

(* a report on the job with outcome s; scheduled_at moves only on a retry   *)
Report(w, s) ==
    /\ IF HoldsLease(w, job[w])
       THEN /\ status'  = [status EXCEPT ![job[w]] = s]
            /\ owner'   = [owner EXCEPT ![job[w]] = None]
            /\ expires' = [expires EXCEPT ![job[w]] = 0]
            /\ scheduled' = IF s = "queued"
                            THEN [scheduled EXCEPT ![job[w]] = RetryDelay]
                            ELSE scheduled
       ELSE UNCHANGED <<status, owner, expires, scheduled>>
    /\ EndCall(w)
    /\ UNCHANGED <<attempts, inserting, cancelling, executions, crashes>>

(* the handler returned: succeed_workload                                   *)
Succeed(w) == AtJob(w, "run") /\ Report(w, "succeeded")

(* no registered handler, or the payload failed validation                  *)
FailFinal(w) == AtJob(w, "run") /\ Report(w, "failed")

(* any other exception: retried while attempts are left                     *)
FailRetryable(w) ==
    /\ AtJob(w, "run")
    /\ Report(w, IF Spent(job[w]) THEN "dead_lettered" ELSE "queued")

(* The process dies, or a database error leaves run_one: the transaction is *)
(* rolled back and the row keeps its lease.                                 *)
Crash(w) ==
    /\ pc[w] # "idle"
    /\ crashes < MaxCrashes
    /\ crashes' = crashes + 1
    /\ EndCall(w)
    /\ UNCHANGED <<rows, inserting, cancelling, executions>>

----------------------------------------------------------------------------
(* The cancel route: get_workload loads the row into the session, then      *)
(* cancel_workload locks it.  The second SELECT does not refresh the loaded *)
(* object (no populate_existing), so the terminal check reads the old       *)
(* status, and UPDATE writes only the attributes that differ from what was  *)
(* loaded: a lease that was NULL then is not cleared.  A request that loads *)
(* a terminal row is refused and changes nothing.                           *)

CancelRead(c, j) ==
    /\ cancelling[c] = None
    /\ status[j] \in {"queued"} \union Active
    /\ cancelling' = [cancelling EXCEPT ![c] = [job |-> j, leased |-> owner[j] # None]]
    /\ UNCHANGED <<rows, workerVars, inserting, executions, crashes>>

CancelCommit(c) ==
    /\ cancelling[c] # None
    /\ LET j == cancelling[c].job
       IN  /\ Unlocked(j)
           /\ status' = [status EXCEPT ![j] = "cancelled"]
           /\ IF cancelling[c].leased
              THEN /\ owner'   = [owner EXCEPT ![j] = None]
                   /\ expires' = [expires EXCEPT ![j] = 0]
              ELSE UNCHANGED <<owner, expires>>
    /\ cancelling' = [cancelling EXCEPT ![c] = None]
    /\ UNCHANGED <<attempts, scheduled, workerVars, inserting, executions, crashes>>

----------------------------------------------------------------------------
(* One second passes.  A lease call takes at most MaxAge of them.           *)
Tick ==
    /\ \A w \in Workers : InLeaseCall(w) => age[w] < MaxAge
    /\ age' = [w \in Workers |-> IF InLeaseCall(w) THEN age[w] + 1 ELSE age[w]]
    /\ expires'   = [j \in Jobs |-> IF owner[j] = None THEN expires[j]
                                                       ELSE Older(expires[j], -(MaxAge + 1))]
    /\ scheduled' = [j \in Jobs |-> IF status[j] = "queued" THEN Older(scheduled[j], -MaxAge)
                                                            ELSE scheduled[j]]
    /\ UNCHANGED <<status, attempts, owner, pc, session, job, lease, inserting,
                   cancelling, executions, crashes>>

----------------------------------------------------------------------------
WorkerStep(w) ==
    \/ StartCall(w)
    \/ Recover(w)
    \/ SelectCandidates(w)
    \/ CountActive(w)
    \/ Claim(w)
    \/ MarkRunning(w)
    \/ Succeed(w)
    \/ FailFinal(w)
    \/ FailRetryable(w)

Next ==
    \/ \E p \in Producers : \/ \E j \in Jobs : EnqueueRead(p, j)
                            \/ EnqueueInsert(p)
    \/ \E w \in Workers : WorkerStep(w) \/ Heartbeat(w) \/ Crash(w)
    \/ \E c \in Cancellers : \/ \E j \in Jobs : CancelRead(c, j)
                             \/ CancelCommit(c)
    \/ Tick

Spec == Init /\ [][Next]_vars

(* Workers are loops that call run_one again and again, and the clock runs. *)
(* Nothing is assumed of producers, of cancel requests or of crashes.       *)
Fairness == WF_vars(Tick) /\ \A w \in Workers : WF_vars(WorkerStep(w))

FairSpec == Spec /\ Fairness
----------------------------------------------------------------------------
(* Properties                                                               *)

(* Rows and locks agree: a queued job has no lease and attempts left, an    *)
(* active one has an owner (or recover_expired_leases, which compares       *)
(* lease_expires_at, would never find it), and a row some worker holds as a *)
(* candidate is still queued when that worker claims it.                    *)
QueueConsistent ==
    /\ \A j \in Jobs :
         /\ status[j] = "queued"  => owner[j] = None /\ attempts[j] < MaxAttempts
         /\ status[j] \in Active  => owner[j] # None
    /\ \A w \in Workers :
         /\ todo[w] \subseteq held[w]
         /\ \A j \in held[w] : status[j] = "queued"
         /\ \A v \in Workers \ {w} : held[v] \intersect held[w] = {}

(* A job's handler is started at most once per attempt and attempts never   *)
(* pass max_attempts, through expiry, recovery, retries and crashes; an     *)
(* active job has begun one, a dead-lettered job has spent them all.        *)
AttemptsBounded ==
    \A j \in Jobs :
      /\ executions[j] <= attempts[j]
      /\ attempts[j] <= MaxAttempts
      /\ status[j] \in Active => attempts[j] > 0
      /\ status[j] = "dead_lettered" => attempts[j] = MaxAttempts

(* Fencing: a worker that still passes the lease check of                   *)
(* _lock_current_lease does so for the attempt it leased, never for a later *)
(* one begun by another worker or by itself after its lease was recovered.  *)
LatestAttemptHoldsLease ==
    \A w \in Workers :
      pc[w] \in {"mark", "run"} /\ HoldsLease(w, job[w])
        => lease[w] = attempts[job[w]]

(* The inductive strengthening of the four invariants above: a row that was *)
(* never inserted carries nothing, a worker keeps its lease number only as  *)
(* long as it owns the row, and one that has not started the handler yet    *)
(* still has an attempt to spend on it.                                     *)
RowsClean ==
    \A j \in Jobs : status[j] = "absent" =>
      attempts[j] = 0 /\ executions[j] = 0 /\ owner[j] = None

OwnsRow(w, j) == owner[j] = w /\ status[j] \in Active

Fenced(w) ==
    /\ pc[w] \in {"mark", "run"} => job[w] \in Jobs
    /\ pc[w] \in {"mark", "run"} /\ OwnsRow(w, job[w]) => lease[w] = attempts[job[w]]
    /\ pc[w] = "mark" /\ OwnsRow(w, job[w]) => executions[job[w]] < attempts[job[w]]

WorkersFenced == \A w \in Workers : Fenced(w)

IInv == TypeOK /\ QueueConsistent /\ AttemptsBounded /\ RowsClean /\ WorkersFenced

(* Workers whose counts overlap can pass per_tenant_limit, by at most one   *)
(* job for each worker beyond the first, however they crash and restart.    *)
TenantsUsed == {TenantOf[j] : j \in Jobs}

LiveLeases(t) == {j \in Jobs : TenantOf[j] = t /\ status[j] \in Active /\ expires[j] >= 0}

TenantOvershootBounded ==
    \A t \in TenantsUsed :
      Cardinality(LiveLeases(t)) <= PerTenantLimit + Cardinality(Workers) - 1

(* Jobs of a tenant outside the rollout allow-list are never tried, only    *)
(* cancelled.                                                               *)
ScopeRespected ==
    \A j \in Jobs : ~InScope(j) =>
      attempts[j] = 0 /\ status[j] \in {"absent", "queued", "cancelled"}

(* Its inductive strengthening: no worker holds such a job as a candidate.  *)
CandidatesInScope == \A w \in Workers : \A j \in held[w] : InScope(j)

(* An outcome, once recorded, is replaced by no worker step: not by a late  *)
(* report, a recovery or a claim. (The cancel route may replace it: see     *)
(* TerminalNeverCancelled.)                                                 *)
OutcomesKept ==
    [][\A j \in Jobs : status[j] \in Terminal =>
         status'[j] \in {status[j], "cancelled"}]_vars

(* The runbook's "Cancellation is allowed only for a non-terminal workload" *)
(* and the route's "A terminal workload cannot be cancelled."               *)
TerminalNeverCancelled ==
    [][\A j \in Jobs : status[j] \in Terminal => status'[j] = status[j]]_vars

(* The capacity harness's tenant_limit_respected, and "enforce a per-tenant *)
(* active-job limit": no tenant has more live leases than per_tenant_limit. *)
TenantLimitRespected ==
    \A t \in TenantsUsed : Cardinality(LiveLeases(t)) <= PerTenantLimit

(* Every job of a tenant in scope settles: behind other jobs of its tenant, *)
(* at its limit or not, and those of another, through leases lost by a      *)
(* crashed worker or by a slow one, and through retries.                    *)
EventuallySettled ==
    \A j \in Jobs : InScope(j) =>
      (status[j] # "absent" ~> status[j] \in Terminal)

(* The queue implements WorkloadDelivery: leases, recovery, candidate locks *)
(* and retries are its private affair.                                      *)
DeliveryOutcome ==
    [j \in Jobs |-> IF status[j] = "absent" THEN "unknown"
                    ELSE IF status[j] \in Terminal THEN status[j] ELSE "pending"]
DeliveryAccepted ==
    [c \in Cancellers |-> IF cancelling[c] = None THEN None ELSE cancelling[c].job]

Delivery == INSTANCE WorkloadDelivery WITH
    outcome <- DeliveryOutcome, tries <- attempts, accepted <- DeliveryAccepted

DeliverySpec == Delivery!Spec
=============================================================================
