--------------------------- MODULE MigrationControl ---------------------------
(* Migration jobs: a job upgrades the schema to one reviewed revision, in a *)
(* subprocess and under a PostgreSQL advisory lock, and leaves evidence     *)
(* (scripts/run_controlled_migrations.py, db/migration_control.py).  The    *)
(* lock belongs to the job's own connection; the subprocess has another,    *)
(* on which the whole upgrade is one transaction (alembic/env.py).          *)
EXTENDS Naturals

CONSTANTS
    Jobs,
    Manifest,        \* target -> [phase, retire, recover], of migration_releases.json
    Requested,       \* what jobs are started with: [target, phase, retired, recovered]
    Revisions,       \* revisions a database may be at
    None

VARIABLES
    job,             \* job -> its program counter, what it was asked, what it has read
                     \*   (previous, current: the revision before and after its upgrade)
    lock,            \* the job whose connection holds the advisory lock
    alembic,         \* job -> its subprocess, and its transaction on the server
    revision,        \* alembic_version
    evidence,        \* job -> the evidence file
    broken           \* history: jobs that lost their lock, were killed or timed out

vars == <<job, lock, alembic, revision, evidence, broken>>

Init ==
    /\ job = [j \in Jobs |-> [pc |-> "new", asked |-> None, previous |-> None,
                           current |-> None]]
    /\ lock = None /\ revision \in Revisions
    /\ alembic = [j \in Jobs |-> [state |-> "none", from |-> None]]
    /\ evidence = [j \in Jobs |-> None] /\ broken = {}

At(j, pc) == job[j].pc = pc
Target(j) == job[j].asked.target
Goto(j, pc) == job' = [job EXCEPT ![j].pc = pc]

(* validate_release_policy, verify_recovery_evidence                        *)
Allowed(r) ==
    /\ r.target \in DOMAIN Manifest
    /\ Manifest[r.target].phase = r.phase
    /\ Manifest[r.target].retire => r.retired
    /\ Manifest[r.target].recover => r.recovered

Validate(j, r) ==
    /\ At(j, "new")
    /\ \/ Allowed(r)  /\ job' = [job EXCEPT ![j].pc = "waiting", ![j].asked = r]
       \/ ~Allowed(r) /\ job' = [job EXCEPT ![j].pc = "failed", ![j].asked = r]
    /\ UNCHANGED <<lock, alembic, revision, evidence, broken>>

(* Mutant: the job does not look at what pg_try_advisory_lock returns.      *)
LockIgnored(j) == j \in Jobs

(* migration_lock                                                           *)
LockFree(j) == lock = None

TryLock(j) ==
    /\ At(j, "waiting") /\ LockFree(j)
    /\ Goto(j, "locked") /\ lock' = j
    /\ UNCHANGED <<alembic, revision, evidence, broken>>

GiveUp(j) ==
    /\ At(j, "waiting") /\ lock # None
    /\ Goto(j, "failed")
    /\ UNCHANGED <<lock, alembic, revision, evidence, broken>>

(* Mutant: a lost connection is opened again, without the lock.             *)
Reconnects(j) == j \in Jobs

(* A statement on the lock's connection fails once it has been lost.        *)
Connected(j) == lock = j

Start(j) ==
    /\ At(j, "locked") /\ Connected(j)
    /\ job' = [job EXCEPT ![j].pc = "upgrading", ![j].previous = revision]
    /\ alembic' = [alembic EXCEPT ![j].state = "started"]
    /\ UNCHANGED <<lock, revision, evidence, broken>>

Running(j) == alembic[j].state = "upgrading"

(* alembic upgrade: nothing to do at the target or beyond it                *)
Begin(j) ==
    /\ alembic[j].state = "started"
    /\ alembic' = [alembic EXCEPT ![j] =
                     [state |-> IF revision >= Target(j) THEN "succeeded" ELSE "upgrading",
                      from |-> revision]]
    /\ UNCHANGED <<job, lock, revision, evidence, broken>>

(* Each step expects the version that it found.                             *)
CommitUpgrade(j) ==
    /\ Running(j) /\ alembic[j].from = revision
    /\ revision' = Target(j)
    /\ alembic' = [alembic EXCEPT ![j].state = "succeeded"]
    /\ UNCHANGED <<job, lock, evidence, broken>>

RollBack(j) ==
    /\ alembic[j].state \in {"started", "upgrading"}
    /\ alembic' = [alembic EXCEPT ![j].state = "failed"]
    /\ UNCHANGED <<job, lock, revision, evidence, broken>>

(* The return code of the subprocess.                                       *)
Exit(j) ==
    /\ At(j, "upgrading") /\ alembic[j].state \in {"succeeded", "failed"}
    /\ Goto(j, IF alembic[j].state = "succeeded" THEN "checking" ELSE "leaving")
    /\ UNCHANGED <<lock, alembic, revision, evidence, broken>>

(* The subprocess is killed: a COMMIT that the server has received is still *)
(* carried out, anything else rolled back.                                  *)
Timeout(j) ==
    /\ At(j, "upgrading") /\ alembic[j].state \in {"started", "upgrading"}
    /\ Goto(j, "leaving")
    /\ alembic' = [alembic EXCEPT ![j].state = IF @ = "started" THEN "failed" ELSE @]
    /\ broken' = broken \union {j}
    /\ UNCHANGED <<lock, revision, evidence>>

(* current_schema_revision, once more, and whether it is the target         *)
Reached(j) == job[j].current # None /\ job[j].current = Target(j)

Check(j) ==
    /\ At(j, "checking") /\ Connected(j)
    /\ job' = [job EXCEPT ![j].pc = "leaving", ![j].current = revision]
    /\ UNCHANGED <<lock, alembic, revision, evidence, broken>>

Disconnected(j) ==
    /\ At(j, "locked") \/ At(j, "checking")
    /\ ~Connected(j)
    /\ Goto(j, "leaving")
    /\ UNCHANGED <<lock, alembic, revision, evidence, broken>>

Unlocked(j) == IF lock = j THEN None ELSE lock

(* migration_lock's finally: pg_advisory_unlock fails, and the job with it, *)
(* when the connection has been lost.                                       *)
Unlock(j) ==
    /\ At(j, "leaving")
    /\ Goto(j, IF Reached(j) /\ Connected(j) THEN "succeeded" ELSE "failed")
    /\ lock' = Unlocked(j)
    /\ UNCHANGED <<alembic, revision, evidence, broken>>

(* The last finally: by now other jobs may hold the lock.                   *)
Report(j) ==
    /\ At(j, "succeeded") \/ At(j, "failed")
    /\ Goto(j, "done")
    /\ evidence' = [evidence EXCEPT ![j] =
                      [status |-> job[j].pc, target |-> Target(j), previous |-> job[j].previous]]
    /\ UNCHANGED <<lock, alembic, revision, broken>>

(* The server ends the connection that holds the lock: a failover, a        *)
(* timeout of the network.                                                  *)
LoseLock(j) ==
    /\ lock = j
    /\ lock' = None /\ broken' = broken \union {j}
    /\ UNCHANGED <<job, alembic, revision, evidence>>

(* The job's container is killed, with its subprocess.                      *)
Crash(j) ==
    /\ job[j].pc \notin {"new", "done", "crashed"}
    /\ Goto(j, "crashed")
    /\ lock' = Unlocked(j)
    /\ alembic' = [alembic EXCEPT ![j].state = IF @ = "started" THEN "failed" ELSE @]
    /\ broken' = broken \union {j}
    /\ UNCHANGED <<revision, evidence>>

Next ==
    \E j \in Jobs :
       \/ \E r \in Requested : Validate(j, r)
       \/ TryLock(j) \/ GiveUp(j) \/ Start(j)
       \/ Begin(j) \/ CommitUpgrade(j) \/ RollBack(j)
       \/ Exit(j) \/ Timeout(j) \/ Check(j) \/ Disconnected(j)
       \/ Unlock(j) \/ Report(j)
       \/ LoseLock(j) \/ Crash(j)

Spec == Init /\ [][Next]_vars

----------------------------------------------------------------------------
Succeeded == {j \in Jobs : evidence[j] # None /\ evidence[j].status = "succeeded"}

(* Two upgrades run at once only if one of their jobs has lost its lock,    *)
(* has timed out or was killed (migration_control.py:169,                   *)
(* test_migration_control.py "allows only one migrator").                   *)
OneUpgrade ==
    \A j, k \in Jobs : j # k /\ Running(j) /\ Running(k) => {j, k} \intersect broken # {}

(* The jobs that report that they brought the schema to t.                  *)
Claimants(t) == {j \in Succeeded : evidence[j].target = t /\ evidence[j].previous # t}

(* Also when locks are lost and subprocesses outlive their jobs, one job    *)
(* at most reports that it brought the schema to a revision                 *)
(* (run_controlled_migrations.py:99-135).                                   *)
ClaimedOnce == \A t \in DOMAIN Manifest : \A j, k \in Claimants(t) : j = k

(* Which job found, under the lock, that it had brought the schema to which *)
(* revision, and which one has reported it.                                 *)
Confirmed ==
    {<<j, Target(j)>> : j \in {k \in Jobs : Reached(k) /\ job[k].previous # Target(k)}}

Claims ==
    {<<j, evidence[j].target>> :
        j \in {k \in Succeeded : evidence[k].previous # evidence[k].target}}

History == INSTANCE SchemaHistory
    WITH version <- revision, confirmed <- Confirmed, claims <- Claims,
         Targets <- DOMAIN Manifest

(* Whatever jobs, locks and subprocesses are lost, the schema goes up from  *)
(* one reviewed revision to another, a job finds that it has brought it to  *)
(* one that is there and higher than all that others found before, and the  *)
(* evidence, written when the lock has been given back and other jobs may   *)
(* have gone further, claims what its job found and nothing else            *)
(* (run_controlled_migrations.py:99-155).                                   *)
HistorySpec == History!Spec
=============================================================================
