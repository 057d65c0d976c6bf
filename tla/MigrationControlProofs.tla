------------------------ MODULE MigrationControlProofs ------------------------
(* Theorems about MigrationControl, for any number of jobs, any manifest and *)
(* any requests, from the inductive invariant IInv.                          *)
EXTENDS MigrationControl, TLAPS

Pcs     == {"new", "waiting", "locked", "upgrading", "checking", "leaving", "succeeded",
            "failed", "done", "crashed"}
States  == {"none", "started", "upgrading", "succeeded", "failed"}
Targets == {r.target : r \in Requested}

JobRows      == [pc : Pcs, asked : Requested \union {None}, previous : Nat \union {None},
                 current : Nat \union {None}]
AlembicRows  == [state : States, from : Nat \union {None}]
EvidenceRows == [status : {"succeeded", "failed"}, target : Targets,
                 previous : Nat \union {None}]

Types ==
    /\ job \in [Jobs -> JobRows]
    /\ lock \in Jobs \union {None}
    /\ alembic \in [Jobs -> AlembicRows]
    /\ revision \in Nat
    /\ evidence \in [Jobs -> EvidenceRows \union {None}]

(* A job that waits or goes on has a target in the manifest, and only one   *)
(* that has gone on has a subprocess.                                       *)
Reviewed ==
    \A j \in Jobs :
      /\ ~At(j, "new") => job[j].asked \in Requested
      /\ job[j].pc \in {"waiting", "locked", "upgrading", "checking"} =>
           Target(j) \in DOMAIN Manifest
      /\ alembic[j].state # "none" =>
           Target(j) \in DOMAIN Manifest /\ job[j].pc \notin {"new", "waiting", "locked"}

(* An upgrade goes up.                                                      *)
Upward == \A j \in Jobs : Running(j) => alembic[j].from \in Nat /\ alembic[j].from < Target(j)

(* A subprocess that works belongs to the holder of the lock, or its job    *)
(* has lost the lock, timed out or been killed.                             *)
Guarded ==
    \A j \in Jobs :
      alembic[j].state \in {"started", "upgrading"} /\ j \notin broken =>
        lock = j /\ At(j, "upgrading")

(* What a job found when it started is not above what there is now.         *)
Found ==
    \A j \in Jobs : job[j].pc \in {"upgrading", "checking"} =>
      job[j].previous \in Nat /\ job[j].previous <= revision

(* The jobs whose last look found the target, which is still there; one     *)
(* that has not started has not looked.                                     *)
Passed == {j \in Jobs : Reached(j)}
Ended  == {"leaving", "succeeded", "failed", "done", "crashed"}

Fresh == \A j \in Jobs : job[j].pc \in {"new", "waiting", "locked"} => job[j].current = None

Kept ==
    \A k \in Passed :
      /\ job[k].pc \in Ended
      /\ Target(k) \in DOMAIN Manifest /\ Target(k) <= revision

(* Evidence says what its job has seen.                                     *)
Reported ==
    \A j \in Jobs :
      /\ At(j, "succeeded") => j \in Passed
      /\ evidence[j] # None =>
           /\ At(j, "done")
           /\ evidence[j].target = Target(j) /\ evidence[j].previous = job[j].previous
           /\ evidence[j].status = "succeeded" => j \in Passed

(* A job that holds the lock has started after every job that has passed.   *)
Seen ==
    \A j \in Jobs : \A k \in Passed :
      lock = j /\ job[j].pc \in {"upgrading", "checking"} => Target(k) <= job[j].previous

(* One job passes that had found another revision than its target.          *)
PassedOnce ==
    \A j, k \in Passed :
      /\ job[j].previous # Target(j) /\ job[k].previous # Target(k)
      /\ Target(j) = Target(k)
      => j = k

IInv ==
    /\ Types /\ Reviewed /\ Upward /\ Guarded
    /\ Found /\ Fresh /\ Kept /\ Reported /\ Seen /\ PassedOnce

(* What is in evidence as reached is still there, also when its job reports *)
(* it after others have gone further.                                       *)
EvidenceTrue == \A k \in Succeeded : evidence[k].target <= revision

----------------------------------------------------------------------------
LEMMA Initially ==
    ASSUME Revisions \subseteq Nat
    PROVE  Init => IInv
<1> SUFFICES ASSUME Init PROVE IInv
    OBVIOUS
<1> USE DEF Init
<1>1. Types
    BY DEF Types, JobRows, AlembicRows, EvidenceRows, Pcs, States
<1>2. Reviewed /\ Upward /\ Guarded /\ Found /\ Fresh
    BY DEF Reviewed, Upward, Guarded, Found, Fresh, Running, At
<1>3. Passed = {}
    BY DEF Passed, Target, Reached
<1>4. Kept /\ Reported /\ Seen /\ PassedOnce
    BY <1>3 DEF Kept, Reported, Seen, PassedOnce, At
<1> QED
    BY <1>1, <1>2, <1>4 DEF IInv

(* A job moves on, to pc.                                                   *)
LEMMA Moves ==
    ASSUME Types, NEW j \in Jobs, NEW pc \in Pcs, Goto(j, pc)
    PROVE  /\ job' \in [Jobs -> JobRows]
           /\ job'[j].pc = pc /\ job'[j].asked = job[j].asked
           /\ job'[j].previous = job[j].previous /\ job'[j].current = job[j].current
           /\ \A k \in Jobs \ {j} : job'[k] = job[k]
BY DEF Types, Goto, JobRows

(* Those that have passed stay as they are, and nobody comes to hold the    *)
(* lock of a job at work: what they have passed is still there.             *)
LEMMA PassedStay ==
    ASSUME IInv, DOMAIN Manifest \subseteq Nat, revision' \in Nat, revision <= revision',
           Passed' = Passed,
           \A k \in Passed : /\ job'[k].asked = job[k].asked /\ job'[k].previous = job[k].previous
                             /\ job'[k].pc \in Ended,
           \A j \in Jobs : lock' = j /\ job'[j].pc \in {"upgrading", "checking"} =>
             lock = j /\ job[j].pc \in {"upgrading", "checking"} /\ job'[j].previous = job[j].previous
    PROVE  (Kept /\ Seen /\ PassedOnce)'
<1>1. \A k \in Passed : Target(k)' = Target(k) /\ Target(k) \in Nat
    BY DEF Target, IInv, Kept
<1>2. revision \in Nat
    BY DEF IInv, Types
<1>3. Kept'
    BY <1>1, <1>2 DEF IInv, Kept
<1>4. Seen'
    BY <1>1 DEF IInv, Seen
<1>5. PassedOnce'
    BY <1>1 DEF IInv, PassedOnce
<1> QED
    BY <1>3, <1>4, <1>5

----------------------------------------------------------------------------
(* One step of each kind keeps IInv.                                        *)
LEMMA ValidateKeeps ==
    ASSUME DOMAIN Manifest \subseteq Nat, IInv, NEW j \in Jobs, NEW r \in Requested, Validate(j, r)
    PROVE  IInv'
<1> USE DEF IInv, At
<1>0. At(j, "new") /\ UNCHANGED <<lock, alembic, revision, evidence, broken>>
    BY DEF Validate
<1>1. PICK to \in {"waiting", "failed"} :
        /\ job' = [job EXCEPT ![j].pc = to, ![j].asked = r]
        /\ to = "waiting" => Allowed(r)
    BY DEF Validate
<1>2. /\ job' \in [Jobs -> JobRows]
      /\ job'[j].pc = to /\ job'[j].asked = r /\ job'[j].current = job[j].current
      /\ \A k \in Jobs \ {j} : job'[k] = job[k]
    <2>1. job[j] \in JobRows
        BY DEF Types
    <2>2. job' = [job EXCEPT ![j] = [job[j] EXCEPT !.pc = to, !.asked = r]]
        BY <1>1, <2>1 DEF Types, JobRows
    <2>3. [job[j] EXCEPT !.pc = to, !.asked = r] \in JobRows
        BY <2>1 DEF JobRows, Pcs
    <2> QED
        BY <2>1, <2>2, <2>3 DEF Types, JobRows
<1>3. Types'
    BY <1>0, <1>2 DEF Types
<1>4. alembic[j].state = "none" /\ j \notin Passed /\ evidence[j] = None
    BY <1>0 DEF Reviewed, Kept, Ended, Reported
<1>5. (Reviewed /\ Upward /\ Guarded /\ Found /\ Fresh)'
    BY <1>0, <1>1, <1>2, <1>4 DEF Reviewed, Upward, Guarded, Found, Fresh, Running, Target, Allowed
<1>6. Passed' = Passed
    <2>1. job'[j].current = None
        BY <1>0, <1>2 DEF Fresh
    <2> QED
        BY <1>2, <1>4, <2>1 DEF Passed, Target, Reached
<1>7. Reported'
    BY <1>0, <1>2, <1>4, <1>6 DEF Reported, Target
<1>8. (Kept /\ Seen /\ PassedOnce)'
    <2>1. revision' \in Nat /\ revision <= revision'
        BY <1>0 DEF Types
    <2>2. \A k \in Passed : /\ job'[k].asked = job[k].asked /\ job'[k].previous = job[k].previous
                            /\ job'[k].pc \in Ended
        BY <1>2, <1>4 DEF Kept, Passed, Target, Reached
    <2> QED
        BY <1>0, <1>2, <1>6, <2>1, <2>2, PassedStay
<1> QED
    BY <1>3, <1>5, <1>7, <1>8

LEMMA TryLockKeeps ==
    ASSUME None \notin Jobs, DOMAIN Manifest \subseteq Nat, IInv, NEW j \in Jobs, TryLock(j)
    PROVE  IInv'
<1> USE DEF IInv, TryLock, At, LockFree
<1>1. /\ job' \in [Jobs -> JobRows]
      /\ job'[j].pc = "locked" /\ job'[j].asked = job[j].asked
      /\ job'[j].previous = job[j].previous /\ job'[j].current = job[j].current
      /\ \A k \in Jobs \ {j} : job'[k] = job[k]
    BY Moves DEF Pcs
<1>2. Types'
    BY <1>1 DEF Types
<1>3. (Reviewed /\ Upward /\ Found /\ Fresh)'
    BY <1>1 DEF Reviewed, Upward, Found, Fresh, Running, Target
<1>4. Guarded'
    BY <1>1 DEF Guarded
<1>5. Passed' = Passed /\ j \notin Passed
    BY <1>1 DEF Passed, Target, Reached, Kept, Ended
<1>6. Reported'
    BY <1>1, <1>5 DEF Reported, Target
<1>7. (Kept /\ Seen /\ PassedOnce)'
    <2>1. revision' \in Nat /\ revision <= revision'
        BY DEF Types
    <2>2. \A k \in Passed : /\ job'[k].asked = job[k].asked /\ job'[k].previous = job[k].previous
                            /\ job'[k].pc \in Ended
        BY <1>1, <1>5 DEF Kept, Passed, Target, Reached
    <2> QED
        BY <1>1, <1>5, <2>1, <2>2, PassedStay
<1> QED
    BY <1>2, <1>3, <1>4, <1>6, <1>7

LEMMA StartKeeps ==
    ASSUME DOMAIN Manifest \subseteq Nat, IInv, NEW j \in Jobs, Start(j)
    PROVE  IInv'
<1> USE DEF IInv, Start, At, Connected
<1>1. /\ job' \in [Jobs -> JobRows]
      /\ job'[j].pc = "upgrading" /\ job'[j].asked = job[j].asked
      /\ job'[j].previous = revision /\ job'[j].current = job[j].current
      /\ \A k \in Jobs \ {j} : job'[k] = job[k]
    <2>1. job[j] \in JobRows
        BY DEF Types
    <2>2. job' = [job EXCEPT ![j] = [job[j] EXCEPT !.pc = "upgrading", !.previous = revision]]
        BY <2>1 DEF Types, JobRows
    <2>3. [job[j] EXCEPT !.pc = "upgrading", !.previous = revision] \in JobRows
        BY <2>1 DEF Types, JobRows, Pcs
    <2> QED
        BY <2>1, <2>2, <2>3 DEF Types, JobRows
<1>2. /\ alembic' \in [Jobs -> AlembicRows] /\ alembic'[j].state = "started"
      /\ \A k \in Jobs \ {j} : alembic'[k] = alembic[k]
    BY DEF Types, AlembicRows, States
<1>3. Types'
    BY <1>1, <1>2 DEF Types
<1>4. (Reviewed /\ Upward /\ Guarded /\ Found /\ Fresh)'
    BY <1>1, <1>2 DEF Reviewed, Upward, Guarded, Found, Fresh, Running, Target, Types
<1>5. Passed' = Passed /\ j \notin Passed
    BY <1>1 DEF Passed, Target, Reached, Kept, Ended
<1>6. Reported'
    BY <1>1, <1>5 DEF Reported, Target
<1>7. \A k \in Passed : job'[k] = job[k] /\ Target(k)' = Target(k)
    BY <1>1, <1>5 DEF Passed, Reached, Target
<1>8. Kept' /\ PassedOnce'
    <2>1. UNCHANGED revision
        OBVIOUS
    <2> HIDE DEF Start
    <2>2. Kept'
        BY <1>5, <1>7, <2>1 DEF Kept
    <2>3. PassedOnce'
        BY <1>5, <1>7 DEF PassedOnce
    <2> QED
        BY <2>2, <2>3
<1>9. Seen'
    BY <1>1, <1>5, <1>7 DEF Seen, Kept
<1> QED
    BY <1>3, <1>4, <1>6, <1>8, <1>9

LEMMA SubprocessKeeps ==
    ASSUME DOMAIN Manifest \subseteq Nat, IInv, NEW j \in Jobs, Begin(j) \/ RollBack(j)
    PROVE  IInv'
<1> USE DEF IInv, Begin, RollBack
<1>1. Types'
    BY DEF Types, AlembicRows, States
<1>2. \A k \in Jobs \ {j} : alembic'[k] = alembic[k]
    BY DEF Types
<1>3. /\ alembic[j].state \in {"started", "upgrading"}
      /\ alembic'[j].state \in {"upgrading", "succeeded", "failed"}
      /\ alembic'[j].state = "upgrading" =>
           alembic[j].state = "started" /\ alembic'[j].from = revision /\ ~(revision >= Target(j))
    BY DEF Types, AlembicRows
<1>4. Target(j) \in Nat /\ Target(j) \in DOMAIN Manifest /\ revision \in Nat
    BY <1>3 DEF Reviewed, Types
<1>5. Reviewed'
    BY <1>2, <1>3, <1>4 DEF Reviewed, Target, At
<1>6. Upward'
    BY <1>2, <1>3, <1>4 DEF Upward, Running, Target
<1>7. (Guarded /\ Found /\ Fresh)'
    BY <1>2, <1>3 DEF Guarded, Found, Fresh, At
<1>8. (Kept /\ Reported /\ Seen /\ PassedOnce)'
    BY DEF Kept, Reported, Seen, PassedOnce, Passed, Reached, At, Target
<1> QED
    BY <1>1, <1>5, <1>6, <1>7, <1>8

(* The schema only goes up.                                                 *)
LEMMA CommitUpgradeKeeps ==
    ASSUME DOMAIN Manifest \subseteq Nat, IInv, NEW j \in Jobs, CommitUpgrade(j)
    PROVE  IInv'
<1> USE DEF IInv, CommitUpgrade
<1>1. /\ alembic[j].state = "upgrading" /\ alembic'[j].state = "succeeded"
      /\ \A k \in Jobs \ {j} : alembic'[k] = alembic[k]
    BY DEF Types, Running, AlembicRows
<1>2. revision \in Nat /\ revision' \in Nat /\ revision < revision'
    BY <1>1 DEF Reviewed, Upward, Types, Running
<1>3. Types'
    BY <1>2 DEF Types, AlembicRows, States
<1>4. (Reviewed /\ Upward /\ Guarded)'
    BY <1>1 DEF Reviewed, Upward, Guarded, Running, Target, At
<1>5. (Found /\ Fresh)'
    BY <1>2 DEF Found, Fresh
<1>6. Reported'
    BY DEF Reported, Passed, Reached, At, Target
<1>7. Passed' = Passed
    BY DEF Passed, Target, Reached
<1>8. (Kept /\ Seen /\ PassedOnce)'
    BY <1>2, <1>7, PassedStay DEF Kept
<1> QED
    BY <1>3, <1>4, <1>5, <1>6, <1>8

LEMMA LoseLockKeeps ==
    ASSUME None \notin Jobs, IInv, NEW j \in Jobs, LoseLock(j)
    PROVE  IInv'
<1> USE DEF IInv, LoseLock
<1>1. Types'
    BY DEF Types
<1>2. (Reviewed /\ Upward /\ Guarded /\ Found /\ Fresh)'
    BY DEF Reviewed, Upward, Guarded, Found, Fresh, Running, Target, At
<1>3. (Kept /\ Reported /\ Seen /\ PassedOnce)'
    BY DEF Kept, Reported, Seen, PassedOnce, Passed, Reached, At, Target
<1> QED
    BY <1>1, <1>2, <1>3

(* What a job that goes on does to its subprocess.                          *)
Killed(j) ==
    /\ alembic' = [alembic EXCEPT ![j].state = IF @ = "started" THEN "failed" ELSE @]
    /\ broken' = broken \union {j}

Spared(j) ==
    /\ UNCHANGED <<alembic, broken>>
    /\ ~At(j, "upgrading") \/ alembic[j].state \notin {"started", "upgrading"}

(* A job that goes on, with or without its lock and its subprocess, does    *)
(* not stand in the way of the others.                                      *)
LEMMA GoesOnKeeps ==
    ASSUME None \notin Jobs, DOMAIN Manifest \subseteq Nat, IInv, NEW j \in Jobs, ~At(j, "new"),
           NEW pc \in {"checking"} \union (Ended \ {"done"}), Goto(j, pc),
           pc = "checking" => At(j, "upgrading"),
           pc = "succeeded" => Reached(j),
           evidence[j] = None, lock' \in {lock, Unlocked(j)},
           UNCHANGED <<revision, evidence>>, Killed(j) \/ Spared(j)
    PROVE  IInv'
<1> USE DEF IInv, At
<1>1. /\ job' \in [Jobs -> JobRows]
      /\ job'[j].pc = pc /\ job'[j].asked = job[j].asked
      /\ job'[j].previous = job[j].previous /\ job'[j].current = job[j].current
      /\ \A k \in Jobs \ {j} : job'[k] = job[k]
    BY Moves DEF Pcs, Ended
<1>2. /\ lock' \in Jobs \union {None} /\ \A k \in Jobs \ {j} : lock = k <=> lock' = k
      /\ lock' = j => lock = j
    BY DEF Types, Unlocked
<1>3. /\ alembic' \in [Jobs -> AlembicRows]
      /\ \A k \in Jobs \ {j} : alembic'[k] = alembic[k]
      /\ alembic'[j].state \in {alembic[j].state, "failed"} /\ alembic'[j].from = alembic[j].from
      /\ alembic'[j].state = "failed" /\ alembic[j].state # "failed" => alembic[j].state = "started"
    BY DEF Types, AlembicRows, States, Killed, Spared
<1>4. Types'
    BY <1>1, <1>2, <1>3 DEF Types
<1>5. Reviewed'
    BY <1>1, <1>3 DEF Reviewed, Target, Ended
<1>6. Upward'
    BY <1>1, <1>3 DEF Upward, Running, Target
<1>7. Guarded'
    <2>1. j \in broken' \/ alembic'[j].state \notin {"started", "upgrading"}
        BY <1>3 DEF Guarded, Killed, Spared
    <2>2. broken \subseteq broken'
        BY DEF Killed, Spared
    <2> QED
        BY <1>1, <1>2, <1>3, <2>1, <2>2 DEF Guarded
<1>8. (Found /\ Fresh)'
    BY <1>1 DEF Found, Fresh, Ended
<1>9. Passed' = Passed
    BY <1>1 DEF Passed, Target, Reached
<1>10. Reported'
    BY <1>1, <1>9 DEF Reported, Target, Passed, Reached
<1>11. (Kept /\ Seen /\ PassedOnce)'
    <2>1. revision' \in Nat /\ revision <= revision'
        BY DEF Types
    <2>2. \A k \in Passed : /\ job'[k].asked = job[k].asked /\ job'[k].previous = job[k].previous
                            /\ job'[k].pc \in Ended
        BY <1>1 DEF Kept, Passed, Target, Reached, Ended
    <2>3. \A k \in Jobs : lock' = k /\ job'[k].pc \in {"upgrading", "checking"} =>
            lock = k /\ job[k].pc \in {"upgrading", "checking"} /\ job'[k].previous = job[k].previous
        BY <1>1, <1>2 DEF Ended
    <2> QED
        BY <1>9, <2>1, <2>2, <2>3, PassedStay
<1> QED
    BY <1>4, <1>5, <1>6, <1>7, <1>8, <1>10, <1>11

(* The job that passes has the lock, and so every other that has passed did *)
(* so before it started: if it found another revision than its target, that *)
(* was higher than all of theirs.                                           *)
LEMMA CheckKeeps ==
    ASSUME None \notin Jobs, DOMAIN Manifest \subseteq Nat, IInv, NEW j \in Jobs, Check(j)
    PROVE  IInv'
<1> USE DEF IInv, Check, At, Connected
<1>1. /\ job' \in [Jobs -> JobRows]
      /\ job'[j].pc = "leaving" /\ job'[j].asked = job[j].asked
      /\ job'[j].previous = job[j].previous /\ job'[j].current = revision
      /\ \A k \in Jobs \ {j} : job'[k] = job[k]
    <2>1. job[j] \in JobRows
        BY DEF Types
    <2>2. job' = [job EXCEPT ![j] = [job[j] EXCEPT !.pc = "leaving", !.current = revision]]
        BY <2>1 DEF Types, JobRows
    <2>3. [job[j] EXCEPT !.pc = "leaving", !.current = revision] \in JobRows
        BY <2>1 DEF Types, JobRows, Pcs
    <2> QED
        BY <2>1, <2>2, <2>3 DEF Types, JobRows
<1>2. Types'
    BY <1>1 DEF Types
<1>3. (Reviewed /\ Upward /\ Guarded /\ Found /\ Fresh)'
    BY <1>1 DEF Reviewed, Upward, Guarded, Found, Fresh, Running, Target
<1>4. /\ Passed \subseteq Passed' /\ Passed' \subseteq Passed \union {j} /\ j \notin Passed
      /\ j \in Passed' => revision = Target(j)
    BY <1>1 DEF Passed, Target, Reached, Kept, Ended
<1>5. Reported'
    BY <1>1, <1>4 DEF Reported, Target
<1>6. \A k \in Jobs : Target(k)' = Target(k)
    BY <1>1 DEF Target
<1>7. /\ Target(j) \in DOMAIN Manifest /\ revision \in Nat
      /\ job[j].previous \in Nat /\ job[j].previous <= revision
    BY DEF Reviewed, Found, Fresh, Types
<1>8. Kept'
    <2>1. UNCHANGED revision
        OBVIOUS
    <2>2. \A k \in Passed' : Target(k) \in DOMAIN Manifest /\ Target(k) <= revision
        BY <1>4, <1>7 DEF Kept
    <2>3. \A k \in Passed' : job'[k].pc \in Ended
        BY <1>1, <1>4 DEF Kept, Passed, Ended
    <2> QED
        BY <1>6, <2>1, <2>2, <2>3 DEF Kept, Passed
<1>9. Seen'
    BY <1>1 DEF Seen
<1>10. \A k \in Passed : Target(k) \in Nat /\ Target(k) <= job[j].previous
    BY DEF Seen, Kept
<1>11. PassedOnce'
    <2> SUFFICES ASSUME NEW x \in Passed', NEW y \in Passed',
                        job'[x].previous # Target(x)', job'[y].previous # Target(y)',
                        Target(x)' = Target(y)'
                 PROVE  x = y
        BY DEF PassedOnce
    <2>1. CASE x # j /\ y # j
        BY <1>1, <1>4, <1>6, <2>1 DEF PassedOnce, Passed, Target, Reached
    <2>2. CASE x = j \/ y = j
        <3>1. x \in Jobs /\ y \in Jobs /\ Target(x) = Target(y)
            BY <1>6 DEF Passed
        <3>2. \A k \in Passed' \ {j} : Target(k) \in Nat /\ Target(k) <= job[j].previous
            BY <1>4, <1>10
        <3>3. ASSUME NEW k \in Passed' \ {j}, j \in Passed', Target(k) = Target(j),
                     job'[j].previous # Target(j)'
              PROVE  FALSE
            BY <1>1, <1>4, <1>6, <1>7, <3>2, <3>3
        <3> QED
            BY <2>2, <3>1, <3>3
    <2> QED
        BY <2>1, <2>2
<1> QED
    BY <1>2, <1>3, <1>5, <1>8, <1>9, <1>11

LEMMA ReportKeeps ==
    ASSUME DOMAIN Manifest \subseteq Nat, IInv, NEW j \in Jobs, Report(j)
    PROVE  IInv'
<1> USE DEF IInv, Report, At
<1>1. /\ job' \in [Jobs -> JobRows]
      /\ job'[j].pc = "done" /\ job'[j].asked = job[j].asked
      /\ job'[j].previous = job[j].previous /\ job'[j].current = job[j].current
      /\ \A k \in Jobs \ {j} : job'[k] = job[k]
    BY Moves DEF Pcs
<1> DEFINE e == [status |-> job[j].pc, target |-> Target(j), previous |-> job[j].previous]
<1>2. e \in EvidenceRows
    BY DEF Types, Reviewed, EvidenceRows, JobRows, Targets, Target
<1>3. /\ evidence' \in [Jobs -> EvidenceRows \union {None}]
      /\ evidence'[j] = e /\ \A k \in Jobs \ {j} : evidence'[k] = evidence[k]
    BY <1>2 DEF Types
<1>4. Types'
    BY <1>1, <1>3 DEF Types
<1>5. (Reviewed /\ Upward /\ Guarded /\ Found /\ Fresh)'
    BY <1>1 DEF Reviewed, Upward, Guarded, Found, Fresh, Running, Target
<1>6. Passed' = Passed
    BY <1>1 DEF Passed, Target, Reached
<1>7. Reported'
    BY <1>1, <1>3, <1>6 DEF Reported, Target, Passed, Reached
<1>8. (Kept /\ Seen /\ PassedOnce)'
    <2>1. revision' \in Nat /\ revision <= revision'
        BY DEF Types
    <2>2. \A k \in Passed : /\ job'[k].asked = job[k].asked /\ job'[k].previous = job[k].previous
                            /\ job'[k].pc \in Ended
        BY <1>1 DEF Kept, Passed, Target, Reached, Ended
    <2> QED
        BY <1>1, <1>6, <2>1, <2>2, PassedStay
<1> QED
    BY <1>4, <1>5, <1>7, <1>8

----------------------------------------------------------------------------
LEMMA NextKeeps ==
    ASSUME None \notin Jobs, DOMAIN Manifest \subseteq Nat, IInv, [Next]_vars
    PROVE  IInv'
<1>1. CASE UNCHANGED vars
    BY <1>1 DEF IInv, vars, Types, Reviewed, Upward, Guarded, Found, Fresh, Kept, Reported, Seen,
                PassedOnce, Passed, Reached, Running, Target, At
<1>2. \A j \in Jobs : ~At(j, "done") => evidence[j] = None
    BY DEF IInv, Reported
<1>3. ASSUME NEW j \in Jobs, NEW r \in Requested, Validate(j, r) PROVE IInv'
    BY <1>3, ValidateKeeps
<1>4. ASSUME NEW j \in Jobs, TryLock(j) PROVE IInv'
    BY <1>4, TryLockKeeps
<1>5. ASSUME NEW j \in Jobs, GiveUp(j) PROVE IInv'
    <2>1. At(j, "waiting") /\ Goto(j, "failed") /\ Spared(j) /\ UNCHANGED <<lock, revision, evidence>>
        BY <1>5 DEF GiveUp, Spared, At
    <2> QED
        BY <1>2, <2>1, GoesOnKeeps DEF At, Ended
<1>6. ASSUME NEW j \in Jobs, Start(j) PROVE IInv'
    BY <1>6, StartKeeps
<1>7. ASSUME NEW j \in Jobs, Begin(j) \/ RollBack(j) PROVE IInv'
    BY <1>7, SubprocessKeeps
<1>8. ASSUME NEW j \in Jobs, CommitUpgrade(j) PROVE IInv'
    BY <1>8, CommitUpgradeKeeps
<1>9. ASSUME NEW j \in Jobs, Exit(j) PROVE IInv'
    <2>1. /\ At(j, "upgrading") /\ Spared(j) /\ UNCHANGED <<lock, revision, evidence>>
          /\ Goto(j, "checking") \/ Goto(j, "leaving")
        BY <1>9 DEF Exit, Spared
    <2> QED
        BY <1>2, <2>1, GoesOnKeeps DEF At, Ended
<1>10. ASSUME NEW j \in Jobs, Timeout(j) PROVE IInv'
    <2>1. At(j, "upgrading") /\ Killed(j) /\ UNCHANGED <<lock, revision, evidence>>
          /\ Goto(j, "leaving")
        BY <1>10 DEF Timeout, Killed
    <2> QED
        BY <1>2, <2>1, GoesOnKeeps DEF At, Ended
<1>11. ASSUME NEW j \in Jobs, Check(j) PROVE IInv'
    BY <1>11, CheckKeeps
<1>12. ASSUME NEW j \in Jobs, Disconnected(j) PROVE IInv'
    <2>1. /\ At(j, "locked") \/ At(j, "checking")
          /\ Goto(j, "leaving") /\ Spared(j) /\ UNCHANGED <<lock, revision, evidence>>
        BY <1>12 DEF Disconnected, Spared, At
    <2> QED
        BY <1>2, <2>1, GoesOnKeeps DEF At, Ended
<1>13. ASSUME NEW j \in Jobs, Unlock(j) PROVE IInv'
    <2>1. /\ At(j, "leaving") /\ Spared(j) /\ UNCHANGED <<revision, evidence>>
          /\ Goto(j, "failed") \/ (Goto(j, "succeeded") /\ Reached(j))
          /\ lock' = Unlocked(j)
        BY <1>13 DEF Unlock, Spared, At
    <2> QED
        BY <1>2, <2>1, GoesOnKeeps DEF At, Ended
<1>14. ASSUME NEW j \in Jobs, Report(j) PROVE IInv'
    BY <1>14, ReportKeeps
<1>15. ASSUME NEW j \in Jobs, LoseLock(j) PROVE IInv'
    BY <1>15, LoseLockKeeps
<1>16. ASSUME NEW j \in Jobs, Crash(j) PROVE IInv'
    <2>1. /\ ~At(j, "new") /\ ~At(j, "done") /\ Killed(j) /\ UNCHANGED <<revision, evidence>>
          /\ Goto(j, "crashed") /\ lock' = Unlocked(j)
        BY <1>16 DEF Crash, Killed, At
    <2> QED
        BY <1>2, <2>1, GoesOnKeeps DEF Ended
<1> QED
    BY <1>1, <1>3, <1>4, <1>5, <1>6, <1>7, <1>8, <1>9, <1>10, <1>11, <1>12, <1>13, <1>14,
       <1>15, <1>16 DEF Next

(* A claim rests on what its job has passed.                                *)
LEMMA ClaimsPassed ==
    ASSUME IInv
    PROVE  /\ Succeeded \subseteq Passed
           /\ \A k \in Succeeded : /\ evidence[k].target = Target(k)
                                   /\ evidence[k].previous = job[k].previous
BY DEF IInv, Reported, Succeeded

LEMMA ClaimedOnceHolds == IInv => ClaimedOnce
BY ClaimsPassed DEF IInv, PassedOnce, ClaimedOnce, Claimants

(* Whatever fails, one job at most reports that it brought the schema to a  *)
(* revision (run_controlled_migrations.py:99-155).                          *)
THEOREM ClaimSafe ==
    ASSUME None \notin Jobs, DOMAIN Manifest \subseteq Nat, Revisions \subseteq Nat
    PROVE  Spec => []ClaimedOnce
<1>1. Init => IInv
    BY Initially
<1>2. IInv /\ [Next]_vars => IInv'
    BY NextKeeps
<1> QED
    BY <1>1, <1>2, ClaimedOnceHolds, PTL DEF Spec

(* Two upgrades run at once only if one of their jobs has lost its lock,    *)
(* has timed out or was killed (migration_control.py:169).                  *)
THEOREM UpgradesSafe ==
    ASSUME None \notin Jobs, DOMAIN Manifest \subseteq Nat, Revisions \subseteq Nat
    PROVE  Spec => []OneUpgrade
<1>1. Init => IInv
    BY Initially
<1>2. IInv /\ [Next]_vars => IInv'
    BY NextKeeps
<1>3. IInv => OneUpgrade
    BY DEF IInv, Guarded, OneUpgrade, Running
<1> QED
    BY <1>1, <1>2, <1>3, PTL DEF Spec

(* What a job has reported as reached is still there, whatever subprocesses *)
(* outlive their jobs and however late it reports: no evidence of success   *)
(* names more than the schema has (run_controlled_migrations.py:137-155).   *)
THEOREM EvidenceStands ==
    ASSUME None \notin Jobs, DOMAIN Manifest \subseteq Nat, Revisions \subseteq Nat
    PROVE  Spec => []EvidenceTrue
<1>1. Init => IInv
    BY Initially
<1>2. IInv /\ [Next]_vars => IInv'
    BY NextKeeps
<1>3. IInv => EvidenceTrue
    BY ClaimsPassed DEF IInv, Kept, EvidenceTrue
<1> QED
    BY <1>1, <1>2, <1>3, PTL DEF Spec

----------------------------------------------------------------------------
(* Refinement: the history of the schema                                    *)

LEMMA ConfirmedSame ==
    ASSUME Passed' = Passed,
           \A k \in Passed : job'[k].asked = job[k].asked /\ job'[k].previous = job[k].previous
    PROVE  Confirmed' = Confirmed
<1>1. \A k \in Passed : Target(k)' = Target(k)
    BY DEF Target
<1> QED
    BY <1>1 DEF Confirmed, Passed, Target, Reached

(* A step that moves its job, or nothing, leaves the history as it is.      *)
LEMMA MoveEnters ==
    ASSUME IInv, NEW j \in Jobs, UNCHANGED <<revision, evidence>>,
           UNCHANGED job \/ \E pc \in Pcs : Goto(j, pc)
    PROVE  UNCHANGED History!history
<1>1. \A k \in Jobs : /\ job'[k].asked = job[k].asked /\ job'[k].previous = job[k].previous
                      /\ job'[k].current = job[k].current
    BY Moves DEF IInv
<1>2. Confirmed' = Confirmed
    BY <1>1, ConfirmedSame DEF Passed, Target, Reached
<1>3. Claims' = Claims
    BY DEF Claims, Succeeded
<1> QED
    BY <1>2, <1>3 DEF History!history

(* So does one that changes what a job has read before it has passed.       *)
LEMMA WorkEnters ==
    ASSUME IInv, NEW j \in Jobs, UNCHANGED <<revision, evidence>>,
           j \notin Passed, j \notin Passed', \A k \in Jobs \ {j} : job'[k] = job[k]
    PROVE  UNCHANGED History!history
<1>1. Passed' = Passed
    BY DEF Passed, Target, Reached
<1>2. Confirmed' = Confirmed
    BY <1>1, ConfirmedSame DEF Passed, Target, Reached
<1>3. Claims' = Claims
    BY DEF Claims, Succeeded
<1> QED
    BY <1>2, <1>3 DEF History!history

LEMMA UpgradeEnters ==
    ASSUME IInv, NEW j \in Jobs, CommitUpgrade(j)
    PROVE  History!Next
<1>1. /\ Running(j) /\ alembic[j].from = revision /\ revision' = Target(j)
      /\ evidence' = evidence /\ job' = job
    BY DEF CommitUpgrade
<1>2. revision < Target(j) /\ Target(j) \in DOMAIN Manifest
    BY <1>1 DEF IInv, Upward, Reviewed, Running
<1>3. Claims' = Claims /\ Confirmed' = Confirmed
    BY <1>1 DEF Claims, Succeeded, Confirmed, Reached, Target
<1>4. History!Upgrade(Target(j))
    BY <1>1, <1>2, <1>3 DEF History!Upgrade
<1> QED
    BY <1>2, <1>4 DEF History!Next

(* The job that passes started after every other that has: what it found is *)
(* no lower than any of their targets, and it confirms something higher, or *)
(* nothing.                                                                 *)
LEMMA CheckEnters ==
    ASSUME DOMAIN Manifest \subseteq Nat, IInv, NEW j \in Jobs, Check(j), j \in Passed'
    PROVE  [History!Next]_(History!history)
<1>1. /\ At(j, "checking") /\ lock = j /\ UNCHANGED <<revision, evidence>>
      /\ job' = [job EXCEPT ![j].pc = "leaving", ![j].current = revision]
    BY DEF Check, Connected
<1>2. /\ job'[j].asked = job[j].asked /\ job'[j].previous = job[j].previous
      /\ job'[j].current = revision
      /\ \A k \in Jobs \ {j} : job'[k] = job[k]
    BY <1>1 DEF IInv, Types, JobRows
<1>3. /\ Target(j) = revision /\ revision \in DOMAIN Manifest /\ revision \in Nat
      /\ job[j].previous \in Nat /\ job[j].previous <= revision
    BY <1>1, <1>2 DEF IInv, Reviewed, Found, Fresh, Types, At, Passed, Target, Reached
<1>4. \A k \in Passed : Target(k) \in Nat /\ Target(k) <= job[j].previous /\ k # j
    BY <1>1 DEF IInv, Seen, Kept, At, Ended
<1>5. Claims' = Claims
    BY <1>1 DEF Claims, Succeeded
<1>6. \A k \in Jobs : Target(k)' = Target(k)
    BY <1>2 DEF Target
<1>7. Confirmed' = Confirmed \union
                     IF job[j].previous # revision THEN {<<j, revision>>} ELSE {}
    <2>1. {k \in Jobs : Reached(k) /\ job[k].previous # Target(k)}' =
            {k \in Jobs : Reached(k) /\ job[k].previous # Target(k)} \union
            IF job[j].previous # revision THEN {j} ELSE {}
        BY <1>2, <1>3, <1>4, <1>6 DEF Passed, Target, Reached
    <2> QED
        BY <1>3, <1>6, <2>1 DEF Confirmed
<1>8. CASE job[j].previous = revision
    <2>1. Confirmed' = Confirmed
        BY <1>7, <1>8
    <2> QED
        BY <1>1, <1>5, <2>1 DEF History!history
<1>9. CASE job[j].previous # revision
    <2>1. Confirmed' = Confirmed \union {<<j, revision>>}
        BY <1>7, <1>9
    <2>2. ASSUME NEW c \in Confirmed PROVE c[1] # j /\ c[2] < revision
        <3>1. PICK k \in Passed : c = <<k, Target(k)>>
            BY DEF Confirmed, Passed, Target, Reached
        <3> QED
            BY <1>3, <1>4, <1>9, <3>1
    <2>3. History!Confirm(j, revision)
        BY <1>1, <1>5, <2>1, <2>2 DEF History!Confirm
    <2> QED
        BY <1>3, <2>3 DEF History!Next
<1> QED
    BY <1>8, <1>9

(* The evidence, however late, claims what its job has confirmed.           *)
LEMMA ReportEnters ==
    ASSUME IInv, NEW j \in Jobs, Report(j)
    PROVE  [History!Next]_(History!history)
<1> DEFINE e == [status |-> job[j].pc, target |-> Target(j), previous |-> job[j].previous]
<1>1. /\ At(j, "succeeded") \/ At(j, "failed")
      /\ Goto(j, "done") /\ UNCHANGED revision
      /\ evidence' = [evidence EXCEPT ![j] = e]
    BY DEF Report
<1>2. evidence'[j] = e /\ \A k \in Jobs \ {j} : evidence'[k] = evidence[k]
    BY <1>1 DEF IInv, Types
<1>3. e.status = job[j].pc /\ e.target = Target(j) /\ e.previous = job[j].previous
    OBVIOUS
<1> HIDE DEF e
<1>4. j \notin Succeeded
    BY <1>1 DEF IInv, Reported, Succeeded, At
<1>5. \A k \in Jobs : /\ job'[k].asked = job[k].asked /\ job'[k].previous = job[k].previous
                      /\ job'[k].current = job[k].current
    BY <1>1, Moves DEF IInv, Pcs
<1>6. Confirmed' = Confirmed
    BY <1>5, ConfirmedSame DEF Passed, Target, Reached
<1> DEFINE Claimers == {k \in Succeeded : evidence[k].previous # evidence[k].target}
<1>7. CASE At(j, "failed") \/ job[j].previous = Target(j) \/ e = None
    <2>1. Claimers' = Claimers
        BY <1>2, <1>3, <1>4, <1>7 DEF Succeeded, At
    <2>2. \A k \in Claimers : evidence'[k] = evidence[k]
        BY <1>2, <1>4 DEF Succeeded
    <2>3. Claims' = Claims
        BY <2>1, <2>2 DEF Claims
    <2> QED
        BY <1>1, <1>6, <2>3 DEF History!history
<1>8. CASE At(j, "succeeded") /\ job[j].previous # Target(j) /\ e # None
    <2>1. Claimers' = Claimers \union {j}
        BY <1>2, <1>3, <1>4, <1>8 DEF Succeeded, At
    <2>2. \A k \in Claimers : evidence'[k] = evidence[k]
        BY <1>2, <1>4 DEF Succeeded
    <2>3. Claims' = Claims \union {<<j, Target(j)>>}
        BY <1>2, <1>3, <2>1, <2>2 DEF Claims
    <2>4. <<j, Target(j)>> \in Confirmed
        BY <1>8 DEF IInv, Reported, Passed, Target, Reached, Confirmed
    <2>5. <<j, Target(j)>> \notin Claims
        BY <1>4 DEF Claims
    <2>6. History!Claim(<<j, Target(j)>>)
        BY <1>1, <1>6, <2>3, <2>4, <2>5 DEF History!Claim
    <2> QED
        BY <2>4, <2>6 DEF History!Next
<1> QED
    BY <1>1, <1>7, <1>8

LEMMA HistoryStep ==
    ASSUME DOMAIN Manifest \subseteq Nat, IInv, [Next]_vars
    PROVE  [History!Next]_(History!history)
<1>1. CASE UNCHANGED vars
    BY <1>1 DEF vars, History!history, Confirmed, Claims, Succeeded, Reached, Target
<1>2. \A j \in Jobs : j \in Passed => job[j].pc \in Ended
    BY DEF IInv, Kept
<1>3. ASSUME NEW j \in Jobs, NEW r \in Requested, Validate(j, r)
      PROVE  UNCHANGED History!history
    <2>1. j \notin Passed /\ UNCHANGED <<revision, evidence>>
        BY <1>2, <1>3 DEF Validate, At, Ended
    <2>2. \A k \in Jobs \ {j} : job'[k] = job[k]
        BY <1>3 DEF Validate, IInv, Types
    <2>3. j \notin Passed'
        BY <1>3 DEF Validate, IInv, Types, JobRows, At, Fresh, Passed, Target, Reached
    <2> QED
        BY <2>1, <2>2, <2>3, WorkEnters
<1>4. ASSUME NEW j \in Jobs, Start(j)
      PROVE  UNCHANGED History!history
    <2>1. j \notin Passed /\ UNCHANGED <<revision, evidence>>
        BY <1>2, <1>4 DEF Start, At, Ended
    <2>2. \A k \in Jobs \ {j} : job'[k] = job[k]
        BY <1>4 DEF Start, IInv, Types
    <2>3. j \notin Passed'
        BY <1>4, <2>1 DEF Start, IInv, Types, JobRows, Passed, Target, Reached
    <2> QED
        BY <2>1, <2>2, <2>3, WorkEnters
<1>5. ASSUME NEW j \in Jobs,
             TryLock(j) \/ GiveUp(j) \/ Exit(j) \/ Timeout(j) \/ Disconnected(j) \/ Unlock(j)
               \/ Crash(j) \/ Begin(j) \/ RollBack(j) \/ LoseLock(j)
      PROVE  UNCHANGED History!history
    <2>1. UNCHANGED <<revision, evidence>>
        BY <1>5 DEF TryLock, GiveUp, Exit, Timeout, Disconnected, Unlock, Crash, Begin, RollBack,
                    LoseLock
    <2>2. UNCHANGED job \/ \E pc \in Pcs : Goto(j, pc)
        BY <1>5 DEF TryLock, GiveUp, Exit, Timeout, Disconnected, Unlock, Crash, Begin, RollBack,
                    LoseLock, Pcs
    <2> QED
        BY <2>1, <2>2, MoveEnters
<1>6. ASSUME NEW j \in Jobs, Check(j)
      PROVE  [History!Next]_(History!history)
    <2>1. CASE j \in Passed'
        BY <1>6, <2>1, CheckEnters
    <2>2. CASE j \notin Passed'
        <3>1. j \notin Passed /\ UNCHANGED <<revision, evidence>>
            BY <1>2, <1>6 DEF Check, At, Ended
        <3>2. \A k \in Jobs \ {j} : job'[k] = job[k]
            BY <1>6 DEF Check, IInv, Types, JobRows
        <3> QED
            BY <2>2, <3>1, <3>2, WorkEnters
    <2> QED
        BY <2>1, <2>2
<1>7. ASSUME NEW j \in Jobs, Report(j)
      PROVE  [History!Next]_(History!history)
    BY <1>7, ReportEnters
<1> QED
    BY <1>1, <1>3, <1>4, <1>5, <1>6, <1>7, UpgradeEnters DEF Next

(* Whatever fails, jobs change the schema and report on it as SchemaHistory *)
(* does: upwards, each revision confirmed while it is there and by one job, *)
(* and claimed, however late, only when it was confirmed.                   *)
THEOREM HistoryRefined ==
    ASSUME None \notin Jobs, DOMAIN Manifest \subseteq Nat, Revisions \subseteq Nat
    PROVE  Spec => HistorySpec
<1>1. Init => IInv
    BY Initially
<1>2. IInv /\ [Next]_vars => IInv'
    BY NextKeeps
<1>3. Init => History!Init
    BY DEF Init, History!Init, Confirmed, Reached, Claims, Succeeded
<1>4. IInv /\ [Next]_vars => [History!Next]_(History!history)
    BY HistoryStep
<1> QED
    BY <1>1, <1>2, <1>3, <1>4, PTL DEF Spec, HistorySpec, History!Spec
=============================================================================
