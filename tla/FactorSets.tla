----------------------------- MODULE FactorSets -----------------------------
(* Emission factor sets: import, approval and supersession                  *)
(* (services/emission_factors.py), and the resolutions that are persisted   *)
(* (services/factor_resolution.py).  A workbook is its dataset version and  *)
(* hash; it is refused before anything is stored, has rows in error, or     *)
(* yields the factors of a set.                                             *)
EXTENDS Requests, Sequences, FiniteSets

CONSTANTS
    Sources,         \* <<dataset version, source hash>> of the workbooks
    Faulty,          \* those with rows in error
    Principals

VARIABLES
    sets,            \* sequence of EmissionFactorSet rows
    jobs,            \* sequence of FactorImportJob rows
    records,         \* sequence of FactorResolutionRecord rows
    crossings        \* history: supersessions whose replacement was superseded meanwhile,
                     \* and approvals of a set that was

rows == <<sets, jobs, records, crossings>>
vars == <<rows, requests>>

Init == sets = <<>> /\ jobs = <<>> /\ records = <<>> /\ crossings = 0 /\ InitRequests

SetsOf(source) == {n \in DOMAIN sets : sets[n].source = source}
Approved == {n \in DOMAIN sets : sets[n].status = "approved"}

(* import_uk_factor_workbook: is the source there already?                  *)
LoadImport(s, source, p) ==
    /\ Receive(s, [op |-> "import", source |-> source, principal |-> p,
                   existing |-> SetsOf(source)])
    /\ UNCHANGED rows

(* Mutant: the job names the set that will be next.                         *)
JobOfNext(status, source, set) == [status |-> status, source |-> source, set |-> set + 1]

Job(status, source, set) == [status |-> status, source |-> source, set |-> set]

CommitDuplicate(s) ==
    LET q == request[s] IN
    /\ Serving(s, "import") /\ q.existing # {}
    /\ \E n \in q.existing : jobs' = Append(jobs, Job("duplicate", q.source, n))
    /\ Done(s)
    /\ UNCHANGED <<sets, records, crossings>>

CommitFaulty(s) ==
    LET q == request[s] IN
    /\ Serving(s, "import") /\ q.existing = {} /\ q.source \in Faulty
    /\ jobs' = Append(jobs, Job("failed", q.source, 0))
    /\ Done(s)
    /\ UNCHANGED <<sets, records, crossings>>

(* uq_factor_set_source_version_hash                                        *)
SourceFree(source) == SetsOf(source) = {}

(* The job, the set and its factors in one commit.                          *)
CommitImport(s) ==
    LET q == request[s] IN
    /\ Serving(s, "import") /\ q.existing = {} /\ q.source \notin Faulty
    /\ SourceFree(q.source)
    /\ sets' = Append(sets, [source |-> q.source, importer |-> q.principal, status |-> "draft",
                             approver |-> None, by |-> 0])
    /\ jobs' = Append(jobs, Job("completed", q.source, Len(sets) + 1))
    /\ Done(s)
    /\ UNCHANGED <<records, crossings>>

(* approve_factor_set: a draft, by someone else; an imported set has factors*)
LoadApprove(s, n, p) ==
    /\ sets[n].status = "draft" /\ sets[n].importer # p
    /\ Receive(s, [op |-> "approve", set |-> n, loaded |-> sets[n],
                   changed |-> [status |-> "approved", approver |-> p]])
    /\ UNCHANGED rows

(* Mutant: a draft may replace a set.                                       *)
NotDrafted(r) == sets[r].source \in Sources

(* supersede_factor_set: the replacement is approved                        *)
Replaces(r) == sets[r].status = "approved"

LoadSupersede(s, n, r) ==
    /\ n # r /\ sets[n].status = "approved" /\ Replaces(r)
    /\ Receive(s, [op |-> "supersede", set |-> n, loaded |-> sets[n],
                   changed |-> [status |-> "superseded", by |-> r]])
    /\ UNCHANGED rows

(* Another approval or supersession of the set may have come first.         *)
CommitStatus(s) ==
    LET q == request[s] IN
    /\ request[s] # None /\ q.op \in {"approve", "supersede"}
    /\ sets' = [sets EXCEPT ![q.set] = Update(@, q.loaded, q.changed)]
    /\ crossings' = IF sets[IF q.op = "supersede" THEN q.changed.by ELSE q.set].status = "superseded"
                    THEN crossings + 1 ELSE crossings
    /\ Done(s)
    /\ UNCHANGED <<jobs, records>>

(* resolve_emission_factor, persisted: a factor of a set that is approved,  *)
(* or no factor.  FactorResolution models which one.                        *)
LoadResolve(s) ==
    /\ \E n \in Approved \union {0} : Receive(s, [op |-> "resolve", set |-> n])
    /\ UNCHANGED rows

CommitResolve(s) ==
    /\ Serving(s, "resolve")
    /\ records' = Append(records, request[s].set)
    /\ Done(s)
    /\ UNCHANGED <<sets, jobs, crossings>>

Abandon(s) == Fail(s) /\ UNCHANGED rows

Next ==
    \E s \in Sessions :
       \/ \E source \in Sources, p \in Principals : LoadImport(s, source, p)
       \/ \E n \in DOMAIN sets :
             \/ \E p \in Principals : LoadApprove(s, n, p)
             \/ \E r \in DOMAIN sets : LoadSupersede(s, n, r)
       \/ LoadResolve(s)
       \/ CommitDuplicate(s) \/ CommitFaulty(s) \/ CommitImport(s)
       \/ CommitStatus(s) \/ CommitResolve(s) \/ Abandon(s)

Spec == Init /\ [][Next]_vars

----------------------------------------------------------------------------
SetRows == [source : Sources, importer : Principals,
            status : {"draft", "approved", "superseded"},
            approver : Principals \union {None}, by : Nat]

JobRows == [status : {"duplicate", "failed", "completed"}, source : Sources, set : Nat]

TypeOK ==
    /\ sets \in Seq(SetRows) /\ jobs \in Seq(JobRows) /\ records \in Seq(Nat)
    /\ \A n \in DOMAIN sets : sets[n].by <= Len(sets)
    /\ \A j \in DOMAIN jobs : jobs[j].set \in 0 .. Len(sets)
    /\ \A r \in DOMAIN records : records[r] \in 0 .. Len(sets)

(* The set that stands in for n, following at most k supersessions.         *)
Successor(n) ==
    LET next[k \in 0 .. Len(sets)] ==
          IF k = 0 THEN n
          ELSE IF sets[next[k - 1]].by = 0 THEN next[k - 1] ELSE sets[next[k - 1]].by
    IN  next[Len(sets)]

(* What a superseded set leads to is an approved set, and every resolution  *)
(* that was persisted can be traced to one, unless two supersessions crossed*)
(* or an approval that was overtaken put a superseded set back in force, in *)
(* which case two sets may lead to each other (emission_factors.py:308-398).*)
SupersessionEnds ==
    crossings = 0 =>
      /\ \A n \in DOMAIN sets : sets[n].status # "draft" => sets[Successor(n)].status = "approved"
      /\ \A r \in DOMAIN records : records[r] # 0 => sets[Successor(records[r])].status = "approved"
=============================================================================
