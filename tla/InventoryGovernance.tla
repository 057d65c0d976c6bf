------------------------ MODULE InventoryGovernance ------------------------
(* Carbon inventories from data entry to audit report: activities and       *)
(* calculation runs (services/activities.py, calculations.py), Scope 3      *)
(* dispositions (scope3_governance.py), approvals, locks, restatements and  *)
(* reports (inventory_governance.py).                                       *)
(*                                                                          *)
(* Every handler is one READ COMMITTED transaction without row locks: it    *)
(* reads and decides, then flushes and commits its writes at once.  So a    *)
(* request is a read action, which leaves in request[s] what the handler    *)
(* holds, and a commit action, which writes from it whatever has been       *)
(* committed since.  A handler that refuses, or returns a row it found,     *)
(* changes nothing and has no action.  Roles, evidence, boundaries and      *)
(* factor lineage are inputs.                                               *)
EXTENDS Integers, FiniteSets

CONSTANTS
    Users,           \* principal.subject
    Sessions,        \* requests in flight at once
    Inventories, First,   \* ids of inventories, and the one that is there at the start
    Runs, Approvals, Restatements, Reports,   \* ids of the rows of these tables
    MaxActivities, MaxEdits, MaxPreparations, \* bounds, for each inventory
    None             \* SQL NULL, and "no row"

ASSUME GovernanceAssumption ==
    /\ First \in Inventories
    /\ MaxActivities \in Nat /\ MaxEdits \in Nat /\ MaxPreparations \in Nat
    /\ None \notin Users \union Inventories \union Runs \union Approvals
                   \union Restatements \union Reports
    /\ Approvals \intersect Restatements = {}   \* the entity of an audit event

Frozen   == {"approved", "locked", "superseded"}
Statuses == {"draft", "calculation_failed", "review_required", "restatement_required"}
            \union Frozen

VARIABLES
    \* the rows; an id without a row maps to None
    status,        \* inventory -> its status
    locked_at,     \* inventory -> whether locked_at is set
    data,          \* inventory -> its current activities: how many, and their edits
    disposition,   \* inventory -> its 15 Scope 3 dispositions, prepared as one set
    run, approval, lock, restatement, report,
    trail,         \* the audit events that record a decision or completion
    request        \* session -> the request it serves, with what it has read

rows == <<status, locked_at, data, disposition, run, approval, lock, restatement,
          report, trail>>
vars == <<rows, request>>

NoActivity    == [activities |-> 0, edits |-> 0]
NoDisposition == [set |-> 0, prepared_by |-> None, approved_by |-> None]

Init ==
    /\ status      = [i \in Inventories |-> IF i = First THEN "draft" ELSE None]
    /\ locked_at   = [i \in Inventories |-> FALSE]
    /\ data        = [i \in Inventories |-> NoActivity]
    /\ disposition = [i \in Inventories |-> NoDisposition]
    /\ run         = [r \in Runs |-> None]
    /\ approval    = [a \in Approvals |-> None]
    /\ lock        = [i \in Inventories |-> None]
    /\ restatement = [r \in Restatements |-> None]
    /\ report      = [r \in Reports |-> None]
    /\ trail       = {}
    /\ request     = [s \in Sessions |-> None]

----------------------------------------------------------------------------
(* Requests                                                                 *)

Receive(s, r) == request[s] = None /\ request' = [request EXCEPT ![s] = r] /\ UNCHANGED rows

Serving(s, op) == request[s] # None /\ request[s].op = op

Done(s) == request' = [request EXCEPT ![s] = None]

(* The session rolls back: an error, a timeout, a violated constraint.      *)
Fail(s) == request[s] # None /\ Done(s) /\ UNCHANGED rows

(* An UPDATE carries only the attributes that differ from the loaded row.   *)
Write(i, loaded, new) ==
    status' = IF new = loaded THEN status ELSE [status EXCEPT ![i] = new]

(* The event of a decision on a restatement, or of its completion, names    *)
(* the replacement that the handler holds.                                  *)
Event(action, entity, replacement, by) ==
    [action |-> action, entity |-> entity, replacement |-> replacement, by |-> by]

(* Mutant: the version is the number of rows.                               *)
VersionFromCount(table, i) ==
    Cardinality({x \in DOMAIN table : table[x] # None /\ table[x].inventory = i})

(* max(version) + 1: versions have no gaps                                  *)
NextVersion(table, i) ==
    1 + Cardinality({x \in DOMAIN table : table[x] # None /\ table[x].inventory = i})

(* Mutant: no unique constraint on (inventory_id, version).                 *)
AnyVersion(table, i, v) == i \in Inventories /\ v > 0 /\ table = table

(* the unique constraint on (inventory_id, version) of a table              *)
VersionFree(table, i, v) ==
    \A x \in DOMAIN table :
      table[x] # None => table[x].inventory # i \/ table[x].version # v

(* Bound: a request is received only while the ids and counters it needs    *)
(* last.                                                                    *)
Room(table) == \E x \in DOMAIN table : table[x] = None

----------------------------------------------------------------------------
(* Activities and calculation runs                                          *)

Editable(i) == status[i] \notin Frozen \union {None}

(* create_activity, update_activity: ensure_inventory_editable              *)
ReadEdit(s, i) ==
    /\ Editable(i)
    /\ data[i].activities < MaxActivities \/ data[i].edits < MaxEdits
    /\ Receive(s, [op |-> "edit", inventory |-> i])

AddActivity(i) ==
    /\ data[i].activities < MaxActivities
    /\ data' = [data EXCEPT ![i].activities = @ + 1]

EditActivity(i) ==
    /\ data[i].activities > 0 /\ data[i].edits < MaxEdits
    /\ data' = [data EXCEPT ![i].edits = @ + 1]

CommitEdit(s) ==
    /\ Serving(s, "edit")
    /\ AddActivity(request[s].inventory) \/ EditActivity(request[s].inventory)
    /\ Done(s)
    /\ UNCHANGED <<status, locked_at, disposition, run, approval, lock, restatement,
                   report, trail>>

(* create_and_execute_calculation_run.  CALCULATING is flushed but never    *)
(* committed; the commit writes the outcome over whatever the status is.    *)
ReadCalculate(s, i) ==
    /\ Editable(i)
    /\ data[i].activities > 0
    /\ Room(run)
    /\ Receive(s, [op |-> "calculate", inventory |-> i,
                   version |-> NextVersion(run, i), data |-> data[i]])

CommitCalculate(s, r, completed) ==
    /\ Serving(s, "calculate")
    /\ run[r] = None
    /\ VersionFree(run, request[s].inventory, request[s].version)
    /\ run' = [run EXCEPT ![r] = [inventory |-> request[s].inventory,
                                  version   |-> request[s].version,
                                  completed |-> completed,
                                  data      |-> request[s].data]]
    /\ status' = [status EXCEPT ![request[s].inventory] =
                    IF completed THEN "review_required" ELSE "calculation_failed"]
    /\ Done(s)
    /\ UNCHANGED <<locked_at, data, disposition, approval, lock, restatement, report, trail>>

----------------------------------------------------------------------------
(* Scope 3 dispositions                                                     *)

(* replace_scope3_dispositions: DELETE and INSERT of all categories         *)
ReadPrepare(s, u, i) ==
    /\ Editable(i)
    /\ disposition[i].set < MaxPreparations
    /\ Receive(s, [op |-> "prepare", by |-> u, inventory |-> i])

CommitPrepare(s) ==
    /\ Serving(s, "prepare")
    /\ LET i == request[s].inventory
       IN  /\ disposition[i].set < MaxPreparations
           /\ disposition' = [disposition EXCEPT ![i] =
                [set |-> @.set + 1, prepared_by |-> request[s].by, approved_by |-> None]]
    /\ Done(s)
    /\ UNCHANGED <<status, locked_at, data, run, approval, lock, restatement, report, trail>>

MayApproveScope3(u, i) == disposition[i].set > 0 /\ disposition[i].prepared_by # u

ReadApproveScope3(s, u, i) ==
    /\ MayApproveScope3(u, i)
    /\ Receive(s, [op |-> "approve_scope3", by |-> u, inventory |-> i,
                   set |-> disposition[i].set])

(* its UPDATE touches nothing if the rows it loaded have been replaced      *)
CommitApproveScope3(s) ==
    /\ Serving(s, "approve_scope3")
    /\ LET i == request[s].inventory
       IN  /\ disposition[i].set = request[s].set
           /\ disposition' = [disposition EXCEPT ![i].approved_by = request[s].by]
    /\ Done(s)
    /\ UNCHANGED <<status, locked_at, data, run, approval, lock, restatement, report, trail>>

Scope3Approved(i) == disposition[i].approved_by # None

----------------------------------------------------------------------------
(* Approvals                                                                *)

(* calculation_complete: the run completed, with a result for each of the   *)
(* activities the inventory has now                                         *)
CalculationComplete(r) ==
    /\ run[r].completed
    /\ run[r].data.activities = data[run[r].inventory].activities

OpenApproval(r) ==
    \E a \in Approvals : /\ approval[a] # None /\ approval[a].run = r
                         /\ approval[a].status \in {"pending", "in_review"}

(* create_approval_request looks for an open request first ...              *)
ReadSubmit(s, u, r) ==
    /\ run[r] # None /\ run[r].completed
    /\ status[run[r].inventory] = "review_required"
    /\ Scope3Approved(run[r].inventory)
    /\ ~OpenApproval(r)
    /\ Room(approval)
    /\ Receive(s, [op |-> "submit", by |-> u, run |-> r])

(* ... then takes a version and evaluates the four controls, of which three *)
(* (evidence, boundary, factor lineage) are the input others ...            *)
CheckSubmit(s, others) ==
    /\ Serving(s, "submit")
    /\ LET r == request[s].run
       IN  request' = [request EXCEPT ![s] =
             [op |-> "checked", by |-> @.by, run |-> r,
              version |-> NextVersion(approval, run[r].inventory),
              checks  |-> others /\ CalculationComplete(r)]]
    /\ UNCHANGED rows

CommitSubmit(s, a) ==
    /\ Serving(s, "checked")
    /\ approval[a] = None
    /\ LET r == request[s].run
       IN  /\ VersionFree(approval, run[r].inventory, request[s].version)
           /\ approval' = [approval EXCEPT ![a] =
                [inventory |-> run[r].inventory, run |-> r,
                 version |-> request[s].version, checks |-> request[s].checks,
                 status |-> "pending", requested_by |-> request[s].by,
                 reviewer_id |-> None]]
    /\ Done(s)
    /\ UNCHANGED <<status, locked_at, data, disposition, run, lock, restatement, report, trail>>

(* Mutant: the requester is not compared with the caller.                   *)
AnyoneMayReview(u, a) == u \in Users /\ approval[a] # None /\ approval[a].status = "pending"

MayReview(u, a) ==
    /\ approval[a] # None
    /\ approval[a].status = "pending"
    /\ approval[a].requested_by # u

(* start_approval_review                                                    *)
ReadStart(s, u, a) ==
    /\ MayReview(u, a)
    /\ Receive(s, [op |-> "start", by |-> u, approval |-> a])

CommitStart(s) ==
    /\ Serving(s, "start")
    /\ approval' = [approval EXCEPT ![request[s].approval].status = "in_review",
                                    ![request[s].approval].reviewer_id = request[s].by]
    /\ Done(s)
    /\ UNCHANGED <<status, locked_at, data, disposition, run, lock, restatement, report, trail>>

(* Mutant: approval without looking at the stored controls.                 *)
DecidableUnchecked(u, a, decision) ==
    /\ approval[a] # None /\ decision \in {"approved", "rejected"}
    /\ approval[a].status = "in_review"
    /\ approval[a].reviewer_id = u

MayDecide(u, a, decision) ==
    /\ approval[a] # None
    /\ approval[a].status = "in_review"
    /\ approval[a].reviewer_id = u
    /\ decision = "approved" => approval[a].checks

(* decide_approval: the status of the inventory is not looked at            *)
ReadDecide(s, u, a, decision) ==
    /\ MayDecide(u, a, decision)
    /\ Receive(s, [op |-> "decide", by |-> u, approval |-> a, decision |-> decision,
                   loaded |-> status[approval[a].inventory]])

CommitDecide(s) ==
    /\ Serving(s, "decide")
    /\ LET q == request[s]
       IN  /\ IF q.decision = "approved"
              THEN Write(approval[q.approval].inventory, q.loaded, "approved")
              ELSE UNCHANGED status
           /\ approval' = [approval EXCEPT ![q.approval].status = q.decision]
           /\ trail' = trail \union {Event(q.decision, q.approval, None, q.by)}
    /\ Done(s)
    /\ UNCHANGED <<locked_at, data, disposition, run, lock, restatement, report>>

----------------------------------------------------------------------------
(* Locks                                                                    *)

(* Mutant: the newest approval whatever became of it.                       *)
NewestSubmitted(i, a) ==
    /\ approval[a] # None /\ approval[a].inventory = i
    /\ \A b \in Approvals :
         approval[b] # None /\ approval[b].inventory = i
           => approval[b].version <= approval[a].version

ApprovedFor(i, a) ==
    approval[a] # None /\ approval[a].inventory = i /\ approval[a].status = "approved"

(* ORDER BY version DESC over the approved requests                         *)
NewestApproved(i, a) ==
    /\ ApprovedFor(i, a)
    /\ \A b \in Approvals : ApprovedFor(i, b) => approval[b].version <= approval[a].version

(* lock_inventory                                                           *)
ReadLock(s, i, a) ==
    /\ status[i] = "approved"
    /\ lock[i] = None
    /\ NewestApproved(i, a)
    /\ Receive(s, [op |-> "lock", inventory |-> i, approval |-> a])

(* Mutant: no unique constraint on inventory_id.                            *)
LockTwice(i) == i \in Inventories

(* uq_inventory_lock_inventory                                              *)
LockFree(i) == lock[i] = None

(* lock.data is history: the activities as they were when it was taken      *)
CommitLock(s) ==
    /\ Serving(s, "lock")
    /\ LET q == request[s]
       IN  /\ LockFree(q.inventory)
           /\ lock' = [lock EXCEPT ![q.inventory] =
                [approval |-> q.approval, run |-> approval[q.approval].run,
                 data |-> data[q.inventory]]]
           /\ status' = [status EXCEPT ![q.inventory] = "locked"]
           /\ locked_at' = [locked_at EXCEPT ![q.inventory] = TRUE]
    /\ Done(s)
    /\ UNCHANGED <<data, disposition, run, approval, restatement, report, trail>>

----------------------------------------------------------------------------
(* Restatements                                                             *)

Restatable(i) == status[i] \in {"approved", "locked"}

OpenRestatement(i) ==
    \E r \in Restatements : /\ restatement[r] # None /\ restatement[r].original = i
                            /\ restatement[r].status \in {"requested", "approved"}

(* request_restatement, of an impact that passes the period's threshold or  *)
(* carries a qualitative override                                           *)
ReadRestate(s, u, i) ==
    /\ Restatable(i)
    /\ ~OpenRestatement(i)
    /\ Room(restatement)
    /\ Receive(s, [op |-> "restate", by |-> u, inventory |-> i])

CommitRestate(s, r) ==
    /\ Serving(s, "restate")
    /\ restatement[r] = None
    /\ restatement' = [restatement EXCEPT ![r] =
         [original |-> request[s].inventory, replacement |-> None,
          status |-> "requested", requested_by |-> request[s].by]]
    /\ status' = [status EXCEPT ![request[s].inventory] = "restatement_required"]
    /\ Done(s)
    /\ UNCHANGED <<locked_at, data, disposition, run, approval, lock, report, trail>>

MayJudge(u, r) ==
    /\ restatement[r] # None
    /\ restatement[r].status = "requested"
    /\ restatement[r].requested_by # u

(* decide_restatement                                                       *)
ReadJudge(s, u, r, decision) ==
    /\ MayJudge(u, r)
    /\ Receive(s, [op |-> "judge", by |-> u, restatement |-> r, decision |-> decision,
                   loaded |-> status[restatement[r].original],
                   locked |-> locked_at[restatement[r].original]])

CommitApproveRestatement(s, i) ==
    /\ Serving(s, "judge") /\ request[s].decision = "approved"
    /\ status[i] = None
    /\ LET q == request[s]
           o == restatement[q.restatement].original
       IN  /\ status' = [status EXCEPT ![i] = "draft",
                                       ![o] = IF q.loaded = "superseded" THEN @ ELSE "superseded"]
           /\ restatement' = [restatement EXCEPT ![q.restatement].status = "approved",
                                                 ![q.restatement].replacement = i]
           /\ trail' = trail \union {Event("approved", q.restatement, i, q.by)}
    /\ Done(s)
    /\ UNCHANGED <<locked_at, data, disposition, run, approval, lock, report>>

CommitRejectRestatement(s) ==
    /\ Serving(s, "judge") /\ request[s].decision = "rejected"
    /\ LET q == request[s]
       IN  /\ Write(restatement[q.restatement].original, q.loaded,
                    IF q.locked THEN "locked" ELSE "approved")
           /\ restatement' = [restatement EXCEPT ![q.restatement].status = "rejected"]
           /\ trail' = trail \union {Event("rejected", q.restatement, None, q.by)}
    /\ Done(s)
    /\ UNCHANGED <<locked_at, data, disposition, run, approval, lock, report>>

(* Mutant: the status of the replacement is not looked at.                  *)
HasReplacement(r) ==
    restatement[r] # None /\ restatement[r].status = "approved"

Completable(r) ==
    /\ restatement[r] # None /\ restatement[r].status = "approved"
    /\ restatement[r].replacement # None
    /\ Restatable(restatement[r].replacement)

(* complete_restatement, which anyone may call                              *)
ReadComplete(s, u, r) ==
    /\ Completable(r)
    /\ Receive(s, [op |-> "complete", by |-> u, restatement |-> r,
                   replacement |-> restatement[r].replacement])

CommitComplete(s) ==
    /\ Serving(s, "complete")
    /\ LET q == request[s]
       IN  /\ restatement' = [restatement EXCEPT ![q.restatement].status = "completed"]
           /\ trail' = trail \union {Event("completed", q.restatement, q.replacement, q.by)}
    /\ Done(s)
    /\ UNCHANGED <<status, locked_at, data, disposition, run, approval, lock, report>>

----------------------------------------------------------------------------
(* Audit reports                                                            *)

(* Scope2HeadlineBasis, which the request states; every run is taken to     *)
(* have results of both methods                                             *)
Bases == {"location_based", "market_based"}

(* What the hash of a report tells apart: the payload holds the status and  *)
(* dates of the inventory, its approval and run, its activities, its        *)
(* restatements and the basis of its totals.                                *)
Payload(i, a, basis) ==
    [inventory |-> i, basis |-> basis, status |-> status[i], approval |-> a,
     data |-> data[i],
     history |-> {<<r, restatement[r].status>> : r \in
                    {x \in Restatements : restatement[x] # None
                       /\ i \in {restatement[x].original, restatement[x].replacement}}}]

Reported(payload) == \E r \in Reports : report[r] # None /\ report[r].payload = payload

(* generate_audit_report returns a report with the same hash if there is    *)
(* one, be it a draft and the call a finalization ...                       *)
ReadReport(s, i, a, basis, finalize) ==
    /\ status[i] \in Frozen
    /\ Scope3Approved(i)
    /\ NewestApproved(i, a)
    /\ ~Reported(Payload(i, a, basis))
    /\ Room(report)
    /\ Receive(s, [op |-> "report", inventory |-> i, approval |-> a,
                   payload |-> Payload(i, a, basis), finalize |-> finalize])

(* Mutant: drafts are superseded like final reports.                         *)
ReportsBefore(i) == {r \in Reports : report[r] # None /\ report[r].inventory = i}

FinalReports(i) ==
    {r \in Reports : report[r] # None /\ report[r].inventory = i /\ report[r].status = "final"}

(* ... and takes a version, and the final reports it will supersede         *)
NumberReport(s) ==
    /\ Serving(s, "report")
    /\ LET i == request[s].inventory
       IN  request' = [request EXCEPT ![s] =
             [op |-> "numbered", inventory |-> i, approval |-> @.approval,
              payload |-> @.payload, finalize |-> @.finalize,
              version |-> NextVersion(report, i),
              previous |-> IF @.finalize THEN FinalReports(i) ELSE {}]]
    /\ UNCHANGED rows

CommitReport(s, r) ==
    /\ Serving(s, "numbered")
    /\ report[r] = None
    /\ LET q == request[s]
       IN  /\ VersionFree(report, q.inventory, q.version)
           /\ ~Reported(q.payload)
           /\ report' = [x \in Reports |->
                IF x = r
                THEN [inventory |-> q.inventory, approval |-> q.approval,
                      run |-> approval[q.approval].run, version |-> q.version,
                      payload |-> q.payload,
                      status |-> IF q.finalize THEN "final" ELSE "draft"]
                ELSE IF x \in q.previous THEN [report[x] EXCEPT !.status = "superseded"]
                ELSE report[x]]
    /\ Done(s)
    /\ UNCHANGED <<status, locked_at, data, disposition, run, approval, lock, restatement, trail>>

----------------------------------------------------------------------------
DataRequest(s, i) == ReadEdit(s, i) \/ ReadCalculate(s, i)

Scope3Request(s, u, i) == ReadPrepare(s, u, i) \/ ReadApproveScope3(s, u, i)

ApprovalRequest(s, u) ==
    \/ \E r \in Runs : ReadSubmit(s, u, r)
    \/ \E a \in Approvals : \/ ReadStart(s, u, a)
                            \/ \E d \in {"approved", "rejected"} : ReadDecide(s, u, a, d)

RestatementRequest(s, u) ==
    \/ \E i \in Inventories : ReadRestate(s, u, i)
    \/ \E r \in Restatements : \/ ReadComplete(s, u, r)
                               \/ \E d \in {"approved", "rejected"} : ReadJudge(s, u, r, d)

Read(s) ==
    \/ \E i \in Inventories : DataRequest(s, i)
    \/ \E u \in Users, i \in Inventories : Scope3Request(s, u, i)
    \/ \E u \in Users : ApprovalRequest(s, u) \/ RestatementRequest(s, u)
    \/ \E i \in Inventories, a \in Approvals :
         \/ ReadLock(s, i, a)
         \/ \E b \in Bases, f \in BOOLEAN : ReadReport(s, i, a, b, f)
    \/ \E others \in BOOLEAN : CheckSubmit(s, others)
    \/ NumberReport(s)

Commit(s) ==
    \/ CommitEdit(s)
    \/ \E r \in Runs, c \in BOOLEAN : CommitCalculate(s, r, c)
    \/ CommitPrepare(s) \/ CommitApproveScope3(s)
    \/ \E a \in Approvals : CommitSubmit(s, a)
    \/ CommitStart(s) \/ CommitDecide(s)
    \/ CommitLock(s)
    \/ \E r \in Restatements : CommitRestate(s, r)
    \/ \E i \in Inventories : CommitApproveRestatement(s, i)
    \/ CommitRejectRestatement(s) \/ CommitComplete(s)
    \/ \E r \in Reports : CommitReport(s, r)

Next == \E s \in Sessions : Read(s) \/ Commit(s) \/ Fail(s)

Spec == Init /\ [][Next]_vars
----------------------------------------------------------------------------
Versions == Nat \ {0}

Data == [activities : Nat, edits : Nat]

Payloads ==
    [inventory : Inventories, basis : Bases, status : Frozen, approval : Approvals,
     data : Data,
     history : SUBSET (Restatements \X {"requested", "approved", "rejected", "completed"})]

RunRows == [inventory : Inventories, version : Versions, completed : BOOLEAN, data : Data]

ApprovalRows ==
    [inventory : Inventories, run : Runs, version : Versions, checks : BOOLEAN,
     status : {"pending", "in_review", "approved", "rejected"},
     requested_by : Users, reviewer_id : Users \union {None}]

RestatementRows ==
    [original : Inventories, replacement : Inventories \union {None},
     status : {"requested", "approved", "rejected", "completed"}, requested_by : Users]

ReportRows ==
    [inventory : Inventories, approval : Approvals, run : Runs, version : Versions,
     payload : Payloads, status : {"draft", "final", "superseded"}]

LockRows == [approval : Approvals, run : Runs, data : Data]

ASSUME NullAssumption ==
    None \notin Statuses \union RunRows \union ApprovalRows \union LockRows
               \union RestatementRows \union ReportRows

Decisions == {"approved", "rejected"}

Requests ==
    [op : {"edit"}, inventory : Inventories]
    \union [op : {"calculate"}, inventory : Inventories, version : Versions, data : Data]
    \union [op : {"prepare"}, by : Users, inventory : Inventories]
    \union [op : {"approve_scope3"}, by : Users, inventory : Inventories, set : Nat]
    \union [op : {"submit"}, by : Users, run : Runs]
    \union [op : {"checked"}, by : Users, run : Runs, version : Versions, checks : BOOLEAN]
    \union [op : {"start"}, by : Users, approval : Approvals]
    \union [op : {"decide"}, by : Users, approval : Approvals, decision : Decisions,
            loaded : Statuses]
    \union [op : {"lock"}, inventory : Inventories, approval : Approvals]
    \union [op : {"restate"}, by : Users, inventory : Inventories]
    \union [op : {"judge"}, by : Users, restatement : Restatements, decision : Decisions,
            loaded : Statuses, locked : BOOLEAN]
    \union [op : {"complete"}, by : Users, restatement : Restatements,
            replacement : Inventories]
    \union [op : {"report"}, inventory : Inventories, approval : Approvals,
            payload : Payloads, finalize : BOOLEAN]
    \union [op : {"numbered"}, inventory : Inventories, approval : Approvals,
            payload : Payloads, finalize : BOOLEAN, version : Versions,
            previous : SUBSET Reports]

TypeOK ==
    /\ status      \in [Inventories -> Statuses \union {None}]
    /\ locked_at   \in [Inventories -> BOOLEAN]
    /\ data        \in [Inventories -> Data]
    /\ disposition \in [Inventories -> [set : Nat, prepared_by : Users \union {None},
                                        approved_by : Users \union {None}]]
    /\ run         \in [Runs -> RunRows \union {None}]
    /\ approval    \in [Approvals -> ApprovalRows \union {None}]
    /\ lock        \in [Inventories -> LockRows \union {None}]
    /\ restatement \in [Restatements -> RestatementRows \union {None}]
    /\ report      \in [Reports -> ReportRows \union {None}]
    /\ trail \subseteq [action : Decisions \union {"completed"},
                       entity : Approvals \union Restatements,
                       replacement : Inventories \union {None}, by : Users]
    /\ request     \in [Sessions -> Requests \union {None}]

----------------------------------------------------------------------------
(* Properties                                                               *)

Decided(action, entity) == \E e \in trail : e.action = action /\ e.entity = entity

(* Nobody decides on what they asked for or prepared, whatever requests     *)
(* overlap: the decision of an approval or restatement is never recorded    *)
(* for its requester, nor that of a set of dispositions for its preparer.   *)
SegregationOfDuties ==
    /\ \A e \in trail : e.action \in Decisions =>
         /\ e.entity \in Approvals => approval[e.entity].requested_by # e.by
         /\ e.entity \in Restatements => restatement[e.entity].requested_by # e.by
    /\ \A i \in Inventories :
         Scope3Approved(i) => disposition[i].approved_by # disposition[i].prepared_by

(* An inventory is approved, locked, under restatement or superseded only   *)
(* after a recorded approval, with all controls passed, of one of its own   *)
(* completed runs; and superseded only by an approved restatement that      *)
(* names a replacement.                                                     *)
Released(i) ==
    \E a \in Approvals :
      /\ approval[a] # None /\ approval[a].inventory = i /\ approval[a].checks
      /\ run[approval[a].run] # None
      /\ run[approval[a].run].inventory = i /\ run[approval[a].run].completed
      /\ Decided("approved", a)

Replaced(i) ==
    \E r \in Restatements :
      /\ restatement[r] # None /\ restatement[r].original = i
      /\ restatement[r].replacement # None
      /\ Decided("approved", r)

StatusBacked ==
    \A i \in Inventories :
      /\ status[i] \in Frozen \union {"restatement_required"} => Released(i)
      /\ status[i] = "superseded" => Replaced(i)

(* A lock rests on an approval of its own inventory that was approved, and  *)
(* names the run of that approval; locked_at and the LOCKED status, which a *)
(* rejected restatement restores, never appear without one.                 *)
LockLineage ==
    \A i \in Inventories :
      /\ locked_at[i] <=> lock[i] # None
      /\ status[i] = "locked" => lock[i] # None
      /\ lock[i] # None =>
           /\ approval[lock[i].approval] # None
           /\ approval[lock[i].approval].inventory = i
           /\ approval[lock[i].approval].run = lock[i].run
           /\ Decided("approved", lock[i].approval)

(* The lock record of an inventory is immutable: no later request, racing   *)
(* or not, replaces or removes it.                                          *)
LockKept == \A i \in Inventories : lock[i] # None => lock'[i] = lock[i]

LocksImmutable == [][LockKept]_vars

(* An inventory has at most one FINAL report, newer than any superseded one *)
(* and based on an approval that was approved, although finalizations read  *)
(* the previous reports without a lock.                                     *)
OneFinalReport ==
    \A x \in Reports : report[x] # None =>
      /\ Decided("approved", report[x].approval)
      /\ report[x].status = "final" =>
           \A y \in Reports \ {x} :
             report[y] # None /\ report[y].inventory = report[x].inventory =>
               /\ report[y].status # "final"
               /\ report[y].status = "superseded" => report[y].version < report[x].version

(* Completion requires the replacement to be approved or locked: whatever   *)
(* requests overlap, each completion was recorded for a replacement that an *)
(* approval of the same restatement created and that was released, and a    *)
(* completed restatement has such a record.  Its row may name another       *)
(* replacement only if its approval was recorded for that one, too          *)
(* (inventory_governance.py:796, :862).                                     *)
Named(r, i) ==
    \E e \in trail : e.action = "approved" /\ e.entity = r /\ e.replacement = i

CompletionBacked ==
    /\ \A e \in trail : e.action = "completed" =>
         /\ Released(e.replacement)
         /\ Named(e.entity, e.replacement)
         /\ e.replacement # restatement[e.entity].original
    /\ \A r \in Restatements : restatement[r] # None /\ restatement[r].status = "completed" =>
         Decided("completed", r) /\ Named(r, restatement[r].replacement)

(* What the tables and the trail say, entered in the book of                *)
(* GovernanceLedger                                                         *)
ApprovedPairs ==
    {p \in Approvals \X Inventories :
       approval[p[1]] # None /\ approval[p[1]].inventory = p[2] /\ Decided("approved", p[1])}

LockedOn == [i \in Inventories |-> IF lock[i] = None THEN None ELSE lock[i].approval]

Replacements ==
    {<<e.entity, restatement[e.entity].original, e.replacement>> :
       e \in {d \in trail : d.action = "approved" /\ d.entity \in Restatements}}

Completions == {<<e.entity, e.replacement>> : e \in {d \in trail : d.action = "completed"}}

Edition(x) == [inventory |-> x.inventory, version |-> x.version, approval |-> x.approval,
               status |-> x.status]

Editions == {Edition(report[x]) : x \in {y \in Reports : report[y] # None}}

Ledger == INSTANCE GovernanceLedger
    WITH approved <- ApprovedPairs, locked <- LockedOn, replaced <- Replacements,
         completed <- Completions, editions <- Editions

(* Requests that overlap leave the book as requests one after another would:*)
(* each commit adds one entry that is in order, or none.                    *)
LedgerSpec == Ledger!Spec

(* "A locked inventory cannot be edited or recalculated": while it is       *)
(* LOCKED its activities are those it was locked with.                      *)
LockedUnchanged ==
    \A i \in Inventories : status[i] = "locked" => data[i] = lock[i].data

(* "Only the assigned reviewer can approve or reject it": the decision on a *)
(* decided approval was recorded for its reviewer_id.                       *)
DecidedByAssigned ==
    \A a \in Approvals :
      approval[a] # None /\ approval[a].status \in Decisions =>
        Event(approval[a].status, a, None, approval[a].reviewer_id) \in trail

(* "Approved or locked inventories are never overwritten. A restatement      *)
(* records ...": once locked, an inventory is LOCKED until a restatement of *)
(* it has been requested.                                                   *)
LockedUntilRestated ==
    \A i \in Inventories :
      locked_at[i] =>
        \/ status[i] = "locked"
        \/ \E r \in Restatements : restatement[r] # None /\ restatement[r].original = i
=============================================================================
