---------------------- MODULE InventoryGovernanceProofs ----------------------
(* Safety of inventory governance for every set of users, sessions and row  *)
(* ids and any number of overlapping requests: segregation of duties, the   *)
(* approval behind every released status, the lineage of locks and their    *)
(* immutability, the single FINAL report, the released replacement behind   *)
(* every completion; and that all of it is the book of GovernanceLedger.    *)
(*                                                                          *)
(* A commit acts on what its request read earlier.  The argument is that    *)
(* the tables only grow in what such a request relies on (Grows, which      *)
(* every step satisfies): what a request found stays true until it commits  *)
(* (Holds), and that is enough to keep the rows in order (Backed).          *)
EXTENDS InventoryGovernance, FiniteSetTheorems, TLAPS

RowsOf(table, i) == {x \in DOMAIN table : table[x] # None /\ table[x].inventory = i}

Present(table) == {x \in DOMAIN table : table[x] # None}

FiniteTables ==
    IsFiniteSet(Present(run)) /\ IsFiniteSet(Present(approval)) /\ IsFiniteSet(Present(report))

RunsBacked == \A r \in Runs : run[r] # None => status[run[r].inventory] # None

(* An approval is of a completed run of its inventory, is not reviewed by   *)
(* its requester, and is approved only with its controls and an audit event.*)
ApprovalsBacked ==
    \A a \in Approvals : approval[a] # None =>
      /\ run[approval[a].run] # None
      /\ run[approval[a].run].inventory = approval[a].inventory
      /\ run[approval[a].run].completed
      /\ approval[a].reviewer_id # approval[a].requested_by
      /\ approval[a].status = "approved" => approval[a].checks /\ Decided("approved", a)

DecisionsBacked ==
    \A e \in trail :
      /\ e.entity \in Approvals =>
           /\ approval[e.entity] # None
           /\ approval[e.entity].requested_by # e.by
           /\ e.action = "approved" => approval[e.entity].checks
      /\ e.entity \in Restatements =>
           /\ restatement[e.entity] # None
           /\ e.action \in Decisions => restatement[e.entity].requested_by # e.by

RestatementsBacked ==
    \A r \in Restatements : restatement[r] # None =>
      Released(restatement[r].original) /\ status[restatement[r].original] # None

(* The reports of an inventory are numbered 1 .. n.                         *)
ReportsNumbered ==
    \A i \in Inventories :
      {report[x].version : x \in RowsOf(report, i)} = 1 .. NextVersion(report, i) - 1

Backed ==
    /\ FiniteTables
    /\ RunsBacked
    /\ ApprovalsBacked
    /\ DecisionsBacked
    /\ RestatementsBacked
    /\ ReportsNumbered
    /\ SegregationOfDuties
    /\ StatusBacked
    /\ LockLineage
    /\ OneFinalReport

(* What a request in flight relies on, read by it or found when it began.   *)
Holds(q) ==
    /\ q.op = "approve_scope3" =>
         /\ q.set <= disposition[q.inventory].set
         /\ q.set = disposition[q.inventory].set => disposition[q.inventory].prepared_by # q.by
    /\ q.op \in {"submit", "checked"} => run[q.run] # None /\ run[q.run].completed
    /\ q.op \in {"start", "decide"} =>
         approval[q.approval] # None /\ approval[q.approval].requested_by # q.by
    /\ q.op = "decide" /\ q.decision = "approved" => approval[q.approval].checks
    /\ q.op \in {"lock", "report", "numbered"} =>
         /\ approval[q.approval] # None /\ approval[q.approval].inventory = q.inventory
         /\ Decided("approved", q.approval)
    /\ q.op = "restate" => Released(q.inventory) /\ status[q.inventory] # None
    /\ q.op = "judge" =>
         /\ restatement[q.restatement] # None
         /\ restatement[q.restatement].requested_by # q.by
         /\ q.locked => locked_at[restatement[q.restatement].original]
    /\ q.op = "complete" => restatement[q.restatement] # None
    /\ q.op = "numbered" =>
         /\ q.version <= NextVersion(report, q.inventory)
         /\ q.version = NextVersion(report, q.inventory) =>
              q.previous = IF q.finalize THEN FinalReports(q.inventory) ELSE {}

RequestsHold == \A s \in Sessions : request[s] # None => Holds(request[s])

IInv == TypeOK /\ Backed /\ RequestsHold

(* What no step takes back.                                                 *)
Grows ==
    /\ \A r \in Runs : run[r] # None => run'[r] = run[r]
    /\ \A a \in Approvals : approval[a] # None =>
         /\ approval'[a] # None
         /\ approval'[a].inventory = approval[a].inventory
         /\ approval'[a].run = approval[a].run
         /\ approval'[a].checks = approval[a].checks
         /\ approval'[a].requested_by = approval[a].requested_by
    /\ \A r \in Restatements : restatement[r] # None =>
         /\ restatement'[r] # None
         /\ restatement'[r].original = restatement[r].original
         /\ restatement'[r].requested_by = restatement[r].requested_by
         /\ restatement[r].replacement # None => restatement'[r].replacement # None
    /\ trail \subseteq trail'
    /\ \A i \in Inventories :
         /\ status[i] # None => status'[i] # None
         /\ locked_at[i] => locked_at'[i]
         /\ lock[i] # None => lock'[i] = lock[i]
         /\ disposition[i].set <= disposition'[i].set
         /\ disposition[i].set = disposition'[i].set =>
              disposition[i].prepared_by = disposition'[i].prepared_by
         /\ NextVersion(report, i) <= NextVersion(report, i)'
         /\ NextVersion(report, i) = NextVersion(report, i)' =>
              FinalReports(i) = FinalReports(i)'
----------------------------------------------------------------------------
(* Versions and requests                                                    *)

(* A version is one more than the number of rows.                           *)
LEMMA NextVersionType ==
  ASSUME NEW table, IsFiniteSet(Present(table)), NEW i
  PROVE  /\ IsFiniteSet(RowsOf(table, i))
         /\ NextVersion(table, i) = 1 + Cardinality(RowsOf(table, i))
         /\ NextVersion(table, i) \in Versions
<1>1. RowsOf(table, i) \in SUBSET Present(table)
  BY DEF RowsOf, Present
<1>2. IsFiniteSet(RowsOf(table, i)) /\ Cardinality(RowsOf(table, i)) \in Nat
  BY <1>1, FS_Subset, FS_CardinalityType
<1>3. NextVersion(table, i) = 1 + Cardinality(RowsOf(table, i))
  BY DEF NextVersion, RowsOf
<1> QED
  BY <1>2, <1>3 DEF Versions

(* The fields a request carries.                                            *)
LEMMA RequestTypes ==
  ASSUME NEW q \in Requests
  PROVE  /\ q.op \in {"edit", "calculate", "prepare", "approve_scope3", "lock", "restate",
                      "report", "numbered"} => q.inventory \in Inventories
         /\ q.op \in {"prepare", "approve_scope3", "submit", "checked", "start", "decide",
                      "restate", "judge", "complete"} => q.by \in Users
         /\ q.op \in {"submit", "checked"} => q.run \in Runs
         /\ q.op \in {"start", "decide", "lock", "report", "numbered"} =>
              q.approval \in Approvals
         /\ q.op \in {"judge", "complete"} => q.restatement \in Restatements
         /\ q.op \in {"decide", "judge"} => q.decision \in Decisions /\ q.loaded \in Statuses
         /\ q.op = "calculate" => q.version \in Versions /\ q.data \in Data
         /\ q.op = "approve_scope3" => q.set \in Nat
         /\ q.op = "checked" => q.version \in Versions /\ q.checks \in BOOLEAN
         /\ q.op = "judge" => q.locked \in BOOLEAN
         /\ q.op = "complete" => q.replacement \in Inventories
         /\ q.op \in {"report", "numbered"} => q.payload \in Payloads /\ q.finalize \in BOOLEAN
         /\ q.op = "numbered" => q.version \in Versions /\ q.previous \in SUBSET Reports
<1>1. CASE q \in [op : {"edit"}, inventory : Inventories]
                 \union [op : {"prepare"}, by : Users, inventory : Inventories]
                 \union [op : {"restate"}, by : Users, inventory : Inventories]
  BY <1>1
<1>2. CASE q \in [op : {"calculate"}, inventory : Inventories, version : Versions, data : Data]
                 \union [op : {"approve_scope3"}, by : Users, inventory : Inventories,
                         set : Nat]
  BY <1>2
<1>3. CASE q \in [op : {"submit"}, by : Users, run : Runs]
                 \union [op : {"checked"}, by : Users, run : Runs, version : Versions,
                         checks : BOOLEAN]
  BY <1>3
<1>4. CASE q \in [op : {"start"}, by : Users, approval : Approvals]
                 \union [op : {"decide"}, by : Users, approval : Approvals,
                         decision : Decisions, loaded : Statuses]
                 \union [op : {"lock"}, inventory : Inventories, approval : Approvals]
  BY <1>4
<1>5. CASE q \in [op : {"judge"}, by : Users, restatement : Restatements,
                  decision : Decisions, loaded : Statuses, locked : BOOLEAN]
                 \union [op : {"complete"}, by : Users, restatement : Restatements,
                         replacement : Inventories]
  BY <1>5
<1>6. CASE q \in [op : {"report"}, inventory : Inventories, approval : Approvals,
                  payload : Payloads, finalize : BOOLEAN]
                 \union [op : {"numbered"}, inventory : Inventories, approval : Approvals,
                         payload : Payloads, finalize : BOOLEAN, version : Versions,
                         previous : SUBSET Reports]
  BY <1>6
<1> QED
  BY <1>1, <1>2, <1>3, <1>4, <1>5, <1>6 DEF Requests

(* An approval with its audit event releases its inventory.                 *)
LEMMA ReleasedBy ==
  ASSUME ApprovalsBacked, DecisionsBacked,
         NEW a \in Approvals, approval[a] # None, Decided("approved", a)
  PROVE  Released(approval[a].inventory)
BY DEF ApprovalsBacked, DecisionsBacked, Decided, Released

----------------------------------------------------------------------------
(* What growing tables keep                                                 *)

LEMMA ReleasedKept ==
  ASSUME TypeOK, Grows, NEW i \in Inventories
  PROVE  /\ Released(i) => Released(i)'
         /\ Replaced(i) => Replaced(i)'
         /\ \A d, x : Decided(d, x) => Decided(d, x)'
<1>1. ASSUME NEW d, NEW x, Decided(d, x)
      PROVE  Decided(d, x)'
  BY <1>1 DEF Decided, Grows
<1>2. ASSUME Released(i)
      PROVE  Released(i)'
  <2>1. PICK a \in Approvals :
          /\ approval[a] # None /\ approval[a].inventory = i /\ approval[a].checks
          /\ run[approval[a].run] # None
          /\ run[approval[a].run].inventory = i /\ run[approval[a].run].completed
          /\ Decided("approved", a)
    BY <1>2 DEF Released
  <2>2. approval[a].run \in Runs
    BY <2>1 DEF TypeOK, ApprovalRows
  <2>3. /\ approval'[a] # None /\ approval'[a].inventory = i /\ approval'[a].checks
        /\ approval'[a].run = approval[a].run
        /\ run'[approval[a].run] = run[approval[a].run]
    BY <2>1, <2>2 DEF Grows
  <2> QED
    BY <2>1, <2>3, <1>1 DEF Released
<1>3. ASSUME Replaced(i)
      PROVE  Replaced(i)'
  BY <1>1, <1>3 DEF Replaced, Grows
<1> QED
  BY <1>1, <1>2, <1>3

(* What a request found stays true until it commits.                        *)
LEMMA HoldsKept ==
  ASSUME TypeOK, Grows, FiniteTables, FiniteTables', NEW q \in Requests, Holds(q),
         disposition' \in [Inventories -> [set : Nat, prepared_by : Users \union {None},
                                           approved_by : Users \union {None}]]
  PROVE  Holds(q)'
<1>1. q.op = "approve_scope3" =>
        /\ q.set <= disposition'[q.inventory].set
        /\ q.set = disposition'[q.inventory].set =>
             disposition'[q.inventory].prepared_by # q.by
  <2>1. SUFFICES ASSUME q.op = "approve_scope3"
                 PROVE  /\ q.set <= disposition'[q.inventory].set
                        /\ q.set = disposition'[q.inventory].set =>
                             disposition'[q.inventory].prepared_by # q.by
    OBVIOUS
  <2>2. /\ q.inventory \in Inventories /\ q.set \in Nat
        /\ disposition[q.inventory].set \in Nat /\ disposition'[q.inventory].set \in Nat
    BY <2>1, RequestTypes DEF TypeOK
  <2>3. /\ q.set <= disposition[q.inventory].set
        /\ q.set = disposition[q.inventory].set =>
             disposition[q.inventory].prepared_by # q.by
    BY <2>1 DEF Holds
  <2>4. /\ disposition[q.inventory].set <= disposition'[q.inventory].set
        /\ disposition[q.inventory].set = disposition'[q.inventory].set =>
             disposition[q.inventory].prepared_by = disposition'[q.inventory].prepared_by
    BY <2>2 DEF Grows
  <2> QED
    BY <2>2, <2>3, <2>4
<1>2. q.op \in {"submit", "checked"} => run'[q.run] # None /\ run'[q.run].completed
  BY RequestTypes DEF Holds, Grows
<1>3. /\ q.op \in {"start", "decide"} =>
           approval'[q.approval] # None /\ approval'[q.approval].requested_by # q.by
      /\ q.op = "decide" /\ q.decision = "approved" => approval'[q.approval].checks
  BY RequestTypes DEF Holds, Grows
<1>4. q.op \in {"lock", "report", "numbered"} =>
        /\ approval'[q.approval] # None /\ approval'[q.approval].inventory = q.inventory
        /\ Decided("approved", q.approval)'
  BY RequestTypes, ReleasedKept DEF Holds, Grows
<1>5. q.op = "restate" => Released(q.inventory)' /\ status'[q.inventory] # None
  BY RequestTypes, ReleasedKept DEF Holds, Grows
<1>6. q.op = "judge" =>
        /\ restatement'[q.restatement] # None
        /\ restatement'[q.restatement].requested_by # q.by
        /\ q.locked => locked_at'[restatement'[q.restatement].original]
  <2>1. SUFFICES ASSUME q.op = "judge"
                 PROVE  /\ restatement'[q.restatement] # None
                        /\ restatement'[q.restatement].requested_by # q.by
                        /\ q.locked => locked_at'[restatement'[q.restatement].original]
    OBVIOUS
  <2>2. q.restatement \in Restatements /\ restatement[q.restatement] # None
    BY <2>1, RequestTypes DEF Holds
  <2>3. restatement[q.restatement].original \in Inventories
    BY <2>2 DEF TypeOK, RestatementRows
  <2> QED
    BY <2>1, <2>2, <2>3 DEF Holds, Grows
<1>7. q.op = "complete" => restatement'[q.restatement] # None
  BY RequestTypes DEF Holds, Grows
<1>8. q.op = "numbered" =>
        /\ q.version <= NextVersion(report, q.inventory)'
        /\ q.version = NextVersion(report, q.inventory)' =>
             q.previous = IF q.finalize THEN FinalReports(q.inventory)' ELSE {}
  <2>1. SUFFICES ASSUME q.op = "numbered"
                 PROVE  /\ q.version <= NextVersion(report, q.inventory)'
                        /\ q.version = NextVersion(report, q.inventory)' =>
                             q.previous = IF q.finalize THEN FinalReports(q.inventory)' ELSE {}
    OBVIOUS
  <2>2. q.inventory \in Inventories /\ q.version \in Nat
    BY <2>1, RequestTypes DEF Versions
  <2>3. NextVersion(report, q.inventory) \in Nat
    BY NextVersionType DEF FiniteTables, Versions
  <2>4. NextVersion(report, q.inventory)' \in Nat
    BY NextVersionType DEF FiniteTables, Versions
  <2> DEFINE n == NextVersion(report, q.inventory)
             f == FinalReports(q.inventory)
  <2>5. /\ q.version <= n
        /\ q.version = n => q.previous = IF q.finalize THEN f ELSE {}
        /\ n <= n' /\ (n = n' => f = f')
    BY <2>1, <2>2 DEF Holds, Grows
  <2> HIDE DEF n, f
  <2>6. n \in Nat /\ n' \in Nat
    BY <2>3, <2>4 DEF n
  <2>7. q.version <= n' /\ (q.version = n' => q.previous = IF q.finalize THEN f' ELSE {})
    BY <2>2, <2>5, <2>6
  <2> QED
    BY <2>7 DEF n, f
<1> QED
  BY <1>1, <1>2, <1>3, <1>4, <1>5, <1>6, <1>7, <1>8 DEF Holds
(* What is in order stays so while its own table is not written.            *)
LEMMA Undisturbed ==
  ASSUME TypeOK, Backed, Grows
  PROVE  /\ run' = run => RunsBacked'
         /\ approval' = approval => ApprovalsBacked'
         /\ trail' = trail => DecisionsBacked'
         /\ restatement' = restatement => RestatementsBacked'
         /\ report' = report => ReportsNumbered' /\ OneFinalReport'
         /\ status' = status => StatusBacked'
         /\ UNCHANGED <<status, locked_at, lock>> => LockLineage'
         /\ disposition' = disposition /\ DecisionsBacked' => SegregationOfDuties'
         /\ UNCHANGED <<run, approval, report>> => FiniteTables'
<1> USE DEF Backed
<1>0. ASSUME run' = run
      PROVE  RunsBacked'
  BY <1>0 DEF RunsBacked, Grows, TypeOK, RunRows
<1>1. ASSUME approval' = approval
      PROVE  ApprovalsBacked'
  <2>1. \A a \in Approvals : approval[a] # None => approval[a].run \in Runs
    BY DEF TypeOK, ApprovalRows
  <2> QED
    BY <1>1, <2>1 DEF ApprovalsBacked, Grows, Decided
<1>2. ASSUME trail' = trail
      PROVE  DecisionsBacked'
  BY <1>2 DEF DecisionsBacked, Grows
<1>3. ASSUME restatement' = restatement
      PROVE  RestatementsBacked'
  <2>1. \A r \in Restatements :
          restatement[r] # None => restatement[r].original \in Inventories
    BY DEF TypeOK, RestatementRows
  <2> QED
    BY <1>3, <2>1, ReleasedKept DEF RestatementsBacked, Grows
<1>4. ASSUME report' = report
      PROVE  ReportsNumbered' /\ OneFinalReport'
  <2>1. \A i \in Inventories :
          /\ NextVersion(report, i)' = NextVersion(report, i)
          /\ {report[x].version : x \in RowsOf(report, i)}'
               = {report[x].version : x \in RowsOf(report, i)}
    BY <1>4 DEF NextVersion, RowsOf
  <2>3. ReportsNumbered'
    BY <2>1 DEF ReportsNumbered
  <2>2. OneFinalReport'
    BY <1>4 DEF OneFinalReport, Decided, Grows
  <2> QED
    BY <2>2, <2>3
<1>5. ASSUME status' = status
      PROVE  StatusBacked'
  BY <1>5, ReleasedKept DEF StatusBacked
<1>6. ASSUME UNCHANGED <<status, locked_at, lock>>
      PROVE  LockLineage'
  <2>1. \A i \in Inventories : lock[i] # None => lock[i].approval \in Approvals
    BY DEF TypeOK, LockRows
  <2> QED
    BY <1>6, <2>1 DEF LockLineage, Grows, Decided
<1>7. ASSUME disposition' = disposition, DecisionsBacked'
      PROVE  SegregationOfDuties'
  BY <1>7 DEF SegregationOfDuties, DecisionsBacked, Scope3Approved
<1>8. ASSUME UNCHANGED <<run, approval, report>>
      PROVE  FiniteTables'
  BY <1>8 DEF FiniteTables, Present
<1> QED
  BY <1>0, <1>1, <1>2, <1>3, <1>4, <1>5, <1>6, <1>7, <1>8

LEMMA ReportsKept ==
  ASSUME FiniteTables, report' = report, NEW i
  PROVE  /\ NextVersion(report, i) <= NextVersion(report, i)'
         /\ FinalReports(i) = FinalReports(i)'
<1>1. NextVersion(report, i) \in Nat /\ NextVersion(report, i)' = NextVersion(report, i)
  BY NextVersionType DEF FiniteTables, Versions, NextVersion
<1>2. FinalReports(i) = FinalReports(i)'
  BY DEF FinalReports
<1> QED
  BY <1>1, <1>2

(* The other requests keep what they found; the one of this step ends, or   *)
(* goes on with what holds.                                                 *)
LEMMA RequestsKept ==
  ASSUME IInv, Grows, TypeOK', FiniteTables', NEW s \in Sessions,
         NEW q, q = None \/ (q \in Requests /\ Holds(q)),
         request' = [request EXCEPT ![s] = q]
  PROVE  RequestsHold'
<1>1. ASSUME NEW t \in Sessions, request'[t] # None
      PROVE  request'[t] \in Requests /\ Holds(request'[t])
  BY <1>1 DEF IInv, TypeOK, RequestsHold
<1>2. ASSUME NEW t \in Sessions, request'[t] # None
      PROVE  Holds(request[t])'
  <2> DEFINE r == request'[t]
  <2>1. r \in Requests /\ Holds(r)
    BY <1>1, <1>2
  <2>2. FiniteTables
    BY DEF IInv, Backed
  <2>3. disposition' \in [Inventories -> [set : Nat, prepared_by : Users \union {None},
                                          approved_by : Users \union {None}]]
    BY DEF TypeOK
  <2>4. ASSUME NEW x \in Requests, Holds(x)
        PROVE  Holds(x)'
    BY <2>2, <2>3, <2>4, HoldsKept DEF IInv
  <2> QED
    BY <2>1, <2>4 DEF Holds
<1> QED
  BY <1>2 DEF RequestsHold
----------------------------------------------------------------------------
(* The commits: each keeps the types and the order of the rows, and grows.  *)

RowsKept == TypeOK' /\ Backed' /\ Grows

LEMMA EditKeeps ==
  ASSUME IInv, NEW s \in Sessions, CommitEdit(s)
  PROVE  RowsKept
<1> DEFINE i == request[s].inventory
<1>1. i \in Inventories
  BY RequestTypes DEF CommitEdit, Serving, IInv, TypeOK
<1>2. data' \in [Inventories -> Data]
  <2>0. data \in [Inventories -> Data]
    BY DEF IInv, TypeOK
  <2>1. CASE AddActivity(i)
    BY <2>0, <2>1, <1>1 DEF AddActivity, Data
  <2>2. CASE EditActivity(i)
    BY <2>0, <2>2, <1>1 DEF EditActivity, Data
  <2> QED
    BY <2>1, <2>2 DEF CommitEdit
<1>3. request' \in [Sessions -> Requests \union {None}]
  BY DEF CommitEdit, Done, IInv, TypeOK
<1>4. TypeOK'
  BY <1>2, <1>3 DEF CommitEdit, IInv, TypeOK
<1>5. \A j \in Inventories : disposition[j].set \in Nat
  BY DEF IInv, TypeOK
<1>6. Grows
  BY <1>5, ReportsKept DEF CommitEdit, Grows, IInv, Backed
<1>7. Backed'
  BY <1>6, Undisturbed DEF CommitEdit, IInv, Backed
<1> QED
  BY <1>4, <1>6, <1>7 DEF RowsKept

LEMMA PrepareKeeps ==
  ASSUME IInv, NEW s \in Sessions, CommitPrepare(s)
  PROVE  RowsKept
<1> DEFINE i == request[s].inventory
           d == [set |-> disposition[i].set + 1, prepared_by |-> request[s].by,
                 approved_by |-> None]
<1>1. i \in Inventories /\ request[s].by \in Users
  BY RequestTypes DEF CommitPrepare, Serving, IInv, TypeOK
<1>2. disposition' = [disposition EXCEPT ![i] = d]
  BY DEF CommitPrepare
<1>3. \A j \in Inventories : disposition[j].set \in Nat
  BY DEF IInv, TypeOK
<1>4. d \in [set : Nat, prepared_by : Users \union {None}, approved_by : Users \union {None}]
  BY <1>1, <1>3
<1>5. d.set = disposition[i].set + 1 /\ d.approved_by = None
  OBVIOUS
<1> HIDE DEF d
<1>6. disposition' \in [Inventories -> [set : Nat, prepared_by : Users \union {None},
                                        approved_by : Users \union {None}]]
  BY <1>2, <1>4 DEF IInv, TypeOK
<1>7. request' \in [Sessions -> Requests \union {None}]
  BY DEF CommitPrepare, Done, IInv, TypeOK
<1>8. TypeOK'
  BY <1>6, <1>7 DEF CommitPrepare, IInv, TypeOK
<1>9. \A j \in Inventories :
        /\ disposition[j].set <= disposition'[j].set
        /\ disposition[j].set = disposition'[j].set =>
             disposition[j].prepared_by = disposition'[j].prepared_by
  BY <1>1, <1>2, <1>3, <1>5 DEF IInv, TypeOK
<1>10. Grows
  BY <1>9, ReportsKept DEF CommitPrepare, Grows, IInv, Backed
<1>11. SegregationOfDuties'
  BY <1>1, <1>2, <1>5 DEF CommitPrepare, IInv, TypeOK, Backed, SegregationOfDuties,
                          Scope3Approved
<1>12. Backed'
  BY <1>10, <1>11, Undisturbed DEF CommitPrepare, IInv, Backed
<1> QED
  BY <1>8, <1>10, <1>12 DEF RowsKept

LEMMA ApproveScope3Keeps ==
  ASSUME IInv, NEW s \in Sessions, CommitApproveScope3(s)
  PROVE  RowsKept
<1> DEFINE i == request[s].inventory
           d == [disposition[i] EXCEPT !.approved_by = request[s].by]
<1>1. i \in Inventories /\ request[s].by \in Users
  BY RequestTypes DEF CommitApproveScope3, Serving, IInv, TypeOK
<1>2. disposition' = [disposition EXCEPT ![i] = d]
  BY DEF CommitApproveScope3
<1>3. /\ \A j \in Inventories : disposition[j].set \in Nat
      /\ disposition[i] \in [set : Nat, prepared_by : Users \union {None},
                             approved_by : Users \union {None}]
  BY <1>1 DEF IInv, TypeOK
<1>4. /\ d \in [set : Nat, prepared_by : Users \union {None}, approved_by : Users \union {None}]
      /\ d.set = disposition[i].set /\ d.prepared_by = disposition[i].prepared_by
      /\ d.approved_by = request[s].by
  BY <1>1, <1>3
<1> HIDE DEF d
<1>5. disposition[i].prepared_by # request[s].by
  BY DEF CommitApproveScope3, Serving, IInv, RequestsHold, Holds
<1>6. disposition' \in [Inventories -> [set : Nat, prepared_by : Users \union {None},
                                        approved_by : Users \union {None}]]
  BY <1>2, <1>4 DEF IInv, TypeOK
<1>7. request' \in [Sessions -> Requests \union {None}]
  BY DEF CommitApproveScope3, Done, IInv, TypeOK
<1>8. TypeOK'
  BY <1>6, <1>7 DEF CommitApproveScope3, IInv, TypeOK
<1>9. \A j \in Inventories :
        /\ disposition[j].set <= disposition'[j].set
        /\ disposition[j].prepared_by = disposition'[j].prepared_by
  BY <1>1, <1>2, <1>3, <1>4 DEF IInv, TypeOK
<1>10. Grows
  BY <1>9, ReportsKept DEF CommitApproveScope3, Grows, IInv, Backed
<1>11. SegregationOfDuties'
  BY <1>1, <1>2, <1>4, <1>5 DEF CommitApproveScope3, IInv, TypeOK, Backed,
                                SegregationOfDuties, Scope3Approved
<1>12. Backed'
  BY <1>10, <1>11, Undisturbed DEF CommitApproveScope3, IInv, Backed
<1> QED
  BY <1>8, <1>10, <1>12 DEF RowsKept

LEMMA CalculateKeeps ==
  ASSUME IInv, NEW s \in Sessions, NEW r \in Runs, NEW completed \in BOOLEAN,
         CommitCalculate(s, r, completed)
  PROVE  RowsKept
<1> DEFINE i == request[s].inventory
           x == [inventory |-> i, version |-> request[s].version, completed |-> completed,
                 data |-> request[s].data]
           new == IF completed THEN "review_required" ELSE "calculation_failed"
<1>1. i \in Inventories /\ request[s].version \in Versions /\ request[s].data \in Data
  BY RequestTypes DEF CommitCalculate, Serving, IInv, TypeOK
<1>2. run' = [run EXCEPT ![r] = x] /\ status' = [status EXCEPT ![i] = new]
  BY DEF CommitCalculate
<1>3. x \in RunRows /\ new \in Statuses
  BY <1>1 DEF RunRows, Statuses
<1>4. /\ x # None /\ new # None
      /\ new \notin Frozen \union {"restatement_required"}
  BY <1>3, NullAssumption DEF Frozen
<1>5. run[r] = None
  BY DEF CommitCalculate
<1> HIDE DEF x, new
<1>6. run' \in [Runs -> RunRows \union {None}]
  BY <1>2, <1>3 DEF IInv, TypeOK
<1>7. status' \in [Inventories -> Statuses \union {None}]
  BY <1>1, <1>2, <1>3 DEF IInv, TypeOK
<1>8. request' \in [Sessions -> Requests \union {None}]
  BY DEF CommitCalculate, Done, IInv, TypeOK
<1>9. TypeOK'
  BY <1>6, <1>7, <1>8 DEF CommitCalculate, IInv, TypeOK
<1>10. \A j \in Inventories : /\ status[j] # None => status'[j] # None
                              /\ disposition[j].set \in Nat
  BY <1>1, <1>2, <1>4 DEF IInv, TypeOK
<1>11. \A y \in Runs : run[y] # None => run'[y] = run[y]
  BY <1>2, <1>5 DEF IInv, TypeOK
<1>12. Grows
  BY <1>10, <1>11, ReportsKept DEF CommitCalculate, Grows, IInv, Backed
<1>13. StatusBacked'
  BY <1>1, <1>2, <1>4, <1>12, ReleasedKept
     DEF IInv, TypeOK, Backed, StatusBacked, Frozen
<1>14. LockLineage'
  <2>1. \A j \in Inventories : lock[j] # None => lock[j].approval \in Approvals
    BY DEF IInv, TypeOK, LockRows
  <2> QED
    BY <1>1, <1>2, <1>4, <2>1
       DEF CommitCalculate, IInv, TypeOK, Backed, LockLineage, Frozen, Decided
<1>15. FiniteTables'
  <2>1. Present(run)' = Present(run) \union {r}
    BY <1>2, <1>4, <1>5 DEF IInv, TypeOK, Present
  <2>2. /\ report' = report /\ approval' = approval
        /\ IsFiniteSet(Present(run)) /\ IsFiniteSet(Present(approval))
        /\ IsFiniteSet(Present(report))
    BY DEF CommitCalculate, IInv, Backed, FiniteTables
  <2>3. IsFiniteSet(Present(run) \union {r})
    BY <2>2, FS_AddElement
  <2> QED
    BY <2>1, <2>2, <2>3 DEF FiniteTables, Present
<1>16. RunsBacked'
  <2>1. \A y \in Runs : y # r => run'[y] = run[y]
    BY <1>2 DEF IInv, TypeOK
  <2>2. run'[r] = x /\ x.inventory = i /\ status'[i] # None
    BY <1>1, <1>2, <1>4 DEF IInv, TypeOK, x
  <2>3. \A y \in Runs : run[y] # None => run[y].inventory \in Inventories
    BY DEF IInv, TypeOK, RunRows
  <2>4. ASSUME NEW y \in Runs, run'[y] # None
        PROVE  \E j \in Inventories : j = run'[y].inventory /\ status'[j] # None
    BY <1>1, <1>10, <2>1, <2>2, <2>3, <2>4 DEF IInv, Backed, RunsBacked
  <2> QED
    BY <2>4 DEF RunsBacked
<1>17. Backed'
  BY <1>12, <1>13, <1>14, <1>15, <1>16, Undisturbed DEF CommitCalculate, IInv, Backed
<1> QED
  BY <1>9, <1>12, <1>17 DEF RowsKept

LEMMA SubmitKeeps ==
  ASSUME IInv, NEW s \in Sessions, NEW a \in Approvals, CommitSubmit(s, a)
  PROVE  RowsKept
<1> DEFINE r == request[s].run
           x == [inventory |-> run[r].inventory, run |-> r, version |-> request[s].version,
                 checks |-> request[s].checks, status |-> "pending",
                 requested_by |-> request[s].by, reviewer_id |-> None]
<1>1. /\ r \in Runs /\ request[s].version \in Versions /\ request[s].checks \in BOOLEAN
      /\ request[s].by \in Users
  BY RequestTypes DEF CommitSubmit, Serving, IInv, TypeOK
<1>2. run[r] # None /\ run[r].completed
  BY DEF CommitSubmit, Serving, IInv, RequestsHold, Holds
<1>3. run[r].inventory \in Inventories
  BY <1>1, <1>2 DEF IInv, TypeOK, RunRows
<1>4. approval' = [approval EXCEPT ![a] = x]
  BY DEF CommitSubmit
<1>5. x \in ApprovalRows
  BY <1>1, <1>3 DEF ApprovalRows
<1>6. /\ x # None /\ x.inventory = run[r].inventory /\ x.run = r /\ x.status = "pending"
      /\ x.reviewer_id # x.requested_by
  BY <1>1, <1>5, NullAssumption, GovernanceAssumption
<1>7. approval[a] = None
  BY DEF CommitSubmit
<1> HIDE DEF x
<1>8. approval' \in [Approvals -> ApprovalRows \union {None}]
  BY <1>4, <1>5 DEF IInv, TypeOK
<1>9. request' \in [Sessions -> Requests \union {None}]
  BY DEF CommitSubmit, Done, IInv, TypeOK
<1>10. TypeOK'
  BY <1>8, <1>9 DEF CommitSubmit, IInv, TypeOK
<1>11. /\ \A b \in Approvals : approval[b] # None => approval'[b] = approval[b]
       /\ \A j \in Inventories : disposition[j].set \in Nat
  BY <1>4, <1>7 DEF IInv, TypeOK
<1>12. Grows
  BY <1>11, ReportsKept DEF CommitSubmit, Grows, IInv, Backed
<1>13. ApprovalsBacked'
  <2>1. ASSUME NEW b \in Approvals, b # a
        PROVE  approval'[b] = approval[b]
    BY <2>1, <1>4 DEF IInv, TypeOK
  <2>2. approval'[a] = x
    BY <1>4 DEF IInv, TypeOK
  <2> QED
    BY <2>1, <2>2, <1>2, <1>6 DEF CommitSubmit, IInv, Backed, ApprovalsBacked, Decided
<1>14. FiniteTables'
  <2>1. Present(approval)' = Present(approval) \union {a}
    BY <1>4, <1>6, <1>7 DEF IInv, TypeOK, Present
  <2>2. /\ run' = run /\ report' = report
        /\ IsFiniteSet(Present(run)) /\ IsFiniteSet(Present(approval))
        /\ IsFiniteSet(Present(report))
    BY DEF CommitSubmit, IInv, Backed, FiniteTables
  <2>3. IsFiniteSet(Present(approval) \union {a})
    BY <2>2, FS_AddElement
  <2> QED
    BY <2>1, <2>2, <2>3 DEF FiniteTables, Present
<1>15. Backed'
  BY <1>12, <1>13, <1>14, Undisturbed DEF CommitSubmit, IInv, Backed
<1> QED
  BY <1>10, <1>12, <1>15 DEF RowsKept

LEMMA StartKeeps ==
  ASSUME IInv, NEW s \in Sessions, CommitStart(s)
  PROVE  RowsKept
<1> DEFINE a == request[s].approval
           x == [approval[a] EXCEPT !.status = "in_review", !.reviewer_id = request[s].by]
<1>1. a \in Approvals /\ request[s].by \in Users
  BY RequestTypes DEF CommitStart, Serving, IInv, TypeOK
<1>2. approval[a] # None /\ approval[a].requested_by # request[s].by
  BY DEF CommitStart, Serving, IInv, RequestsHold, Holds
<1>3. approval[a] \in ApprovalRows
  BY <1>1, <1>2 DEF IInv, TypeOK
<1>4. approval' = [approval EXCEPT ![a] = x]
  BY <1>1 DEF CommitStart, IInv, TypeOK
<1>5. /\ x \in ApprovalRows
      /\ x.inventory = approval[a].inventory /\ x.run = approval[a].run
      /\ x.checks = approval[a].checks /\ x.requested_by = approval[a].requested_by
      /\ x.status = "in_review" /\ x.reviewer_id = request[s].by
  BY <1>1, <1>3 DEF ApprovalRows
<1>6. x # None
  BY <1>5, NullAssumption
<1> HIDE DEF x
<1>7. UNCHANGED <<status, locked_at, data, disposition, run, lock, restatement, report, trail>>
  BY DEF CommitStart
<1>8. approval' \in [Approvals -> ApprovalRows \union {None}]
  BY <1>4, <1>5 DEF IInv, TypeOK
<1>9. request' \in [Sessions -> Requests \union {None}]
  BY DEF CommitStart, Done, IInv, TypeOK
<1>10. TypeOK'
  BY <1>7, <1>8, <1>9 DEF IInv, TypeOK
<1>11. /\ \A b \in Approvals \ {a} : approval'[b] = approval[b]
       /\ approval'[a] = x
       /\ \A j \in Inventories : disposition[j].set \in Nat
  BY <1>1, <1>4 DEF IInv, TypeOK
<1>12. Grows
  BY <1>5, <1>6, <1>7, <1>11, ReportsKept DEF Grows, IInv, Backed
<1>13. ApprovalsBacked'
  BY <1>1, <1>2, <1>5, <1>7, <1>11 DEF IInv, Backed, ApprovalsBacked, Decided
<1>14. FiniteTables'
  <2>1. Present(approval)' = Present(approval)
    BY <1>1, <1>2, <1>4, <1>6 DEF IInv, TypeOK, Present
  <2> QED
    BY <2>1, <1>7 DEF IInv, Backed, FiniteTables
<1>15. Backed'
  BY <1>7, <1>12, <1>13, <1>14, Undisturbed DEF IInv, Backed
<1> QED
  BY <1>10, <1>12, <1>15 DEF RowsKept

LEMMA DecideKeeps ==
  ASSUME IInv, NEW s \in Sessions, CommitDecide(s)
  PROVE  RowsKept
<1>0. PICK q : q = request[s]
  OBVIOUS
<1>a. PICK a : a = q.approval
  OBVIOUS
<1> DEFINE x == [approval[a] EXCEPT !.status = q.decision]
           e == Event(q.decision, a, None, q.by)
<1>1. /\ a \in Approvals /\ q.by \in Users /\ q.decision \in Decisions
      /\ q.loaded \in Statuses
  BY <1>0, <1>a, RequestTypes DEF CommitDecide, Serving, IInv, TypeOK
<1>2. /\ approval[a] # None /\ approval[a].requested_by # q.by
      /\ q.decision = "approved" => approval[a].checks
  BY <1>0, <1>a DEF CommitDecide, Serving, IInv, RequestsHold, Holds
<1>i. PICK i \in Inventories : i = approval[a].inventory
  BY <1>1, <1>2 DEF IInv, TypeOK, ApprovalRows
<1>3. approval[a] \in ApprovalRows
  BY <1>1, <1>2 DEF IInv, TypeOK
<1>4. approval' = [approval EXCEPT ![a] = x] /\ trail' = trail \union {e}
  BY <1>0, <1>a, <1>1 DEF CommitDecide, IInv, TypeOK
<1>5. /\ x \in ApprovalRows
      /\ x.inventory = approval[a].inventory /\ x.run = approval[a].run
      /\ x.checks = approval[a].checks /\ x.requested_by = approval[a].requested_by
      /\ x.status = q.decision /\ x.reviewer_id = approval[a].reviewer_id
  BY <1>1, <1>3 DEF ApprovalRows, Decisions
<1>6. x # None
  BY <1>5, NullAssumption
<1>7. /\ e \in [action : Decisions, entity : Approvals \union Restatements,
               replacement : Inventories \union {None}, by : Users]
      /\ e.action = q.decision /\ e.entity = a /\ e.by = q.by
  BY <1>1 DEF Event
<1>8. \/ UNCHANGED status
      \/ q.decision = "approved" /\ status' = [status EXCEPT ![i] = "approved"]
  BY <1>0, <1>a, <1>i DEF CommitDecide, Write
<1> HIDE DEF x, e
<1>9. TypeOK'
  <2>1. approval' \in [Approvals -> ApprovalRows \union {None}]
    BY <1>4, <1>5 DEF IInv, TypeOK
  <2>2. request' \in [Sessions -> Requests \union {None}]
    BY DEF CommitDecide, Done, IInv, TypeOK
  <2>3. status' \in [Inventories -> Statuses \union {None}]
    BY <1>8 DEF IInv, TypeOK, Statuses, Frozen
  <2>4. trail' \subseteq [action : Decisions \union {"completed"},
                          entity : Approvals \union Restatements,
                          replacement : Inventories \union {None}, by : Users]
    BY <1>4, <1>7 DEF IInv, TypeOK
  <2> QED
    BY <2>1, <2>2, <2>3, <2>4 DEF CommitDecide, IInv, TypeOK
<1>10. /\ \A b \in Approvals \ {a} : approval'[b] = approval[b]
       /\ approval'[a] = x
       /\ \A j \in Inventories : disposition[j].set \in Nat
  BY <1>1, <1>4 DEF IInv, TypeOK
<1>11. \A j \in Inventories : status[j] # None => status'[j] # None
  <2>1. "approved" # None
    BY NullAssumption DEF Statuses, Frozen
  <2> QED
    BY <1>8, <2>1 DEF IInv, TypeOK
<1>12. Grows
  BY <1>4, <1>5, <1>6, <1>10, <1>11, ReportsKept DEF CommitDecide, Grows, IInv, Backed
<1>13. ApprovalsBacked'
  <2>1. ASSUME NEW d, NEW y, Decided(d, y)
        PROVE  Decided(d, y)'
    BY <2>1, <1>4 DEF Decided
  <2>2. q.decision = "approved" => Decided("approved", a)'
    BY <1>4, <1>7 DEF Decided
  <2>3. run' = run /\ ApprovalsBacked
    BY DEF CommitDecide, IInv, Backed
  <2>4. /\ run[x.run] # None /\ run[x.run].inventory = x.inventory /\ run[x.run].completed
        /\ x.reviewer_id # x.requested_by
        /\ x.status = "approved" => x.checks /\ Decided("approved", a)'
    BY <1>1, <1>2, <1>5, <2>2, <2>3 DEF ApprovalsBacked
  <2> QED
    BY <1>10, <2>1, <2>3, <2>4 DEF ApprovalsBacked
<1>14. DecisionsBacked'
  <2>1. a \notin Restatements
    BY <1>1, GovernanceAssumption
  <2>2. ASSUME NEW f \in trail, f.entity \in Approvals
        PROVE  /\ approval'[f.entity] # None
               /\ approval'[f.entity].requested_by # f.by
               /\ f.action = "approved" => approval'[f.entity].checks
    BY <2>2, <1>12 DEF Grows, IInv, Backed, DecisionsBacked
  <2>3. ASSUME NEW f \in trail, f.entity \in Restatements
        PROVE  /\ restatement'[f.entity] # None
               /\ f.action \in Decisions => restatement'[f.entity].requested_by # f.by
    BY <2>3, <1>12 DEF Grows, IInv, Backed, DecisionsBacked
  <2>4. /\ approval'[a] # None
        /\ approval'[a].requested_by # q.by
        /\ q.decision = "approved" => approval'[a].checks
    BY <1>2, <1>5, <1>6, <1>10
  <2> QED
    BY <1>4, <1>7, <2>1, <2>2, <2>3, <2>4 DEF DecisionsBacked
<1>15. FiniteTables'
  <2>1. Present(approval)' = Present(approval)
    BY <1>1, <1>2, <1>4, <1>6 DEF IInv, TypeOK, Present
  <2> QED
    BY <2>1 DEF CommitDecide, IInv, Backed, FiniteTables, Present
<1>16. StatusBacked'
  <2>1. CASE UNCHANGED status
    BY <2>1, <1>12, Undisturbed DEF IInv
  <2>2. CASE q.decision = "approved" /\ status' = [status EXCEPT ![i] = "approved"]
    <3>1. Decided("approved", a)'
      BY <2>2, <1>4, <1>7 DEF Decided
    <3>2. Released(i)'
      <4>1. approval'[a].run = approval[a].run /\ approval[a].run \in Runs
        BY <1>3, <1>5, <1>10 DEF ApprovalRows
      <4>2. /\ run[approval[a].run] # None
            /\ run[approval[a].run].inventory = approval[a].inventory
            /\ run[approval[a].run].completed
        BY <1>1, <1>2 DEF IInv, Backed, ApprovalsBacked
      <4>3. run' = run
        BY DEF CommitDecide
      <4> QED
        BY <1>1, <1>2, <1>5, <1>6, <1>10, <1>i, <2>2, <3>1, <4>1, <4>2, <4>3 DEF Released
    <3> QED
      BY <2>2, <3>2, <1>12, ReleasedKept DEF IInv, TypeOK, Backed, StatusBacked, Frozen
  <2> QED
    BY <1>8, <2>1, <2>2
<1>17. LockLineage'
  <2>1. \A j \in Inventories : lock[j] # None => lock[j].approval \in Approvals
    BY DEF IInv, TypeOK, LockRows
  <2>2. \A j \in Inventories : status'[j] = "locked" => status[j] = "locked"
    BY <1>8 DEF IInv, TypeOK
  <2>3. \A y : Decided("approved", y) => Decided("approved", y)'
    BY <1>4 DEF Decided
  <2> QED
    BY <1>12, <2>1, <2>2, <2>3 DEF CommitDecide, Grows, IInv, Backed, LockLineage
<1>18. Backed'
  BY <1>12, <1>13, <1>14, <1>15, <1>16, <1>17, Undisturbed DEF CommitDecide, IInv, Backed
<1> QED
  BY <1>9, <1>12, <1>18 DEF RowsKept

LEMMA LockKeeps ==
  ASSUME IInv, NEW s \in Sessions, CommitLock(s)
  PROVE  RowsKept
<1>0. PICK q : q = request[s]
  OBVIOUS
<1>a. PICK a, i : a = q.approval /\ i = q.inventory
  OBVIOUS
<1> DEFINE x == [approval |-> a, run |-> approval[a].run, data |-> data[i]]
<1>1. a \in Approvals /\ i \in Inventories
  BY <1>0, <1>a, RequestTypes DEF CommitLock, Serving, IInv, TypeOK
<1>2. approval[a] # None /\ approval[a].inventory = i /\ Decided("approved", a)
  BY <1>0, <1>a DEF CommitLock, Serving, IInv, RequestsHold, Holds
<1>3. approval[a].run \in Runs
  BY <1>1, <1>2 DEF IInv, TypeOK, ApprovalRows
<1>4. /\ lock[i] = None
      /\ lock' = [lock EXCEPT ![i] = x]
      /\ status' = [status EXCEPT ![i] = "locked"]
      /\ locked_at' = [locked_at EXCEPT ![i] = TRUE]
      /\ UNCHANGED <<data, disposition, run, approval, restatement, report, trail>>
  BY <1>0, <1>a DEF CommitLock, LockFree
<1>5. x \in LockRows
  BY <1>1, <1>3 DEF LockRows, IInv, TypeOK
<1>6. x # None /\ x.approval = a /\ x.run = approval[a].run
  BY <1>5, NullAssumption
<1> HIDE DEF x
<1>7. TypeOK'
  <2>1. lock' \in [Inventories -> LockRows \union {None}]
    BY <1>4, <1>5 DEF IInv, TypeOK
  <2>2. request' \in [Sessions -> Requests \union {None}]
    BY DEF CommitLock, Done, IInv, TypeOK
  <2>3. status' \in [Inventories -> Statuses \union {None}]
    BY <1>4 DEF IInv, TypeOK, Statuses, Frozen
  <2>4. locked_at' \in [Inventories -> BOOLEAN]
    BY <1>4 DEF IInv, TypeOK
  <2> QED
    BY <1>4, <2>1, <2>2, <2>3, <2>4 DEF IInv, TypeOK
<1>8. \A j \in Inventories :
        j # i => status'[j] = status[j] /\ lock'[j] = lock[j] /\ locked_at'[j] = locked_at[j]
  BY <1>4 DEF IInv, TypeOK
<1>9. status'[i] = "locked" /\ lock'[i] = x /\ locked_at'[i] = TRUE
  BY <1>1, <1>4 DEF IInv, TypeOK
<1>10. "locked" # None
  BY NullAssumption DEF Statuses, Frozen
<1>11. Grows
  <2>1. ASSUME NEW j \in Inventories
        PROVE  /\ status[j] # None => status'[j] # None
               /\ locked_at[j] => locked_at'[j]
               /\ lock[j] # None => lock'[j] = lock[j]
               /\ disposition[j].set <= disposition'[j].set
    <3>1. /\ status[j] # None => status'[j] # None
          /\ lock[j] # None => lock'[j] = lock[j]
      BY <1>4, <1>8, <1>9, <1>10
    <3>2. locked_at[j] => locked_at'[j]
      BY <1>4 DEF IInv, TypeOK
    <3>3. disposition[j].set <= disposition'[j].set
      <4>1. disposition' = disposition /\ disposition[j].set \in Nat
        BY <1>4 DEF IInv, TypeOK
      <4> QED
        BY <4>1
    <3> QED
      BY <3>1, <3>2, <3>3
  <2>2. \A j \in Inventories : NextVersion(report, j) <= NextVersion(report, j)'
                              /\ FinalReports(j) = FinalReports(j)'
    BY <1>4, ReportsKept DEF IInv, Backed
  <2> QED
    BY <1>4, <2>1, <2>2 DEF Grows
<1>12. StatusBacked'
  <2>1. Released(i)
    BY <1>1, <1>2, ReleasedBy DEF IInv, Backed
  <2>2. Released(i)'
    BY <1>1, <1>11, <2>1, ReleasedKept DEF IInv
  <2>3. ASSUME NEW j \in Inventories, j # i
        PROVE  /\ status'[j] \in Frozen \union {"restatement_required"} => Released(j)'
               /\ status'[j] = "superseded" => Replaced(j)'
    BY <1>8, <1>11, <2>3, ReleasedKept DEF IInv, Backed, StatusBacked
  <2> QED
    BY <1>9, <2>2, <2>3 DEF StatusBacked
<1>13. LockLineage'
  <2>1. \A y : Decided("approved", y)' <=> Decided("approved", y)
    BY <1>4 DEF Decided
  <2>2. ASSUME NEW j \in Inventories, j # i
        PROVE  /\ locked_at'[j] <=> lock'[j] # None
               /\ status'[j] = "locked" => lock'[j] # None
               /\ lock'[j] # None =>
                    /\ approval'[lock'[j].approval] # None
                    /\ approval'[lock'[j].approval].inventory = j
                    /\ approval'[lock'[j].approval].run = lock'[j].run
                    /\ Decided("approved", lock[j].approval)'
    BY <1>4, <1>8, <2>1, <2>2 DEF IInv, Backed, LockLineage
  <2>3. /\ locked_at'[i] /\ lock'[i] # None
        /\ approval'[x.approval] # None /\ approval'[x.approval].inventory = i
        /\ approval'[x.approval].run = x.run
        /\ Decided("approved", a)'
    BY <1>2, <1>4, <1>6, <1>9, <2>1
  <2> QED
    BY <1>6, <1>9, <2>2, <2>3 DEF LockLineage, Decided
<1>14. Backed'
  BY <1>4, <1>11, <1>12, <1>13, Undisturbed DEF IInv, Backed
<1> QED
  BY <1>7, <1>11, <1>14 DEF RowsKept

LEMMA RestateKeeps ==
  ASSUME IInv, NEW s \in Sessions, NEW r \in Restatements, CommitRestate(s, r)
  PROVE  RowsKept
<1>0. PICK i, u : i = request[s].inventory /\ u = request[s].by
  OBVIOUS
<1> DEFINE x == [original |-> i, replacement |-> None, status |-> "requested",
                 requested_by |-> u]
<1>1. i \in Inventories /\ u \in Users
  BY <1>0, RequestTypes DEF CommitRestate, Serving, IInv, TypeOK
<1>2. Released(i) /\ status[i] # None
  BY <1>0 DEF CommitRestate, Serving, IInv, RequestsHold, Holds
<1>3. /\ restatement[r] = None
      /\ restatement' = [restatement EXCEPT ![r] = x]
      /\ status' = [status EXCEPT ![i] = "restatement_required"]
      /\ UNCHANGED <<locked_at, data, disposition, run, approval, lock, report, trail>>
  BY <1>0 DEF CommitRestate
<1>4. x \in RestatementRows
  BY <1>1 DEF RestatementRows
<1>5. x # None /\ x.original = i
  BY <1>4, NullAssumption
<1>6. "restatement_required" # None
  BY NullAssumption DEF Statuses
<1> HIDE DEF x
<1>7. TypeOK'
  <2>1. restatement' \in [Restatements -> RestatementRows \union {None}]
    BY <1>3, <1>4 DEF IInv, TypeOK
  <2>2. request' \in [Sessions -> Requests \union {None}]
    BY DEF CommitRestate, Done, IInv, TypeOK
  <2>3. status' \in [Inventories -> Statuses \union {None}]
    BY <1>3 DEF IInv, TypeOK, Statuses
  <2> QED
    BY <1>3, <2>1, <2>2, <2>3 DEF IInv, TypeOK
<1>8. /\ \A j \in Inventories : /\ disposition[j].set \in Nat
                                /\ j # i => status'[j] = status[j]
      /\ \A y \in Restatements : y # r => restatement'[y] = restatement[y]
      /\ status'[i] = "restatement_required" /\ restatement'[r] = x
  BY <1>1, <1>3 DEF IInv, TypeOK
<1>9. Grows
  BY <1>3, <1>6, <1>8, ReportsKept DEF Grows, IInv, Backed
<1>10. \A j \in Inventories : Released(j) => Released(j)'
  BY <1>9, ReleasedKept DEF IInv
<1>11. RestatementsBacked'
  <2>1. \A y \in Restatements : y # r /\ restatement[y] # None =>
          /\ restatement[y].original \in Inventories
          /\ Released(restatement[y].original) /\ status[restatement[y].original] # None
    BY DEF IInv, TypeOK, RestatementRows, Backed, RestatementsBacked
  <2>2. \A j \in Inventories : status[j] # None => status'[j] # None
    BY <1>9 DEF Grows
  <2>3. ASSUME NEW y \in Restatements, restatement'[y] # None,
               NEW j, j = restatement'[y].original
        PROVE  Released(j)' /\ status'[j] # None
    BY <1>1, <1>2, <1>5, <1>8, <1>10, <2>1, <2>2, <2>3
  <2> QED
    BY <2>3 DEF RestatementsBacked, Released
<1>12. StatusBacked'
  <2>1. ASSUME NEW j \in Inventories, j # i
        PROVE  /\ status'[j] \in Frozen \union {"restatement_required"} => Released(j)'
               /\ status'[j] = "superseded" => Replaced(j)'
    BY <1>8, <1>9, <2>1, ReleasedKept DEF IInv, Backed, StatusBacked
  <2> QED
    BY <1>1, <1>2, <1>8, <1>10, <2>1 DEF StatusBacked
<1>13. LockLineage'
  <2>1. \A j \in Inventories : status'[j] = "locked" => status[j] = "locked"
    BY <1>8
  <2> QED
    BY <1>3, <2>1 DEF IInv, Backed, LockLineage, Decided
<1>14. Backed'
  <2>1. SegregationOfDuties' /\ DecisionsBacked'
    BY <1>3, <1>9, Undisturbed DEF IInv
  <2> QED
    BY <1>3, <1>9, <1>11, <1>12, <1>13, <2>1, Undisturbed DEF IInv, Backed
<1> QED
  BY <1>7, <1>9, <1>14 DEF RowsKept

(* A decision on a restatement: the row keeps its original and requester,   *)
(* and the event is recorded for someone else.                              *)
LEMMA JudgedRestatement ==
  ASSUME IInv, NEW s \in Sessions, Serving(s, "judge"),
         NEW r, r = request[s].restatement,
         NEW x \in RestatementRows, x.original = restatement[r].original,
         x.requested_by = restatement[r].requested_by,
         x.replacement = None => restatement[r].replacement = None,
         restatement' = [restatement EXCEPT ![r] = x],
         NEW n \in Inventories \union {None},
         NEW e, e = Event(request[s].decision, r, n, request[s].by), trail' = trail \union {e},
         status' \in [Inventories -> Statuses \union {None}],
         \A j \in Inventories : status[j] # None => status'[j] # None,
         Done(s), UNCHANGED <<locked_at, data, disposition, run, approval, lock, report>>
  PROVE  /\ TypeOK' /\ Grows /\ DecisionsBacked' /\ RestatementsBacked'
         /\ \A y : y \in Restatements \ {r} => restatement'[y] = restatement[y]
         /\ r \in Restatements /\ restatement'[r] = x
<1>1. /\ r \in Restatements /\ request[s].by \in Users /\ request[s].decision \in Decisions
      /\ restatement[r] # None /\ restatement[r].requested_by # request[s].by
  BY RequestTypes DEF Serving, IInv, TypeOK, RequestsHold, Holds
<1>2. restatement[r] \in RestatementRows
  BY <1>1 DEF IInv, TypeOK
<1>3. /\ e \in [action : Decisions, entity : Approvals \union Restatements,
               replacement : Inventories \union {None}, by : Users]
      /\ e.entity = r /\ e.by = request[s].by
  BY <1>1 DEF Event
<1>4. x # None
  BY NullAssumption
<1>5. TypeOK'
  <2>1. restatement' \in [Restatements -> RestatementRows \union {None}]
    BY DEF IInv, TypeOK
  <2>2. request' \in [Sessions -> Requests \union {None}]
    BY DEF Done, IInv, TypeOK
  <2>3. trail' \subseteq [action : Decisions \union {"completed"},
                          entity : Approvals \union Restatements,
                          replacement : Inventories \union {None}, by : Users]
    BY <1>3 DEF IInv, TypeOK
  <2> QED
    BY <2>1, <2>2, <2>3 DEF IInv, TypeOK
<1>6. /\ \A y : y \in Restatements \ {r} => restatement'[y] = restatement[y]
      /\ restatement'[r] = x
  BY <1>1 DEF IInv, TypeOK
<1>7. Grows
  <2>1. \A y \in Restatements : restatement[y] # None =>
          /\ restatement'[y] # None
          /\ restatement'[y].original = restatement[y].original
          /\ restatement'[y].requested_by = restatement[y].requested_by
          /\ restatement[y].replacement # None => restatement'[y].replacement # None
    BY <1>4, <1>6
  <2>2. \A j \in Inventories : disposition[j].set \in Nat
    BY DEF IInv, TypeOK
  <2> QED
    BY <2>1, <2>2, ReportsKept DEF Grows, IInv, Backed
<1>8. DecisionsBacked'
  <2>1. r \notin Approvals
    BY <1>1, GovernanceAssumption
  <2>2. ASSUME NEW f \in trail, f.entity \in Approvals
        PROVE  /\ approval'[f.entity] # None
               /\ approval'[f.entity].requested_by # f.by
               /\ f.action = "approved" => approval'[f.entity].checks
    BY <2>2, <1>7 DEF Grows, IInv, Backed, DecisionsBacked
  <2>3. ASSUME NEW f \in trail, f.entity \in Restatements
        PROVE  /\ restatement'[f.entity] # None
               /\ f.action \in Decisions => restatement'[f.entity].requested_by # f.by
    BY <2>3, <1>7 DEF Grows, IInv, Backed, DecisionsBacked
  <2>4. restatement'[r] # None /\ restatement'[r].requested_by # request[s].by
    BY <1>1, <1>4, <1>6
  <2> QED
    BY <1>3, <2>1, <2>2, <2>3, <2>4 DEF DecisionsBacked
<1>9. RestatementsBacked'
  <2>1. \A y \in Restatements : restatement[y] # None =>
          /\ restatement[y].original \in Inventories
          /\ Released(restatement[y].original) /\ status[restatement[y].original] # None
    BY DEF IInv, TypeOK, RestatementRows, Backed, RestatementsBacked
  <2>2. \A j \in Inventories : Released(j) => Released(j)'
    BY <1>7, ReleasedKept DEF IInv
  <2>3. ASSUME NEW y \in Restatements, restatement'[y] # None,
               NEW j, j = restatement'[y].original
        PROVE  Released(j)' /\ status'[j] # None
    <3>1. restatement[y] # None /\ j = restatement[y].original
      BY <1>1, <1>6, <2>3
    <3> QED
      BY <2>1, <2>2, <3>1
  <2> QED
    BY <2>3 DEF RestatementsBacked, Released
<1> QED
  BY <1>1, <1>5, <1>6, <1>7, <1>8, <1>9

LEMMA ApproveRestatementKeeps ==
  ASSUME IInv, NEW s \in Sessions, NEW i \in Inventories, CommitApproveRestatement(s, i)
  PROVE  RowsKept
<1>0. PICK r, o : r = request[s].restatement /\ o = restatement[r].original
  OBVIOUS
<1> DEFINE x == [restatement[r] EXCEPT !.status = "approved", !.replacement = i]
           e == Event(request[s].decision, r, i, request[s].by)
<1>1. r \in Restatements /\ restatement[r] # None
  BY <1>0, RequestTypes
     DEF CommitApproveRestatement, Serving, IInv, TypeOK, RequestsHold, Holds
<1>2. restatement[r] \in RestatementRows
  BY <1>1 DEF IInv, TypeOK
<1>3. o \in Inventories /\ status[o] # None /\ Released(o)
  BY <1>0, <1>1, <1>2 DEF RestatementRows, IInv, Backed, RestatementsBacked
<1>4. status[i] = None /\ i # o /\ i # None
  BY <1>3, GovernanceAssumption DEF CommitApproveRestatement
<1>5. restatement' = [restatement EXCEPT ![r] = x]
  BY <1>0, <1>1 DEF CommitApproveRestatement, IInv, TypeOK
<1>6. /\ x \in RestatementRows /\ x.original = o /\ x.replacement = i
      /\ x.requested_by = restatement[r].requested_by
  BY <1>0, <1>2 DEF RestatementRows
<1>7. trail' = trail \union {e} /\ e.action = "approved" /\ e.entity = r
  BY <1>0 DEF CommitApproveRestatement, Event
<1>8. \/ status' = [[status EXCEPT ![i] = "draft"] EXCEPT ![o] = "superseded"]
      \/ status' = [status EXCEPT ![i] = "draft"]
  <2>1. \/ status' = [status EXCEPT ![i] = "draft", ![o] = "superseded"]
        \/ status' = [status EXCEPT ![i] = "draft", ![o] = @]
    BY <1>0 DEF CommitApproveRestatement
  <2> QED
    BY <2>1, <1>3, <1>4 DEF IInv, TypeOK
<1>9. /\ Serving(s, "judge") /\ Done(s)
      /\ UNCHANGED <<locked_at, data, disposition, run, approval, lock, report>>
  BY DEF CommitApproveRestatement
<1> HIDE DEF x, e
<1>10. status' \in [Inventories -> Statuses \union {None}]
  BY <1>8 DEF IInv, TypeOK, Statuses, Frozen
<1>11. \A j \in Inventories : status[j] # None => status'[j] # None
  <2>1. "draft" # None /\ "superseded" # None
    BY NullAssumption DEF Statuses, Frozen
  <2> QED
    BY <1>8, <2>1 DEF IInv, TypeOK
<1>12. /\ TypeOK' /\ Grows /\ DecisionsBacked' /\ RestatementsBacked'
       /\ restatement'[r] = x
  <2>1. x.replacement = None => restatement[r].replacement = None
    BY <1>4, <1>6
  <2>2. e = Event(request[s].decision, r, i, request[s].by)
    BY DEF e
  <2>3. /\ x \in RestatementRows /\ x.original = restatement[r].original
        /\ x.requested_by = restatement[r].requested_by
        /\ r = request[s].restatement /\ trail' = trail \union {e}
    BY <1>0, <1>6, <1>7
  <2>4. TypeOK' /\ Grows /\ DecisionsBacked' /\ RestatementsBacked'
    BY <1>5, <1>9, <1>10, <1>11, <2>1, <2>2, <2>3, JudgedRestatement
  <2>5. restatement'[r] = x
    BY <1>1, <1>5 DEF IInv, TypeOK
  <2> QED
    BY <2>4, <2>5
<1>13. StatusBacked'
  <2>1. Released(o)' /\ Replaced(o)'
    <3>1. Decided("approved", r)'
      BY <1>7 DEF Decided
    <3>2. x # None
      BY <1>6, NullAssumption
    <3> QED
      BY <1>1, <1>3, <1>4, <1>6, <1>12, <3>1, <3>2, ReleasedKept DEF Replaced, IInv
  <2>2. status'[i] = "draft"
    BY <1>4, <1>8 DEF IInv, TypeOK
  <2>3. ASSUME NEW j \in Inventories, j # i, j # o
        PROVE  /\ status'[j] \in Frozen \union {"restatement_required"} => Released(j)'
               /\ status'[j] = "superseded" => Replaced(j)'
    <3>1. status'[j] = status[j]
      BY <1>8, <2>3 DEF IInv, TypeOK
    <3> QED
      BY <1>12, <3>1, ReleasedKept DEF IInv, Backed, StatusBacked
  <2> QED
    BY <2>1, <2>2, <2>3 DEF StatusBacked, Frozen
<1>14. LockLineage'
  <2>1. \A j \in Inventories : status'[j] = "locked" => status[j] = "locked"
    BY <1>8 DEF IInv, TypeOK
  <2>2. \A y : Decided("approved", y) => Decided("approved", y)'
    BY <1>7 DEF Decided
  <2> QED
    BY <1>9, <2>1, <2>2 DEF IInv, Backed, LockLineage
<1>15. Backed'
  BY <1>9, <1>12, <1>13, <1>14, Undisturbed DEF IInv, Backed
<1> QED
  BY <1>12, <1>15 DEF RowsKept

LEMMA RejectRestatementKeeps ==
  ASSUME IInv, NEW s \in Sessions, CommitRejectRestatement(s)
  PROVE  RowsKept
<1>0. PICK r, o : r = request[s].restatement /\ o = restatement[r].original
  OBVIOUS
<1> DEFINE x == [restatement[r] EXCEPT !.status = "rejected"]
           e == Event(request[s].decision, r, None, request[s].by)
           new == IF request[s].locked THEN "locked" ELSE "approved"
<1>1. /\ r \in Restatements /\ restatement[r] # None
      /\ request[s].locked => locked_at[o]
  BY <1>0, RequestTypes
     DEF CommitRejectRestatement, Serving, IInv, TypeOK, RequestsHold, Holds
<1>2. restatement[r] \in RestatementRows
  BY <1>1 DEF IInv, TypeOK
<1>3. o \in Inventories /\ Released(o)
  BY <1>0, <1>1, <1>2 DEF RestatementRows, IInv, Backed, RestatementsBacked
<1>4. restatement' = [restatement EXCEPT ![r] = x]
  BY <1>0 DEF CommitRejectRestatement
<1>5. /\ x \in RestatementRows /\ x.original = o
      /\ x.replacement = restatement[r].replacement
      /\ x.requested_by = restatement[r].requested_by
  BY <1>0, <1>2 DEF RestatementRows
<1>6. trail' = trail \union {e}
  BY <1>0 DEF CommitRejectRestatement
<1>7. UNCHANGED status \/ status' = [status EXCEPT ![o] = new]
  BY <1>0 DEF CommitRejectRestatement, Write
<1>8. /\ Serving(s, "judge") /\ Done(s)
      /\ UNCHANGED <<locked_at, data, disposition, run, approval, lock, report>>
  BY DEF CommitRejectRestatement
<1>9. new \in {"locked", "approved"} /\ (new = "locked" => locked_at[o])
  BY <1>1
<1> HIDE DEF x, e, new
<1>10. status' \in [Inventories -> Statuses \union {None}]
  BY <1>7, <1>9 DEF IInv, TypeOK, Statuses, Frozen
<1>11. \A j \in Inventories : status[j] # None => status'[j] # None
  <2>1. "locked" # None /\ "approved" # None
    BY NullAssumption DEF Statuses, Frozen
  <2> QED
    BY <1>7, <1>9, <2>1 DEF IInv, TypeOK
<1>12. TypeOK' /\ Grows /\ DecisionsBacked' /\ RestatementsBacked'
  <2>1. e = Event(request[s].decision, r, None, request[s].by)
    BY DEF e
  <2> QED
    BY <1>0, <1>4, <1>5, <1>6, <1>8, <1>10, <1>11, <2>1, JudgedRestatement
<1>13. StatusBacked'
  <2>1. Released(o)'
    BY <1>3, <1>12, ReleasedKept DEF IInv
  <2>2. ASSUME NEW j \in Inventories, status'[j] = status[j]
        PROVE  /\ status'[j] \in Frozen \union {"restatement_required"} => Released(j)'
               /\ status'[j] = "superseded" => Replaced(j)'
    BY <1>12, <2>2, ReleasedKept DEF IInv, Backed, StatusBacked
  <2>3. status'[o] = status[o] \/ status'[o] \in {"locked", "approved"}
    BY <1>3, <1>7, <1>9 DEF IInv, TypeOK
  <2>4. \A j \in Inventories : j # o => status'[j] = status[j]
    BY <1>7 DEF IInv, TypeOK
  <2> QED
    BY <2>1, <2>2, <2>3, <2>4 DEF StatusBacked
<1>14. LockLineage'
  <2>1. ASSUME NEW j \in Inventories, status'[j] = "locked"
        PROVE  lock[j] # None
    <3>1. status[j] = "locked" \/ locked_at[j]
      BY <1>7, <1>9, <2>1 DEF IInv, TypeOK
    <3> QED
      BY <3>1 DEF IInv, Backed, LockLineage
  <2>2. \A y : Decided("approved", y) => Decided("approved", y)'
    BY <1>6 DEF Decided
  <2> QED
    BY <1>8, <2>1, <2>2 DEF IInv, Backed, LockLineage
<1>15. Backed'
  BY <1>8, <1>12, <1>13, <1>14, Undisturbed DEF IInv, Backed
<1> QED
  BY <1>12, <1>15 DEF RowsKept

LEMMA CompleteKeeps ==
  ASSUME IInv, NEW s \in Sessions, CommitComplete(s)
  PROVE  RowsKept
<1>0. PICK r : r = request[s].restatement
  OBVIOUS
<1> DEFINE x == [restatement[r] EXCEPT !.status = "completed"]
           e == Event("completed", r, request[s].replacement, request[s].by)
<1>1. /\ r \in Restatements /\ restatement[r] # None
      /\ request[s].replacement \in Inventories /\ request[s].by \in Users
  BY <1>0, RequestTypes DEF CommitComplete, Serving, IInv, TypeOK, RequestsHold, Holds
<1>2. restatement[r] \in RestatementRows
  BY <1>1 DEF IInv, TypeOK
<1>3. /\ restatement' = [restatement EXCEPT ![r] = x]
      /\ trail' = trail \union {e}
      /\ UNCHANGED <<status, locked_at, data, disposition, run, approval, lock, report>>
  BY <1>0 DEF CommitComplete
<1>4. /\ x \in RestatementRows /\ x.original = restatement[r].original
      /\ x.replacement = restatement[r].replacement
      /\ x.requested_by = restatement[r].requested_by
  BY <1>2 DEF RestatementRows
<1>5. x # None
  BY <1>4, NullAssumption
<1>e. /\ e \in [action : Decisions \union {"completed"},
               entity : Approvals \union Restatements,
               replacement : Inventories \union {None}, by : Users]
      /\ e.action = "completed" /\ e.entity = r /\ r \notin Approvals
  BY <1>1, GovernanceAssumption DEF Event
<1> HIDE DEF x, e
<1>6. TypeOK'
  <2>1. restatement' \in [Restatements -> RestatementRows \union {None}]
    BY <1>3, <1>4 DEF IInv, TypeOK
  <2>2. request' \in [Sessions -> Requests \union {None}]
    BY DEF CommitComplete, Done, IInv, TypeOK
  <2>3. trail' \subseteq [action : Decisions \union {"completed"},
                          entity : Approvals \union Restatements,
                          replacement : Inventories \union {None}, by : Users]
    BY <1>3, <1>e DEF IInv, TypeOK
  <2> QED
    BY <1>3, <2>1, <2>2, <2>3 DEF IInv, TypeOK
<1>7. /\ \A y \in Restatements : y # r => restatement'[y] = restatement[y]
      /\ restatement'[r] = x
      /\ \A j \in Inventories : disposition[j].set \in Nat
  BY <1>1, <1>3 DEF IInv, TypeOK
<1>8. Grows
  BY <1>3, <1>4, <1>5, <1>7, ReportsKept DEF Grows, IInv, Backed
<1>9. RestatementsBacked'
  <2>1. \A y \in Restatements : restatement[y] # None =>
          /\ restatement[y].original \in Inventories
          /\ Released(restatement[y].original) /\ status[restatement[y].original] # None
    BY DEF IInv, TypeOK, RestatementRows, Backed, RestatementsBacked
  <2>2. \A j \in Inventories : Released(j) => Released(j)'
    BY <1>8, ReleasedKept DEF IInv
  <2>3. ASSUME NEW y \in Restatements, restatement'[y] # None,
               NEW j, j = restatement'[y].original
        PROVE  Released(j)' /\ status'[j] # None
    <3>1. restatement[y] # None /\ j = restatement[y].original
      BY <1>1, <1>4, <1>7, <2>3
    <3> QED
      BY <1>3, <2>1, <2>2, <3>1
  <2> QED
    BY <2>3 DEF RestatementsBacked, Released
<1>10. Backed'
  <2>1. DecisionsBacked'
    <3>1. \A f \in trail : f.entity \in Restatements =>
            /\ restatement'[f.entity] # None
            /\ f.action \in Decisions => restatement'[f.entity].requested_by # f.by
      BY <1>8 DEF Grows, IInv, Backed, DecisionsBacked
    <3>2. e.action \notin Decisions /\ restatement'[r] # None
      BY <1>5, <1>7, <1>e DEF Decisions
    <3> QED
      BY <1>3, <1>e, <3>1, <3>2 DEF IInv, Backed, DecisionsBacked
  <2>2. SegregationOfDuties'
    BY <1>3, <1>8, <2>1, Undisturbed DEF IInv
  <2> QED
    BY <1>3, <1>8, <1>9, <2>1, <2>2, Undisturbed DEF IInv, Backed
<1> QED
  BY <1>6, <1>8, <1>10 DEF RowsKept

(* The version of a report that can be inserted is the next one, and the    *)
(* final reports found then are the final reports now.                      *)
LEMMA NumberedNow ==
  ASSUME IInv, NEW q \in Requests, Holds(q), q.op = "numbered",
         VersionFree(report, q.inventory, q.version)
  PROVE  /\ q.version = NextVersion(report, q.inventory)
         /\ q.previous = IF q.finalize THEN FinalReports(q.inventory) ELSE {}
<1> DEFINE i == q.inventory
           n == NextVersion(report, i)
<1>1. i \in Inventories /\ q.version \in Nat \ {0}
  BY RequestTypes DEF Versions
<1>2. n \in Nat \ {0}
  BY NextVersionType DEF IInv, Backed, FiniteTables, Versions
<1>3. /\ q.version <= n
      /\ q.version = n => q.previous = IF q.finalize THEN FinalReports(i) ELSE {}
  BY DEF Holds
<1>4. {report[x].version : x \in RowsOf(report, i)} = 1 .. n - 1
  BY <1>1 DEF IInv, Backed, ReportsNumbered
<1>5. q.version \notin {report[x].version : x \in RowsOf(report, i)}
  BY DEF VersionFree, RowsOf
<1> HIDE DEF n
<1>6. q.version = n
  BY <1>1, <1>2, <1>3, <1>4, <1>5
<1> QED
  BY <1>3, <1>6 DEF n

LEMMA ReportKeeps ==
  ASSUME IInv, NEW s \in Sessions, NEW r \in Reports, CommitReport(s, r)
  PROVE  RowsKept
<1>0. PICK q, i, n : q = request[s] /\ i = q.inventory /\ n = NextVersion(report, i)
  OBVIOUS
<1> DEFINE x == [inventory |-> i, approval |-> q.approval,
                 run |-> approval[q.approval].run, version |-> q.version,
                 payload |-> q.payload,
                 status |-> IF q.finalize THEN "final" ELSE "draft"]
<1>1. /\ q \in Requests /\ Holds(q) /\ q.op = "numbered"
      /\ i \in Inventories /\ q.approval \in Approvals /\ q.version \in Versions
      /\ q.payload \in Payloads /\ q.finalize \in BOOLEAN
  BY <1>0, RequestTypes DEF CommitReport, Serving, IInv, TypeOK, RequestsHold
<1>2. /\ approval[q.approval] # None /\ Decided("approved", q.approval)
      /\ approval[q.approval].run \in Runs
  BY <1>1 DEF Holds, IInv, TypeOK, ApprovalRows
<1>3. /\ q.version = n
      /\ q.previous = IF q.finalize THEN FinalReports(i) ELSE {}
  BY <1>0, <1>1, NumberedNow DEF CommitReport
<1>4. x \in ReportRows
  BY <1>1, <1>2 DEF ReportRows
<1>5. /\ x # None /\ x.inventory = i /\ x.version = n /\ x.approval = q.approval
      /\ x.status = IF q.finalize THEN "final" ELSE "draft"
  BY <1>3, <1>4, NullAssumption
<1>6. /\ report[r] = None
      /\ report' = [y \in Reports |->
           IF y = r THEN x
           ELSE IF y \in q.previous THEN [report[y] EXCEPT !.status = "superseded"]
           ELSE report[y]]
      /\ UNCHANGED <<status, locked_at, data, disposition, run, approval, lock,
                     restatement, trail>>
  BY <1>0 DEF CommitReport
<1> HIDE DEF x
<1>7. report'[r] = x
  BY <1>6
<1>8. ASSUME NEW y \in Reports \ {r}
      PROVE  \/ report'[y] = report[y] /\ ~(q.finalize /\ y \in FinalReports(i))
             \/ /\ q.finalize /\ y \in FinalReports(i)
                /\ report'[y] = [report[y] EXCEPT !.status = "superseded"]
  BY <1>3, <1>6
<1>9. ASSUME NEW y \in Reports \ {r}, report[y] # None
      PROVE  /\ report[y] \in ReportRows
             /\ report'[y] \in ReportRows
             /\ report'[y].inventory = report[y].inventory
             /\ report'[y].approval = report[y].approval
             /\ report'[y].version = report[y].version
             /\ \/ report'[y].status = report[y].status
                   /\ ~(q.finalize /\ y \in FinalReports(i))
                \/ report'[y].status = "superseded" /\ q.finalize /\ y \in FinalReports(i)
  <2>1. report[y] \in ReportRows
    BY <1>9 DEF IInv, TypeOK
  <2>2. CASE report'[y] = report[y] /\ ~(q.finalize /\ y \in FinalReports(i))
    BY <2>1, <2>2
  <2>3. CASE /\ q.finalize /\ y \in FinalReports(i)
             /\ report'[y] = [report[y] EXCEPT !.status = "superseded"]
    BY <2>1, <2>3 DEF ReportRows
  <2> QED
    BY <1>8, <2>2, <2>3
<1>10. ASSUME NEW y \in Reports \ {r}
       PROVE  report[y] = None <=> report'[y] = None
  <2>1. ASSUME report[y] # None
        PROVE  report'[y] # None
    BY <1>9, <2>1, NullAssumption
  <2>2. ASSUME report[y] = None
        PROVE  report'[y] = None
    BY <1>8, <2>2 DEF FinalReports
  <2> QED
    BY <2>1, <2>2
<1>11. DOMAIN report = Reports /\ DOMAIN report' = Reports
  BY <1>6 DEF IInv, TypeOK
<1>12. TypeOK'
  <2>1. report' \in [Reports -> ReportRows \union {None}]
    BY <1>4, <1>6, <1>7, <1>9, <1>10
  <2>2. request' \in [Sessions -> Requests \union {None}]
    BY DEF CommitReport, Done, IInv, TypeOK
  <2> QED
    BY <1>6, <2>1, <2>2 DEF IInv, TypeOK
<1>13. FiniteTables'
  <2>1. Present(report)' = Present(report) \union {r}
    BY <1>5, <1>7, <1>10, <1>11 DEF Present
  <2>2. /\ run' = run /\ approval' = approval
        /\ IsFiniteSet(Present(run)) /\ IsFiniteSet(Present(approval))
        /\ IsFiniteSet(Present(report))
    BY <1>6 DEF IInv, Backed, FiniteTables
  <2>3. IsFiniteSet(Present(report) \union {r})
    BY <2>2, FS_AddElement
  <2> QED
    BY <2>1, <2>2, <2>3 DEF FiniteTables, Present
<1>14. /\ RowsOf(report', i) = RowsOf(report, i) \union {r}
       /\ r \notin RowsOf(report, i)
       /\ \A j \in Inventories \ {i} : RowsOf(report', j) = RowsOf(report, j)
  BY <1>5, <1>6, <1>7, <1>9, <1>10, <1>11 DEF RowsOf
<1>15. /\ n \in Nat \ {0}
       /\ NextVersion(report', i) = n + 1
       /\ \A j \in Inventories \ {i} :
            NextVersion(report', j) = NextVersion(report, j)
       /\ \A j \in Inventories : NextVersion(report, j) \in Nat
  <2>1. \A j : /\ IsFiniteSet(RowsOf(report, j))
               /\ NextVersion(report, j) = 1 + Cardinality(RowsOf(report, j))
               /\ NextVersion(report, j) \in Versions
    BY NextVersionType DEF IInv, Backed, FiniteTables
  <2>2. \A j : NextVersion(report', j) = 1 + Cardinality(RowsOf(report', j))
    BY <1>13, NextVersionType DEF FiniteTables
  <2>3. Cardinality(RowsOf(report', i)) = Cardinality(RowsOf(report, i)) + 1
    BY <1>14, <2>1, FS_AddElement
  <2>4. Cardinality(RowsOf(report, i)) \in Nat
    BY <2>1, FS_CardinalityType
  <2>5. n = 1 + Cardinality(RowsOf(report, i))
    BY <1>0, <2>1
  <2>6. NextVersion(report', i) = n + 1 /\ n \in Nat \ {0}
    BY <2>2, <2>3, <2>4, <2>5
  <2>7. \A j \in Inventories \ {i} : NextVersion(report', j) = NextVersion(report, j)
    BY <1>14, <2>1, <2>2
  <2> QED
    BY <2>1, <2>6, <2>7 DEF Versions
<1>16. Grows
  <2>1. ASSUME NEW j \in Inventories \ {i}
        PROVE  FinalReports(j)' = FinalReports(j)
    <3>1. ASSUME NEW y \in Reports
          PROVE  y \in FinalReports(j)' <=> y \in FinalReports(j)
      <4>1. CASE y = r
        BY <1>5, <1>6, <1>7, <2>1, <4>1 DEF FinalReports
      <4>2. CASE y # r /\ report[y] = None
        BY <1>10, <4>2 DEF FinalReports
      <4>3. CASE y # r /\ report[y] # None
        BY <1>8, <1>9, <1>10, <2>1, <4>3 DEF FinalReports
      <4> QED
        BY <4>1, <4>2, <4>3
    <3> QED
      BY <3>1 DEF FinalReports
  <2>2. ASSUME NEW j \in Inventories
        PROVE  /\ NextVersion(report, j) <= NextVersion(report', j)
               /\ NextVersion(report, j) = NextVersion(report', j) =>
                    FinalReports(j) = FinalReports(j)'
    BY <1>0, <1>15, <2>1
  <2>3. \A j \in Inventories : disposition[j].set \in Nat
    BY DEF IInv, TypeOK
  <2> QED
    BY <1>6, <2>2, <2>3 DEF Grows
<1>17. ReportsNumbered'
  <2>1. {report'[y].version : y \in RowsOf(report', i)} = 1 .. NextVersion(report', i) - 1
    <3>1. {report'[y].version : y \in RowsOf(report', i)}
            = {report[y].version : y \in RowsOf(report, i)} \union {n}
      BY <1>5, <1>7, <1>9, <1>11, <1>14 DEF RowsOf
    <3>2. {report[y].version : y \in RowsOf(report, i)} = 1 .. n - 1
      BY <1>0, <1>1 DEF IInv, Backed, ReportsNumbered
    <3> QED
      BY <1>15, <3>1, <3>2
  <2>2. ASSUME NEW j \in Inventories \ {i}
        PROVE  {report'[y].version : y \in RowsOf(report', j)}
                 = 1 .. NextVersion(report', j) - 1
    <3>0. \A y \in RowsOf(report, j) : report'[y].version = report[y].version
      BY <1>6, <1>9, <1>11 DEF RowsOf
    <3>1. {report'[y].version : y \in RowsOf(report', j)}
            = {report[y].version : y \in RowsOf(report, j)}
      BY <1>14, <3>0
    <3> QED
      BY <1>15, <3>1 DEF IInv, Backed, ReportsNumbered
  <2> QED
    BY <2>1, <2>2 DEF ReportsNumbered
<1>18. OneFinalReport'
  <2> DEFINE Sole(x1, y1) ==
               report'[x1].status = "final" /\ report'[y1].inventory = report'[x1].inventory =>
                 /\ report'[y1].status # "final"
                 /\ report'[y1].status = "superseded" =>
                      report'[y1].version < report'[x1].version
  <2>1. \A y : Decided("approved", y)' <=> Decided("approved", y)
    BY <1>6 DEF Decided
  <2>2. \A y \in Reports : report'[y] # None => Decided("approved", report'[y].approval)
    BY <1>2, <1>5, <1>7, <1>9, <1>10 DEF IInv, Backed, OneFinalReport
  <2>3. ASSUME NEW y \in Reports \ {r}, report'[y] # None
        PROVE  Sole(r, y)
    <3>1. /\ report[y] # None
          /\ report'[y].version = report[y].version
          /\ report'[y].inventory = report[y].inventory
      BY <1>9, <1>10, <2>3
    <3>2. report[y].inventory = i => report[y].version < n
      <4>1. ASSUME report[y].inventory = i
            PROVE  report[y].version \in 1 .. n - 1
        BY <1>0, <1>1, <1>11, <3>1, <4>1 DEF RowsOf, IInv, Backed, ReportsNumbered
      <4> QED
        BY <1>15, <4>1
    <3>3. q.finalize /\ report[y].inventory = i => report'[y].status # "final"
      BY <1>9, <3>1 DEF FinalReports
    <3>4. report'[r].status = "final" => q.finalize
      BY <1>5, <1>7
    <3> QED
      BY <1>5, <1>7, <3>1, <3>2, <3>3, <3>4
  <2>4. ASSUME NEW y \in Reports \ {r}, report'[y] # None
        PROVE  Sole(y, r)
    <3>1. report[y] # None
      BY <1>10, <2>4
    <3>2. report'[r].status # "superseded"
      BY <1>5, <1>7
    <3>3. CASE ~q.finalize
      BY <1>5, <1>7, <3>2, <3>3
    <3>4. CASE q.finalize
      BY <1>5, <1>7, <1>9, <3>1, <3>4 DEF FinalReports
    <3> QED
      BY <3>3, <3>4
  <2>5. ASSUME NEW y \in Reports \ {r}, NEW z \in Reports \ {r}, y # z,
               report'[y] # None, report'[z] # None
        PROVE  Sole(y, z)
    <3>1. report[y] # None /\ report[z] # None
      BY <1>10, <2>5
    <3>2. SUFFICES ASSUME report'[y].status = "final",
                          report'[z].inventory = report'[y].inventory
                   PROVE  /\ report'[z].status # "final"
                          /\ report'[z].status = "superseded" =>
                               report'[z].version < report'[y].version
      OBVIOUS
    <3>3. /\ report[y].status = "final" /\ ~(q.finalize /\ y \in FinalReports(i))
          /\ report[z].inventory = report[y].inventory
      BY <1>9, <3>1, <3>2
    <3>4. /\ report[z].status # "final"
          /\ report[z].status = "superseded" => report[z].version < report[y].version
      BY <2>5, <3>1, <3>3 DEF IInv, Backed, OneFinalReport
    <3>5. z \notin FinalReports(i)
      BY <3>4 DEF FinalReports
    <3> QED
      BY <1>9, <3>1, <3>4, <3>5
  <2> QED
    BY <2>1, <2>2, <2>3, <2>4, <2>5 DEF OneFinalReport
<1>19. Backed'
  <2>1. DecisionsBacked' /\ SegregationOfDuties'
    BY <1>6, <1>16, Undisturbed DEF IInv
  <2> QED
    BY <1>6, <1>13, <1>16, <1>17, <1>18, <2>1, Undisturbed DEF IInv, Backed
<1> QED
  BY <1>12, <1>16, <1>19 DEF RowsKept

----------------------------------------------------------------------------
(* The reads                                                                *)

(* A step that writes no row, and leaves in a session nothing or a request  *)
(* that holds.                                                              *)
LEMMA ReadKeeps ==
  ASSUME IInv, NEW s \in Sessions, NEW q, q = None \/ (q \in Requests /\ Holds(q)),
         request' = [request EXCEPT ![s] = q], UNCHANGED rows
  PROVE  IInv'
<1>1. /\ status' = status /\ locked_at' = locked_at /\ data' = data
      /\ disposition' = disposition /\ run' = run /\ approval' = approval /\ lock' = lock
      /\ restatement' = restatement /\ report' = report /\ trail' = trail
  BY DEF rows
<1>2. TypeOK'
  <2>1. request' \in [Sessions -> Requests \union {None}]
    BY DEF IInv, TypeOK
  <2> QED
    BY <1>1, <2>1 DEF IInv, TypeOK
<1>3. \A j \in Inventories : disposition[j].set \in Nat
  BY DEF IInv, TypeOK
<1>4. Grows
  BY <1>1, <1>3, ReportsKept DEF Grows, IInv, Backed
<1>5. Backed'
  <2>1. DecisionsBacked' /\ SegregationOfDuties'
    BY <1>1, <1>4, Undisturbed DEF IInv
  <2> QED
    BY <1>1, <1>4, <2>1, Undisturbed DEF IInv, Backed
<1>6. RequestsHold'
  BY <1>2, <1>4, <1>5, RequestsKept DEF Backed
<1> QED
  BY <1>2, <1>5, <1>6 DEF IInv

LEMMA DataRequestKeeps ==
  ASSUME IInv, NEW s \in Sessions, NEW i \in Inventories, DataRequest(s, i)
  PROVE  IInv'
<1>1. CASE ReadEdit(s, i)
  <2> DEFINE q == [op |-> "edit", inventory |-> i]
  <2>1. q \in Requests
    BY DEF Requests
  <2>2. Holds(q)
    BY DEF Holds
  <2> QED
    BY <1>1, <2>1, <2>2, ReadKeeps DEF ReadEdit, Receive
<1>2. CASE ReadCalculate(s, i)
  <2> DEFINE q == [op |-> "calculate", inventory |-> i, version |-> NextVersion(run, i),
                   data |-> data[i]]
  <2>1. NextVersion(run, i) \in Versions /\ data[i] \in Data
    BY NextVersionType DEF IInv, Backed, FiniteTables, TypeOK
  <2>2. q \in Requests
    BY <2>1 DEF Requests
  <2>3. Holds(q)
    BY DEF Holds
  <2> QED
    BY <1>2, <2>2, <2>3, ReadKeeps DEF ReadCalculate, Receive
<1> QED
  BY <1>1, <1>2 DEF DataRequest

LEMMA Scope3RequestKeeps ==
  ASSUME IInv, NEW s \in Sessions, NEW u \in Users, NEW i \in Inventories,
         Scope3Request(s, u, i)
  PROVE  IInv'
<1>1. CASE ReadPrepare(s, u, i)
  <2> DEFINE q == [op |-> "prepare", by |-> u, inventory |-> i]
  <2>1. q \in Requests
    BY DEF Requests
  <2>2. Holds(q)
    BY DEF Holds
  <2> QED
    BY <1>1, <2>1, <2>2, ReadKeeps DEF ReadPrepare, Receive
<1>2. CASE ReadApproveScope3(s, u, i)
  <2> DEFINE q == [op |-> "approve_scope3", by |-> u, inventory |-> i,
                   set |-> disposition[i].set]
  <2>1. disposition[i].set \in Nat
    BY DEF IInv, TypeOK
  <2>2. q \in Requests
    BY <2>1 DEF Requests
  <2>3. Holds(q)
    BY <1>2, <2>1 DEF Holds, ReadApproveScope3, MayApproveScope3
  <2> QED
    BY <1>2, <2>2, <2>3, ReadKeeps DEF ReadApproveScope3, Receive
<1> QED
  BY <1>1, <1>2 DEF Scope3Request

LEMMA ApprovalRequestKeeps ==
  ASSUME IInv, NEW s \in Sessions, NEW u \in Users, ApprovalRequest(s, u)
  PROVE  IInv'
<1>1. ASSUME NEW r \in Runs, ReadSubmit(s, u, r)
      PROVE  IInv'
  <2> DEFINE q == [op |-> "submit", by |-> u, run |-> r]
  <2>1. q \in Requests
    BY DEF Requests
  <2>2. Holds(q)
    BY <1>1 DEF Holds, ReadSubmit
  <2> QED
    BY <1>1, <2>1, <2>2, ReadKeeps DEF ReadSubmit, Receive
<1>2. ASSUME NEW a \in Approvals, ReadStart(s, u, a)
      PROVE  IInv'
  <2> DEFINE q == [op |-> "start", by |-> u, approval |-> a]
  <2>1. q \in Requests
    BY DEF Requests
  <2>2. Holds(q)
    BY <1>2 DEF Holds, ReadStart, MayReview
  <2> QED
    BY <1>2, <2>1, <2>2, ReadKeeps DEF ReadStart, Receive
<1>3. ASSUME NEW a \in Approvals, NEW d \in {"approved", "rejected"}, ReadDecide(s, u, a, d)
      PROVE  IInv'
  <2> DEFINE q == [op |-> "decide", by |-> u, approval |-> a, decision |-> d,
                   loaded |-> status[approval[a].inventory]]
  <2>1. /\ approval[a] # None
        /\ approval[a].reviewer_id = u
        /\ d = "approved" => approval[a].checks
    BY <1>3 DEF ReadDecide, MayDecide
  <2>2. /\ approval[a].requested_by # u
        /\ run[approval[a].run] # None
        /\ run[approval[a].run].inventory = approval[a].inventory
    BY <2>1 DEF IInv, Backed, ApprovalsBacked
  <2>3. approval[a].inventory \in Inventories /\ approval[a].run \in Runs
    BY <2>1 DEF IInv, TypeOK, ApprovalRows
  <2>4. status[approval[a].inventory] \in Statuses
    BY <2>2, <2>3 DEF IInv, TypeOK, Backed, RunsBacked
  <2>5. q \in Requests
    BY <2>4 DEF Requests, Decisions
  <2>6. Holds(q)
    BY <2>1, <2>2 DEF Holds
  <2> QED
    BY <1>3, <2>5, <2>6, ReadKeeps DEF ReadDecide, Receive
<1> QED
  BY <1>1, <1>2, <1>3 DEF ApprovalRequest

LEMMA CompletionRequestKeeps ==
  ASSUME IInv, NEW s \in Sessions, NEW u \in Users, NEW r \in Restatements,
         ReadComplete(s, u, r)
  PROVE  IInv'
<1> DEFINE q == [op |-> "complete", by |-> u, restatement |-> r,
                 replacement |-> restatement[r].replacement]
<1>1. restatement[r] \in RestatementRows /\ restatement[r].replacement # None
  BY DEF ReadComplete, Completable, IInv, TypeOK
<1>2. q \in Requests
  BY <1>1 DEF Requests, RestatementRows
<1>3. Holds(q)
  BY DEF Holds, ReadComplete, Completable
<1> QED
  BY <1>2, <1>3, ReadKeeps DEF ReadComplete, Receive

LEMMA RestatementRequestKeeps ==
  ASSUME IInv, NEW s \in Sessions, NEW u \in Users, RestatementRequest(s, u)
  PROVE  IInv'
<1>1. ASSUME NEW i \in Inventories, ReadRestate(s, u, i)
      PROVE  IInv'
  <2> DEFINE q == [op |-> "restate", by |-> u, inventory |-> i]
  <2>1. status[i] \in {"approved", "locked"}
    BY <1>1 DEF ReadRestate, Restatable
  <2>2. status[i] # None /\ Released(i)
    BY <2>1, NullAssumption DEF Statuses, Frozen, IInv, Backed, StatusBacked
  <2>3. q \in Requests
    BY DEF Requests
  <2>4. Holds(q)
    BY <2>2 DEF Holds
  <2> QED
    BY <1>1, <2>3, <2>4, ReadKeeps DEF ReadRestate, Receive
<1>2. ASSUME NEW r \in Restatements, NEW d \in {"approved", "rejected"}, ReadJudge(s, u, r, d)
      PROVE  IInv'
  <2> DEFINE q == [op |-> "judge", by |-> u, restatement |-> r, decision |-> d,
                   loaded |-> status[restatement[r].original],
                   locked |-> locked_at[restatement[r].original]]
  <2>1. restatement[r] # None /\ restatement[r].requested_by # u
    BY <1>2 DEF ReadJudge, MayJudge
  <2>2. restatement[r].original \in Inventories
    BY <2>1 DEF IInv, TypeOK, RestatementRows
  <2>3. /\ status[restatement[r].original] \in Statuses
        /\ locked_at[restatement[r].original] \in BOOLEAN
    BY <2>1, <2>2 DEF IInv, TypeOK, Backed, RestatementsBacked
  <2>4. q \in Requests
    BY <2>3 DEF Requests, Decisions
  <2>5. Holds(q)
    BY <2>1 DEF Holds
  <2> QED
    BY <1>2, <2>4, <2>5, ReadKeeps DEF ReadJudge, Receive
<1>3. ASSUME NEW r \in Restatements, ReadComplete(s, u, r)
      PROVE  IInv'
  BY <1>3, CompletionRequestKeeps
<1> QED
  BY <1>1, <1>2, <1>3 DEF RestatementRequest

(* The newest approved request has its audit event.                         *)
LEMMA NewestDecided ==
  ASSUME IInv, NEW i \in Inventories, NEW a \in Approvals, NewestApproved(i, a)
  PROVE  /\ approval[a] # None /\ approval[a].inventory = i
         /\ Decided("approved", a)
BY DEF IInv, Backed, ApprovalsBacked, NewestApproved, ApprovedFor

LEMMA LockRequestKeeps ==
  ASSUME IInv, NEW s \in Sessions, NEW i \in Inventories, NEW a \in Approvals,
         ReadLock(s, i, a)
  PROVE  IInv'
<1> DEFINE q == [op |-> "lock", inventory |-> i, approval |-> a]
<1>1. q \in Requests
  BY DEF Requests
<1>2. Holds(q)
  BY NewestDecided DEF Holds, ReadLock
<1> QED
  BY <1>1, <1>2, ReadKeeps DEF ReadLock, Receive

LEMMA ReportRequestKeeps ==
  ASSUME IInv, NEW s \in Sessions, NEW i \in Inventories, NEW a \in Approvals,
         NEW b \in Bases, NEW f \in BOOLEAN, ReadReport(s, i, a, b, f)
  PROVE  IInv'
<1> DEFINE p == Payload(i, a, b)
           q == [op |-> "report", inventory |-> i, approval |-> a, payload |-> p,
                 finalize |-> f]
<1>1. p \in Payloads
  <2> DEFINE rs == {x \in Restatements : restatement[x] # None
                      /\ i \in {restatement[x].original, restatement[x].replacement}}
             h == {<<r, restatement[r].status>> : r \in rs}
  <2>1. h \in SUBSET (Restatements \X {"requested", "approved", "rejected", "completed"})
    <3>1. \A r \in rs : /\ r \in Restatements
                        /\ restatement[r].status \in
                             {"requested", "approved", "rejected", "completed"}
      BY DEF IInv, TypeOK, RestatementRows
    <3> QED
      BY <3>1
  <2>2. status[i] \in Frozen /\ data[i] \in Data
    BY DEF ReadReport, IInv, TypeOK
  <2>3. p = [inventory |-> i, basis |-> b, status |-> status[i], approval |-> a,
             data |-> data[i], history |-> h]
    BY DEF Payload
  <2> HIDE DEF p, h
  <2> QED
    BY <2>1, <2>2, <2>3 DEF Payloads
<1> HIDE DEF p
<1>2. q \in Requests
  BY <1>1 DEF Requests
<1>3. Holds(q)
  BY NewestDecided DEF Holds, ReadReport
<1> QED
  BY <1>2, <1>3, ReadKeeps DEF ReadReport, Receive, p

LEMMA CheckSubmitKeeps ==
  ASSUME IInv, NEW s \in Sessions, NEW others \in BOOLEAN, CheckSubmit(s, others)
  PROVE  IInv'
<1> DEFINE r == request[s].run
           c == others /\ CalculationComplete(r)
           v == NextVersion(approval, run[r].inventory)
           q == [op |-> "checked", by |-> request[s].by, run |-> r, version |-> v,
                 checks |-> c]
<1>1. /\ request[s] \in Requests /\ request[s].op = "submit" /\ Holds(request[s])
      /\ r \in Runs /\ request[s].by \in Users
  BY RequestTypes DEF CheckSubmit, Serving, IInv, TypeOK, RequestsHold
<1>2. run[r] # None /\ run[r].completed
  BY <1>1 DEF Holds
<1>3. v \in Versions
  BY NextVersionType DEF IInv, Backed, FiniteTables
<1>4. c \in BOOLEAN
  BY <1>1, <1>2 DEF CalculationComplete, IInv, TypeOK, RunRows
<1>5. request' = [request EXCEPT ![s] = q] /\ UNCHANGED rows
  BY DEF CheckSubmit
<1> HIDE DEF c, v
<1>6. q \in Requests
  BY <1>1, <1>3, <1>4 DEF Requests
<1>7. Holds(q)
  BY <1>2 DEF Holds
<1> QED
  BY <1>5, <1>6, <1>7, ReadKeeps

LEMMA NumberReportKeeps ==
  ASSUME IInv, NEW s \in Sessions, NumberReport(s)
  PROVE  IInv'
<1> DEFINE p == request[s]
           i == p.inventory
           v == NextVersion(report, i)
           f == IF p.finalize THEN FinalReports(i) ELSE {}
           q == [op |-> "numbered", inventory |-> i, approval |-> p.approval,
                 payload |-> p.payload, finalize |-> p.finalize, version |-> v,
                 previous |-> f]
<1>1. /\ p \in Requests /\ p.op = "report" /\ Holds(p)
      /\ i \in Inventories /\ p.approval \in Approvals
      /\ p.payload \in Payloads /\ p.finalize \in BOOLEAN
  BY RequestTypes DEF NumberReport, Serving, IInv, TypeOK, RequestsHold
<1>2. v \in Versions
  BY NextVersionType DEF IInv, Backed, FiniteTables
<1>3. f \in SUBSET Reports
  BY DEF FinalReports
<1>4. /\ approval[p.approval] # None /\ approval[p.approval].inventory = i
      /\ Decided("approved", p.approval)
  BY <1>1 DEF Holds
<1>5. request' = [request EXCEPT ![s] = q] /\ UNCHANGED rows
  BY DEF NumberReport
<1>6. v <= NextVersion(report, i) /\ f = IF p.finalize THEN FinalReports(i) ELSE {}
  BY <1>2 DEF Versions
<1>7. q \in Requests
  <2> HIDE DEF v, f
  <2> QED
    BY <1>1, <1>2, <1>3 DEF Requests
<1>8. Holds(q)
  <2> HIDE DEF v, f
  <2>1. /\ q.op = "numbered" /\ q.inventory = i /\ q.approval = p.approval
        /\ q.finalize = p.finalize /\ q.version = v /\ q.previous = f
    OBVIOUS
  <2> HIDE DEF q
  <2> QED
    BY <1>4, <1>6, <2>1 DEF Holds
<1> QED
  BY <1>5, <1>7, <1>8, ReadKeeps

----------------------------------------------------------------------------
(* The specification                                                        *)

LEMMA Initially ==
  ASSUME Init
  PROVE  IInv
<1>1. TypeOK
  BY GovernanceAssumption
     DEF Init, TypeOK, Statuses, Data, NoActivity, NoDisposition
<1>2. FiniteTables
  <2>1. Present(run) = {} /\ Present(approval) = {} /\ Present(report) = {}
    BY DEF Init, Present
  <2> QED
    BY <2>1, FS_EmptySet DEF FiniteTables
<1>3. ReportsNumbered
  <2>1. \A i : RowsOf(report, i) = {}
    BY DEF Init, RowsOf
  <2>2. \A i : NextVersion(report, i) = 1
    BY <1>2, <2>1, NextVersionType, FS_EmptySet DEF FiniteTables
  <2> QED
    BY <2>1, <2>2 DEF ReportsNumbered
<1>4. \A i \in Inventories : status[i] = None \/ status[i] = "draft"
  BY DEF Init
<1>5. StatusBacked
  <2>1. \A i \in Inventories : status[i] \notin Frozen \union {"restatement_required"}
    BY <1>4, NullAssumption DEF Statuses, Frozen
  <2> QED
    BY <2>1 DEF StatusBacked, Frozen
<1>6. LockLineage
  <2>1. \A i \in Inventories : status[i] # "locked" /\ lock[i] = None /\ ~locked_at[i]
    BY <1>4, NullAssumption DEF Init, Statuses, Frozen
  <2> QED
    BY <2>1 DEF LockLineage
<1>7. RunsBacked /\ ApprovalsBacked /\ RestatementsBacked /\ OneFinalReport
  BY DEF Init, RunsBacked, ApprovalsBacked, RestatementsBacked, OneFinalReport
<1>8. DecisionsBacked /\ SegregationOfDuties
  BY DEF Init, DecisionsBacked, SegregationOfDuties, Scope3Approved, NoDisposition
<1>9. RequestsHold
  BY DEF Init, RequestsHold
<1> QED
  BY <1>1, <1>2, <1>3, <1>5, <1>6, <1>7, <1>8, <1>9 DEF IInv, Backed

(* A commit ends its request.                                               *)
LEMMA CommitKeeps ==
  ASSUME IInv, NEW s \in Sessions, Commit(s)
  PROVE  IInv' /\ Grows
<1>1. RowsKept
  BY EditKeeps, CalculateKeeps, PrepareKeeps, ApproveScope3Keeps, SubmitKeeps, StartKeeps,
     DecideKeeps, LockKeeps, RestateKeeps, ApproveRestatementKeeps, RejectRestatementKeeps,
     CompleteKeeps, ReportKeeps
     DEF Commit
<1>2. Done(s)
  BY DEF Commit, CommitEdit, CommitCalculate, CommitPrepare, CommitApproveScope3,
         CommitSubmit, CommitStart, CommitDecide, CommitLock, CommitRestate,
         CommitApproveRestatement, CommitRejectRestatement, CommitComplete, CommitReport
<1>3. RequestsHold'
  BY <1>1, <1>2, RequestsKept DEF RowsKept, Backed, Done
<1> QED
  BY <1>1, <1>3 DEF RowsKept, IInv

LEMMA NextReads ==
  ASSUME IInv, NEW s \in Sessions, Read(s)
  PROVE  IInv'
BY DataRequestKeeps, Scope3RequestKeeps, ApprovalRequestKeeps, RestatementRequestKeeps,
   LockRequestKeeps, ReportRequestKeeps, CheckSubmitKeeps, NumberReportKeeps
   DEF Read

LEMMA ReadWritesNothing ==
  ASSUME NEW s \in Sessions, Read(s)
  PROVE  UNCHANGED rows
BY DEF Read, DataRequest, Scope3Request, ApprovalRequest, RestatementRequest, ReadEdit,
       ReadCalculate, ReadPrepare, ReadApproveScope3, ReadSubmit, ReadStart, ReadDecide,
       ReadLock, ReadReport, ReadRestate, ReadJudge, ReadComplete, CheckSubmit,
       NumberReport, Receive

LEMMA NextKeeps ==
  ASSUME IInv, [Next]_vars
  PROVE  IInv' /\ LockKept /\ Grows
<1>1. ASSUME UNCHANGED rows
      PROVE  LockKept /\ Grows
  <2>1. /\ status' = status /\ locked_at' = locked_at /\ data' = data
        /\ disposition' = disposition /\ run' = run /\ approval' = approval /\ lock' = lock
        /\ restatement' = restatement /\ report' = report /\ trail' = trail
    BY <1>1 DEF rows
  <2>2. \A j \in Inventories : disposition[j].set \in Nat
    BY DEF IInv, TypeOK
  <2> QED
    BY <2>1, <2>2, ReportsKept DEF LockKept, Grows, IInv, Backed
<1>2. ASSUME Grows
      PROVE  LockKept
  BY <1>2 DEF Grows, LockKept
<1>3. ASSUME NEW s \in Sessions, Read(s)
      PROVE  IInv' /\ LockKept /\ Grows
  BY <1>1, <1>3, NextReads, ReadWritesNothing
<1>4. ASSUME NEW s \in Sessions, Commit(s)
      PROVE  IInv' /\ LockKept /\ Grows
  BY <1>2, <1>4, CommitKeeps
<1>5. ASSUME NEW s \in Sessions, Fail(s)
      PROVE  IInv' /\ LockKept /\ Grows
  BY <1>1, <1>5, ReadKeeps DEF Fail, Done
<1>6. CASE UNCHANGED vars
  <2>1. UNCHANGED rows /\ request' = request
    BY <1>6 DEF vars
  <2>2. CASE Sessions = {}
    <3>1. TypeOK'
      BY <2>1 DEF rows, IInv, TypeOK
    <3>2. Backed'
      <4>1. /\ status' = status /\ locked_at' = locked_at /\ data' = data
            /\ disposition' = disposition /\ run' = run /\ approval' = approval
            /\ lock' = lock /\ restatement' = restatement /\ report' = report
            /\ trail' = trail
        BY <2>1 DEF rows
      <4>2. DecisionsBacked' /\ SegregationOfDuties'
        BY <1>1, <2>1, <4>1, Undisturbed DEF IInv
      <4> QED
        BY <1>1, <2>1, <4>1, <4>2, Undisturbed DEF IInv, Backed
    <3>3. RequestsHold'
      BY <2>2 DEF RequestsHold
    <3> QED
      BY <1>1, <2>1, <3>1, <3>2, <3>3 DEF IInv
  <2>3. ASSUME NEW s \in Sessions
        PROVE  IInv'
    <3>1. PICK q : q = request[s]
      OBVIOUS
    <3>2. q = None \/ (q \in Requests /\ Holds(q))
      BY <3>1 DEF IInv, TypeOK, RequestsHold
    <3>3. request' = [request EXCEPT ![s] = q]
      BY <2>1, <3>1 DEF IInv, TypeOK
    <3> QED
      BY <2>1, <3>2, <3>3, ReadKeeps
  <2> QED
    BY <1>1, <2>1, <2>2, <2>3
<1> QED
  BY <1>3, <1>4, <1>5, <1>6 DEF Next

LEMMA Invariant ==
  Spec => []IInv /\ [][LockKept]_vars /\ [][Grows]_vars
<1>1. Init => IInv
  BY Initially
<1>2. IInv /\ [Next]_vars => IInv' /\ [LockKept]_vars /\ [Grows]_vars
  BY NextKeeps
<1> QED
  BY <1>1, <1>2, PTL DEF Spec

(* Every row, request and audit event has its type.                         *)
THEOREM TypeCorrect == Spec => []TypeOK
BY Invariant, PTL DEF IInv

(* No approval, restatement or set of dispositions is decided by whoever    *)
(* asked for it or prepared it, however requests overlap.                   *)
THEOREM DutiesSegregated == Spec => []SegregationOfDuties
BY Invariant, PTL DEF IInv, Backed

(* Every released inventory has a recorded approval, with its controls, of  *)
(* a completed run of its own; every superseded one a replacement.          *)
THEOREM StatusesBacked == Spec => []StatusBacked
BY Invariant, PTL DEF IInv, Backed

(* Every lock rests on an approval of its inventory that was approved.      *)
THEOREM LocksBacked == Spec => []LockLineage
BY Invariant, PTL DEF IInv, Backed

(* No request replaces or removes a lock.                                   *)
THEOREM LocksPermanent == Spec => LocksImmutable
BY Invariant, PTL DEF LocksImmutable

(* An inventory has one FINAL report at most, newer than any superseded.    *)
THEOREM ReportsFinalOnce == Spec => []OneFinalReport
BY Invariant, PTL DEF IInv, Backed

(* The reports of an inventory are numbered without gap or repetition,      *)
(* although every request takes its number without a lock.                  *)
THEOREM ReportsNumberedInOrder == Spec => []ReportsNumbered
BY Invariant, PTL DEF IInv, Backed

(* History is only added to: completed runs, what was asked and by whom,    *)
(* the audit trail and the locks are never rewritten.                       *)
THEOREM HistoryKept == Spec => [][Grows]_vars
BY Invariant, PTL

----------------------------------------------------------------------------
(* Restatements: what an approval creates, and what a completion relies on  *)

(* An approval of a restatement creates a replacement; a completion is      *)
(* recorded for one that such an approval created and that was released.    *)
EventInOrder(e) ==
    /\ e.action = "approved" /\ e.entity \in Restatements =>
         /\ e.replacement \in Inventories /\ status[e.replacement] # None
         /\ e.replacement # restatement[e.entity].original
    /\ e.action = "completed" =>
         /\ e.entity \in Restatements /\ e.replacement \in Inventories
         /\ e.replacement # restatement[e.entity].original
         /\ Released(e.replacement) /\ Named(e.entity, e.replacement)

RowInOrder(r) ==
    restatement[r] # None =>
      /\ restatement[r].replacement # None => Named(r, restatement[r].replacement)
      /\ restatement[r].status \in {"approved", "completed"} => restatement[r].replacement # None
      /\ restatement[r].status = "completed" => Decided("completed", r)

(* What a completion found, whatever has become of the row since.           *)
CompletionHolds(q) ==
    q.op = "complete" =>
      /\ q.replacement # restatement[q.restatement].original
      /\ Released(q.replacement) /\ Named(q.restatement, q.replacement)
      /\ restatement[q.restatement].replacement # None

RestatementsInOrder ==
    (\A e \in trail : EventInOrder(e)) /\ \A r \in Restatements : RowInOrder(r)

CompletionInv ==
    RestatementsInOrder /\ \A s \in Sessions : request[s] # None => CompletionHolds(request[s])

LEMMA NamedKept ==
  ASSUME TypeOK, Grows
  PROVE  /\ \A r, i : Named(r, i) => Named(r, i)'
         /\ \A d, x : Decided(d, x) => Decided(d, x)'
         /\ \A i \in Inventories : Released(i) => Released(i)'
<1>1. \A r, i : Named(r, i) => Named(r, i)'
  BY DEF Named, Grows
<1>2. \A d, x : Decided(d, x) => Decided(d, x)'
  BY DEF Decided, Grows
<1> QED
  BY <1>1, <1>2, ReleasedKept

LEMMA EventKept ==
  ASSUME IInv, Grows, NEW e \in trail, EventInOrder(e)
  PROVE  EventInOrder(e)'
<1>1. e.entity \in Restatements =>
        /\ restatement[e.entity] # None
        /\ restatement'[e.entity].original = restatement[e.entity].original
  BY DEF IInv, Backed, DecisionsBacked, Grows
<1>2. \A i \in Inventories : status[i] # None => status'[i] # None
  BY DEF Grows
<1>3. /\ e.replacement \in Inventories /\ Released(e.replacement) => Released(e.replacement)'
      /\ Named(e.entity, e.replacement) => Named(e.entity, e.replacement)'
  BY NamedKept DEF IInv
<1> QED
  BY <1>1, <1>2, <1>3 DEF EventInOrder

LEMMA RowKept ==
  ASSUME IInv, Grows, NEW r \in Restatements, RowInOrder(r),
         restatement'[r] = restatement[r]
  PROVE  RowInOrder(r)'
<1>1. PICK x : x = restatement[r]
  OBVIOUS
<1>2. /\ Named(r, x.replacement) => Named(r, x.replacement)'
      /\ Decided("completed", r) => Decided("completed", r)'
  BY NamedKept DEF IInv
<1>3. Named(r, restatement[r].replacement)' <=> Named(r, x.replacement)'
  BY <1>1 DEF Named
<1> QED
  BY <1>1, <1>2, <1>3 DEF RowInOrder

LEMMA CompletionHoldsKept ==
  ASSUME IInv, Grows, NEW q \in Requests, Holds(q), CompletionHolds(q)
  PROVE  CompletionHolds(q)'
<1> SUFFICES ASSUME q.op = "complete" PROVE CompletionHolds(q)'
  BY DEF CompletionHolds
<1>1. /\ q.restatement \in Restatements /\ q.replacement \in Inventories
      /\ restatement[q.restatement] # None
  BY RequestTypes DEF Holds
<1>2. /\ restatement'[q.restatement].original = restatement[q.restatement].original
      /\ restatement[q.restatement].replacement # None =>
           restatement'[q.restatement].replacement # None
  BY <1>1 DEF Grows
<1>3. /\ Released(q.replacement) => Released(q.replacement)'
      /\ Named(q.restatement, q.replacement) => Named(q.restatement, q.replacement)'
  BY <1>1, NamedKept DEF IInv
<1> QED
  BY <1>2, <1>3 DEF CompletionHolds

(* Steps that write no restatement record decisions on approvals at most.   *)
LEMMA OthersInOrder ==
  ASSUME IInv, Grows, RestatementsInOrder, restatement' = restatement,
         \A e \in trail' \ trail : e.entity \in Approvals /\ e.action \in Decisions
  PROVE  RestatementsInOrder'
<1>1. \A r \in Restatements : RowInOrder(r)'
  BY RowKept DEF RestatementsInOrder
<1>2. \A e \in trail' \ trail : e.entity \notin Restatements /\ e.action # "completed"
  BY GovernanceAssumption DEF Decisions
<1>3. \A e \in trail' : EventInOrder(e)'
  BY <1>2, EventKept DEF RestatementsInOrder, EventInOrder
<1> QED
  BY <1>1, <1>3 DEF RestatementsInOrder

(* A step that writes one restatement and records at most one event         *)
LEMMA WrittenInOrder ==
  ASSUME IInv, Grows, RestatementsInOrder,
         NEW r \in Restatements, NEW x, restatement' = [restatement EXCEPT ![r] = x],
         RowInOrder(r)', \A e \in trail' \ trail : EventInOrder(e)'
  PROVE  RestatementsInOrder'
<1>1. \A y \in Restatements \ {r} : restatement'[y] = restatement[y]
  BY DEF IInv, TypeOK
<1>2. \A y \in Restatements : RowInOrder(y)'
  BY <1>1, RowKept DEF RestatementsInOrder
<1>3. \A e \in trail' : EventInOrder(e)'
  BY EventKept DEF RestatementsInOrder
<1> QED
  BY <1>2, <1>3 DEF RestatementsInOrder

LEMMA RestateInOrder ==
  ASSUME IInv, Grows, RestatementsInOrder,
         NEW s \in Sessions, NEW r \in Restatements, CommitRestate(s, r)
  PROVE  RestatementsInOrder'
<1>1. PICK x : x = [original |-> request[s].inventory, replacement |-> None,
                    status |-> "requested", requested_by |-> request[s].by]
  OBVIOUS
<1>2. restatement' = [restatement EXCEPT ![r] = x] /\ trail' = trail
  BY <1>1 DEF CommitRestate
<1>3. restatement'[r] = x /\ x.replacement = None /\ x.status = "requested"
  BY <1>1, <1>2 DEF IInv, TypeOK
<1>4. RowInOrder(r)'
  BY <1>3 DEF RowInOrder
<1> QED
  BY <1>2, <1>4, WrittenInOrder

LEMMA ApproveRestatementInOrder ==
  ASSUME IInv, Grows, RestatementsInOrder,
         NEW s \in Sessions, NEW i \in Inventories, CommitApproveRestatement(s, i)
  PROVE  RestatementsInOrder'
<1>1. PICK r, o : r = request[s].restatement /\ o = restatement[r].original
  OBVIOUS
<1>2. PICK x : x = [restatement[r] EXCEPT !.status = "approved", !.replacement = i]
  OBVIOUS
<1>3. PICK e : e = Event("approved", r, i, request[s].by)
  OBVIOUS
<1>4. r \in Restatements /\ restatement[r] # None
  BY <1>1, RequestTypes
     DEF CommitApproveRestatement, Serving, IInv, TypeOK, RequestsHold, Holds
<1>5. restatement[r] \in RestatementRows
  BY <1>4 DEF IInv, TypeOK
<1>6. o \in Inventories /\ status[o] # None
  BY <1>1, <1>4, <1>5 DEF RestatementRows, IInv, Backed, RestatementsBacked
<1>7. i # o /\ i # None /\ status'[i] # None
  <2>1. status[i] = None /\ i # None
    BY GovernanceAssumption DEF CommitApproveRestatement
  <2>2. i # o
    BY <1>6, <2>1
  <2>3. status'[i] = "draft"
    BY <1>1, <1>6, <2>2 DEF CommitApproveRestatement, IInv, TypeOK
  <2> QED
    BY <2>1, <2>2, <2>3, NullAssumption DEF Statuses
<1>8. restatement' = [restatement EXCEPT ![r] = x] /\ trail' = trail \union {e}
  BY <1>1, <1>2, <1>3, <1>4 DEF CommitApproveRestatement, IInv, TypeOK
<1>9. /\ restatement'[r] = x /\ x.original = o /\ x.replacement = i /\ x.status = "approved"
  BY <1>1, <1>2, <1>4, <1>5, <1>8 DEF RestatementRows, IInv, TypeOK
<1>10. e.action = "approved" /\ e.entity = r /\ e.replacement = i
  BY <1>3 DEF Event
<1>11. Named(r, i)'
  BY <1>8, <1>10 DEF Named
<1>12. RowInOrder(r)'
  <2>1. Named(r, restatement[r].replacement)' <=> Named(r, i)'
    BY <1>9 DEF Named
  <2> QED
    BY <1>7, <1>9, <1>11, <2>1 DEF RowInOrder
<1>13. EventInOrder(e)'
  BY <1>7, <1>9, <1>10 DEF EventInOrder
<1> QED
  BY <1>4, <1>8, <1>12, <1>13, WrittenInOrder

LEMMA RejectRestatementInOrder ==
  ASSUME IInv, Grows, RestatementsInOrder,
         NEW s \in Sessions, CommitRejectRestatement(s)
  PROVE  RestatementsInOrder'
<1>1. PICK r : r = request[s].restatement
  OBVIOUS
<1>2. PICK x : x = [restatement[r] EXCEPT !.status = "rejected"]
  OBVIOUS
<1>3. PICK e : e = Event("rejected", r, None, request[s].by)
  OBVIOUS
<1>4. r \in Restatements /\ restatement[r] # None
  BY <1>1, RequestTypes
     DEF CommitRejectRestatement, Serving, IInv, TypeOK, RequestsHold, Holds
<1>5. restatement' = [restatement EXCEPT ![r] = x] /\ trail' = trail \union {e}
  BY <1>1, <1>2, <1>3 DEF CommitRejectRestatement
<1>6. /\ restatement'[r] = x /\ x.status = "rejected"
      /\ x.replacement = restatement[r].replacement
  BY <1>2, <1>4, <1>5 DEF RestatementRows, IInv, TypeOK
<1>7. RowInOrder(r)'
  <2>1. PICK j : j = x.replacement
    OBVIOUS
  <2>2. Named(r, restatement[r].replacement)' <=> Named(r, j)'
    BY <1>6, <2>1 DEF Named
  <2>3. j # None => Named(r, j)'
    BY <1>4, <1>6, <2>1, NamedKept DEF RestatementsInOrder, RowInOrder, IInv
  <2> QED
    BY <1>6, <2>1, <2>2, <2>3 DEF RowInOrder
<1>8. EventInOrder(e)'
  BY <1>3 DEF EventInOrder, Event
<1> QED
  BY <1>4, <1>5, <1>7, <1>8, WrittenInOrder

LEMMA CompleteInOrder ==
  ASSUME IInv, Grows, CompletionInv, NEW s \in Sessions, CommitComplete(s)
  PROVE  RestatementsInOrder'
<1>1. PICK r, n : r = request[s].restatement /\ n = request[s].replacement
  OBVIOUS
<1>2. PICK x : x = [restatement[r] EXCEPT !.status = "completed"]
  OBVIOUS
<1>3. PICK e : e = Event("completed", r, n, request[s].by)
  OBVIOUS
<1>4. r \in Restatements /\ restatement[r] # None /\ n \in Inventories
  BY <1>1, RequestTypes DEF CommitComplete, Serving, IInv, TypeOK, RequestsHold, Holds
<1>5. restatement' = [restatement EXCEPT ![r] = x] /\ trail' = trail \union {e}
  BY <1>1, <1>2, <1>3 DEF CommitComplete
<1>6. /\ restatement'[r] = x /\ x.status = "completed"
      /\ x.replacement = restatement[r].replacement
      /\ x.original = restatement[r].original
  BY <1>2, <1>4, <1>5 DEF RestatementRows, IInv, TypeOK
<1>7. /\ n # restatement[r].original /\ Released(n) /\ Named(r, n)
      /\ restatement[r].replacement # None
  BY <1>1 DEF CompletionInv, CompletionHolds, CommitComplete, Serving
<1>8. RowInOrder(r)'
  <2>1. PICK j : j = x.replacement
    OBVIOUS
  <2>2. Named(r, restatement[r].replacement)' <=> Named(r, j)'
    BY <1>6, <2>1 DEF Named
  <2>3. j # None /\ Named(r, j)'
    BY <1>4, <1>6, <1>7, <2>1, NamedKept DEF CompletionInv, RestatementsInOrder, RowInOrder, IInv
  <2>4. Decided("completed", r)'
    BY <1>3, <1>5 DEF Decided, Event
  <2> QED
    BY <1>6, <2>1, <2>2, <2>3, <2>4 DEF RowInOrder
<1>9. EventInOrder(e)'
  <2>1. e.action = "completed" /\ e.entity = r /\ e.replacement = n
    BY <1>3 DEF Event
  <2>2. Released(n)' /\ Named(r, n)'
    BY <1>4, <1>7, NamedKept DEF IInv
  <2>3. n # restatement'[r].original
    BY <1>6, <1>7
  <2>4. Released(e.replacement)' <=> Released(n)'
    BY <2>1, <1>5, <1>3 DEF Released
  <2> QED
    BY <1>4, <2>1, <2>2, <2>3 DEF EventInOrder
<1> QED
  BY <1>4, <1>5, <1>8, <1>9, WrittenInOrder DEF CompletionInv

(* A request to complete is read from an approved restatement; the others   *)
(* rely on no completion.                                                   *)
LEMMA ReadInOrder ==
  ASSUME IInv, CompletionInv, NEW s \in Sessions, Read(s)
  PROVE  \E q : request' = [request EXCEPT ![s] = q] /\ CompletionHolds(q)
<1>1. ASSUME NEW q, Receive(s, q), CompletionHolds(q)
      PROVE  \E p : request' = [request EXCEPT ![s] = p] /\ CompletionHolds(p)
  BY <1>1 DEF Receive
<1>2. ASSUME NEW i \in Inventories, DataRequest(s, i)
      PROVE  \E p : request' = [request EXCEPT ![s] = p] /\ CompletionHolds(p)
  BY <1>1, <1>2 DEF DataRequest, ReadEdit, ReadCalculate, CompletionHolds
<1>3. ASSUME NEW u \in Users, NEW i \in Inventories, Scope3Request(s, u, i)
      PROVE  \E p : request' = [request EXCEPT ![s] = p] /\ CompletionHolds(p)
  BY <1>1, <1>3 DEF Scope3Request, ReadPrepare, ReadApproveScope3, CompletionHolds
<1>4. ASSUME NEW u \in Users, ApprovalRequest(s, u)
      PROVE  \E p : request' = [request EXCEPT ![s] = p] /\ CompletionHolds(p)
  BY <1>1, <1>4 DEF ApprovalRequest, ReadSubmit, ReadStart, ReadDecide, CompletionHolds
<1>5. ASSUME NEW u \in Users, NEW i \in Inventories, ReadRestate(s, u, i)
      PROVE  \E p : request' = [request EXCEPT ![s] = p] /\ CompletionHolds(p)
  BY <1>1, <1>5 DEF ReadRestate, CompletionHolds
<1>6. ASSUME NEW u \in Users, NEW r \in Restatements, NEW d, ReadJudge(s, u, r, d)
      PROVE  \E p : request' = [request EXCEPT ![s] = p] /\ CompletionHolds(p)
  BY <1>1, <1>6 DEF ReadJudge, CompletionHolds
<1>7. ASSUME NEW i \in Inventories, NEW a \in Approvals, ReadLock(s, i, a)
      PROVE  \E p : request' = [request EXCEPT ![s] = p] /\ CompletionHolds(p)
  BY <1>1, <1>7 DEF ReadLock, CompletionHolds
<1>8. ASSUME NEW i \in Inventories, NEW a \in Approvals, NEW b \in Bases, NEW f \in BOOLEAN,
             ReadReport(s, i, a, b, f)
      PROVE  \E p : request' = [request EXCEPT ![s] = p] /\ CompletionHolds(p)
  BY <1>1, <1>8 DEF ReadReport, CompletionHolds
<1>9. ASSUME NEW u \in Users, NEW r \in Restatements, ReadComplete(s, u, r)
      PROVE  \E p : request' = [request EXCEPT ![s] = p] /\ CompletionHolds(p)
  <2>1. PICK n : n = restatement[r].replacement
    OBVIOUS
  <2>2. /\ restatement[r] # None /\ n # None
        /\ status[n] \in {"approved", "locked"}
    BY <1>9, <2>1 DEF ReadComplete, Completable, Restatable
  <2>3. n \in Inventories
    BY <2>1, <2>2 DEF IInv, TypeOK, RestatementRows
  <2>4. Released(n)
    BY <2>2, <2>3 DEF IInv, Backed, StatusBacked, Frozen
  <2>5. Named(r, n)
    BY <2>1, <2>2 DEF CompletionInv, RestatementsInOrder, RowInOrder
  <2>6. n # restatement[r].original
    BY <2>5 DEF Named, CompletionInv, RestatementsInOrder, EventInOrder
  <2>7. PICK q : q = [op |-> "complete", by |-> u, restatement |-> r, replacement |-> n]
    OBVIOUS
  <2>8. q.restatement = r /\ q.replacement = n
    BY <2>7
  <2>9. CompletionHolds(q)
    BY <2>1, <2>2, <2>4, <2>5, <2>6, <2>8 DEF CompletionHolds
  <2> QED
    BY <1>1, <1>9, <2>1, <2>7, <2>9 DEF ReadComplete
<1>10. ASSUME NEW others \in BOOLEAN, CheckSubmit(s, others)
       PROVE  \E p : request' = [request EXCEPT ![s] = p] /\ CompletionHolds(p)
  <2> DEFINE r == request[s].run
             v == NextVersion(approval, run[r].inventory)
             c == others /\ CalculationComplete(r)
             q == [op |-> "checked", by |-> request[s].by, run |-> r, version |-> v,
                   checks |-> c]
  <2>1. request' = [request EXCEPT ![s] = q]
    BY <1>10 DEF CheckSubmit
  <2> HIDE DEF v, c
  <2>2. q.op = "checked"
    OBVIOUS
  <2> HIDE DEF q
  <2> QED
    BY <2>1, <2>2 DEF CompletionHolds
<1>11. ASSUME NumberReport(s)
       PROVE  \E p : request' = [request EXCEPT ![s] = p] /\ CompletionHolds(p)
  <2> DEFINE p == request[s]
             v == NextVersion(report, p.inventory)
             f == IF p.finalize THEN FinalReports(p.inventory) ELSE {}
             q == [op |-> "numbered", inventory |-> p.inventory, approval |-> p.approval,
                   payload |-> p.payload, finalize |-> p.finalize, version |-> v,
                   previous |-> f]
  <2>1. request' = [request EXCEPT ![s] = q]
    BY <1>11 DEF NumberReport
  <2> HIDE DEF v, f
  <2>2. q.op = "numbered"
    OBVIOUS
  <2> HIDE DEF q
  <2> QED
    BY <2>1, <2>2 DEF CompletionHolds
<1> QED
  BY <1>2, <1>3, <1>4, <1>5, <1>6, <1>7, <1>8, <1>9, <1>10, <1>11
     DEF Read, RestatementRequest

LEMMA CommitInOrder ==
  ASSUME IInv, Grows, CompletionInv, NEW s \in Sessions, Commit(s)
  PROVE  RestatementsInOrder'
<1>1. ASSUME NEW r \in Restatements, CommitRestate(s, r)
      PROVE  RestatementsInOrder'
  BY <1>1, RestateInOrder DEF CompletionInv
<1>2. ASSUME NEW i \in Inventories, CommitApproveRestatement(s, i)
      PROVE  RestatementsInOrder'
  BY <1>2, ApproveRestatementInOrder DEF CompletionInv
<1>3. ASSUME CommitRejectRestatement(s)
      PROVE  RestatementsInOrder'
  BY <1>3, RejectRestatementInOrder DEF CompletionInv
<1>4. ASSUME CommitComplete(s)
      PROVE  RestatementsInOrder'
  BY <1>4, CompleteInOrder
<1>5. ASSUME CommitDecide(s)
      PROVE  RestatementsInOrder'
  <2>1. request[s].approval \in Approvals /\ request[s].decision \in Decisions
    BY <1>5, RequestTypes DEF CommitDecide, Serving, IInv, TypeOK
  <2>2. PICK e : e = Event(request[s].decision, request[s].approval, None, request[s].by)
    OBVIOUS
  <2>3. trail' = trail \union {e} /\ restatement' = restatement
    BY <1>5, <2>2 DEF CommitDecide
  <2>4. e.entity \in Approvals /\ e.action \in Decisions
    BY <2>1, <2>2 DEF Event
  <2> QED
    BY <2>3, <2>4, OthersInOrder DEF CompletionInv
<1>6. ASSUME CommitEdit(s) \/ (\E r \in Runs, c \in BOOLEAN : CommitCalculate(s, r, c))
             \/ CommitPrepare(s) \/ CommitApproveScope3(s)
             \/ (\E a \in Approvals : CommitSubmit(s, a)) \/ CommitStart(s)
             \/ CommitLock(s) \/ (\E r \in Reports : CommitReport(s, r))
      PROVE  RestatementsInOrder'
  <2>1. restatement' = restatement /\ trail' = trail
    BY <1>6 DEF CommitEdit, CommitCalculate, CommitPrepare, CommitApproveScope3, CommitSubmit,
                CommitStart, CommitLock, CommitReport
  <2> QED
    BY <2>1, OthersInOrder DEF CompletionInv
<1> QED
  BY <1>1, <1>2, <1>3, <1>4, <1>5, <1>6 DEF Commit

LEMMA CompletionStep ==
  ASSUME IInv, CompletionInv, [Next]_vars
  PROVE  CompletionInv'
<1>1. IInv' /\ Grows
  BY NextKeeps
<1>2. ASSUME NEW q, CompletionHolds(q), q \in Requests, Holds(q)
      PROVE  CompletionHolds(q)'
  BY <1>1, <1>2, CompletionHoldsKept
<1>3. ASSUME NEW t \in Sessions, request'[t] = request[t], request'[t] # None,
             NEW q, q = request[t]
      PROVE  CompletionHolds(q)'
  BY <1>2, <1>3 DEF CompletionInv, IInv, TypeOK, RequestsHold
<1>4. ASSUME UNCHANGED rows
      PROVE  RestatementsInOrder' /\ \A q : CompletionHolds(q) => CompletionHolds(q)'
  <2>1. /\ status' = status /\ run' = run /\ approval' = approval
        /\ restatement' = restatement /\ trail' = trail
    BY <1>4 DEF rows
  <2>2. RestatementsInOrder'
    BY <1>1, <2>1, OthersInOrder DEF CompletionInv
  <2>3. \A q : CompletionHolds(q) => CompletionHolds(q)'
    BY <2>1 DEF CompletionHolds, Released, Named, Decided
  <2> QED
    BY <2>2, <2>3
<1>5. ASSUME NEW s \in Sessions, NEW q, request' = [request EXCEPT ![s] = q],
             q # None => CompletionHolds(q)', RestatementsInOrder'
      PROVE  CompletionInv'
  <2>1. ASSUME NEW t \in Sessions, request'[t] # None
        PROVE  CompletionHolds(request[t])'
    <3>1. PICK p : p = request'[t]
      OBVIOUS
    <3>2. CASE t = s
      <4>1. p = q
        BY <1>5, <3>1, <3>2 DEF IInv, TypeOK
      <4>2. CompletionHolds(p)'
        BY <1>5, <2>1, <3>1, <4>1
      <4> QED
        BY <3>1, <4>2 DEF CompletionHolds
    <3>3. CASE t # s
      <4>1. request'[t] = request[t]
        BY <1>5, <3>3 DEF IInv, TypeOK
      <4>2. CompletionHolds(p)'
        BY <1>3, <2>1, <3>1, <4>1
      <4> QED
        BY <3>1, <4>2 DEF CompletionHolds
    <3> QED
      BY <3>2, <3>3
  <2> QED
    BY <1>5, <2>1 DEF CompletionInv
<1>6. ASSUME NEW s \in Sessions, Read(s)
      PROVE  CompletionInv'
  BY <1>4, <1>5, <1>6, ReadInOrder, ReadWritesNothing
<1>7. ASSUME NEW s \in Sessions, Fail(s)
      PROVE  CompletionInv'
  BY <1>4, <1>5, <1>7 DEF Fail, Done
<1>8. ASSUME NEW s \in Sessions, Commit(s)
      PROVE  CompletionInv'
  <2>1. Done(s)
    BY <1>8 DEF Commit, CommitEdit, CommitCalculate, CommitPrepare, CommitApproveScope3,
                CommitSubmit, CommitStart, CommitDecide, CommitLock, CommitRestate,
                CommitApproveRestatement, CommitRejectRestatement, CommitComplete,
                CommitReport
  <2> QED
    BY <1>1, <1>5, <1>8, <2>1, CommitInOrder DEF Done
<1>9. CASE UNCHANGED vars
  <2>1. UNCHANGED rows /\ request' = request
    BY <1>9 DEF vars
  <2>2. ASSUME NEW t \in Sessions, request'[t] # None
        PROVE  CompletionHolds(request[t])'
    <3>1. PICK p : p = request[t]
      OBVIOUS
    <3>2. CompletionHolds(p)'
      BY <1>3, <2>1, <2>2, <3>1
    <3> QED
      BY <2>1, <3>1, <3>2 DEF CompletionHolds
  <2> QED
    BY <1>4, <2>1, <2>2 DEF CompletionInv
<1> QED
  BY <1>6, <1>7, <1>8, <1>9 DEF Next

LEMMA CompletionInvariant == Spec => [](IInv /\ CompletionInv)
<1>1. Init => CompletionInv
  BY DEF Init, CompletionInv, RestatementsInOrder, RowInOrder
<1>2. IInv /\ CompletionInv /\ [Next]_vars => CompletionInv'
  BY CompletionStep
<1> QED
  BY <1>1, <1>2, Invariant, PTL DEF Spec

(* A completion is recorded for a released replacement that an approval of  *)
(* the restatement created, whatever decisions and completions overlap.     *)
THEOREM CompletionsNamed == Spec => []CompletionBacked
<1>1. IInv /\ CompletionInv => CompletionBacked
  <2> SUFFICES ASSUME IInv, CompletionInv PROVE CompletionBacked
    OBVIOUS
  <2>1. \A e \in trail : EventInOrder(e)
    BY DEF CompletionInv, RestatementsInOrder
  <2>2. \A r \in Restatements : RowInOrder(r)
    BY DEF CompletionInv, RestatementsInOrder
  <2> QED
    BY <2>1, <2>2 DEF CompletionBacked, EventInOrder, RowInOrder
<1> QED
  BY <1>1, CompletionInvariant, PTL
----------------------------------------------------------------------------
(* Refinement: the book of GovernanceLedger                                 *)

(* What the entries of the book are, one by one.                            *)
LEMMA Entries ==
  ASSUME IInv
  PROVE  /\ \A a, i : <<a, i>> \in ApprovedPairs <=>
               /\ a \in Approvals /\ i \in Inventories
               /\ approval[a] # None /\ approval[a].inventory = i /\ Decided("approved", a)
         /\ \A p \in ApprovedPairs : p \in Approvals \X Inventories
         /\ \A i \in Inventories : Released(i) => \E a \in Approvals : <<a, i>> \in ApprovedPairs
         /\ \A i : Ledger!Released(i) => i \in Inventories /\ status[i] # None
<1>1. \A a, i : <<a, i>> \in ApprovedPairs <=>
         /\ a \in Approvals /\ i \in Inventories
         /\ approval[a] # None /\ approval[a].inventory = i /\ Decided("approved", a)
  BY DEF ApprovedPairs
<1>2. \A p \in ApprovedPairs : p \in Approvals \X Inventories
  BY DEF ApprovedPairs
<1>3. \A i \in Inventories : Released(i) => \E a \in Approvals : <<a, i>> \in ApprovedPairs
  BY <1>1 DEF Released
<1>4. ASSUME NEW i, NEW a \in Approvals, <<a, i>> \in ApprovedPairs
      PROVE  i \in Inventories /\ status[i] # None
  <2>1. /\ i \in Inventories /\ approval[a] # None /\ approval[a].inventory = i
    BY <1>1, <1>4
  <2>2. approval[a].run \in Runs
    BY <2>1 DEF IInv, TypeOK, ApprovalRows
  <2> QED
    BY <2>1, <2>2 DEF IInv, Backed, ApprovalsBacked, RunsBacked
<1> QED
  BY <1>1, <1>2, <1>3, <1>4 DEF Ledger!Released

(* No new approval: the approved pairs stay as they are.                    *)
LEMMA ApprovedKept ==
  ASSUME IInv, Grows, \A e \in trail' \ trail : e.entity \in Approvals => e.action # "approved"
  PROVE  ApprovedPairs' = ApprovedPairs
<1>1. ASSUME NEW a \in Approvals
      PROVE  /\ Decided("approved", a)' <=> Decided("approved", a)
             /\ Decided("approved", a) =>
                  /\ approval[a] # None /\ approval'[a] # None
                  /\ approval'[a].inventory = approval[a].inventory
  BY DEF Decided, Grows, IInv, Backed, DecisionsBacked
<1>2. ApprovedPairs' = {p \in Approvals \X Inventories :
                          /\ approval'[p[1]] # None /\ approval'[p[1]].inventory = p[2]
                          /\ Decided("approved", p[1])'}
  BY DEF ApprovedPairs, Decided
<1>3. ASSUME NEW p \in Approvals \X Inventories
      PROVE  (/\ approval'[p[1]] # None /\ approval'[p[1]].inventory = p[2]
              /\ Decided("approved", p[1])')
             <=> (/\ approval[p[1]] # None /\ approval[p[1]].inventory = p[2]
                  /\ Decided("approved", p[1]))
  <2>1. PICK a \in Approvals : a = p[1]
    OBVIOUS
  <2>2. Decided("approved", p[1])' <=> Decided("approved", a)'
    BY <2>1 DEF Decided
  <2> QED
    BY <1>1, <2>1, <2>2
<1> QED
  BY <1>2, <1>3 DEF ApprovedPairs

(* No approval of a restatement: the replacements stay as they are.         *)
LEMMA ReplacementsKept ==
  ASSUME IInv, Grows,
         \A e \in trail' \ trail : e.entity \in Restatements => e.action # "approved"
  PROVE  Replacements' = Replacements
<1>1. {d \in trail' : d.action = "approved" /\ d.entity \in Restatements}
      = {d \in trail : d.action = "approved" /\ d.entity \in Restatements}
  BY DEF Grows
<1>2. \A d \in trail : d.entity \in Restatements =>
        restatement'[d.entity].original = restatement[d.entity].original
  BY DEF Grows, IInv, Backed, DecisionsBacked
<1> QED
  BY <1>1, <1>2 DEF Replacements

LEMMA CompletionsKept ==
  ASSUME Grows, \A e \in trail' \ trail : e.action # "completed"
  PROVE  Completions' = Completions
<1>1. {d \in trail' : d.action = "completed"} = {d \in trail : d.action = "completed"}
  BY DEF Grows
<1> QED
  BY <1>1 DEF Completions

(* A step that records nothing keeps the entries that the trail holds.      *)
LEMMA NothingRecorded ==
  ASSUME IInv, Grows, trail' = trail
  PROVE  /\ ApprovedPairs' = ApprovedPairs
         /\ Replacements' = Replacements
         /\ Completions' = Completions
BY ApprovedKept, ReplacementsKept, CompletionsKept

LEMMA DecideEnters ==
  ASSUME IInv, Grows, NEW s \in Sessions, CommitDecide(s)
  PROVE  [Ledger!Next]_(Ledger!book)
<1>1. PICK a, d, i : /\ a = request[s].approval /\ d = request[s].decision
                     /\ i = approval[a].inventory
  OBVIOUS
<1>2. /\ request[s] # None /\ request[s] \in Requests /\ Holds(request[s])
      /\ request[s].op = "decide"
  BY DEF CommitDecide, Serving, IInv, TypeOK, RequestsHold
<1>3. a \in Approvals /\ d \in Decisions /\ approval[a] # None
  BY <1>1, <1>2, RequestTypes DEF Holds
<1>4. i \in Inventories
  BY <1>1, <1>3 DEF IInv, TypeOK, ApprovalRows
<1>5. PICK e : e = Event(d, a, None, request[s].by)
  OBVIOUS
<1>6. e.action = d /\ e.entity = a /\ a \notin Restatements
  BY <1>3, <1>5, GovernanceAssumption DEF Event
<1>7. trail' = trail \union {e} /\ lock' = lock /\ report' = report
  BY <1>1, <1>5 DEF CommitDecide
<1>8. /\ LockedOn' = LockedOn /\ Editions' = Editions
      /\ Replacements' = Replacements /\ Completions' = Completions
  BY <1>3, <1>6, <1>7, ReplacementsKept, CompletionsKept DEF LockedOn, Editions, Decisions
<1>9. CASE d = "rejected"
  <2>1. ApprovedPairs' = ApprovedPairs
    BY <1>6, <1>7, <1>9, ApprovedKept
  <2> QED
    BY <1>8, <2>1 DEF Ledger!book
<1>10. CASE d = "approved"
  <2>1. \A x \in Approvals : Decided("approved", x)' <=> Decided("approved", x) \/ x = a
    BY <1>6, <1>7, <1>10 DEF Decided
  <2>2. \A x \in Approvals : approval[x] # None \/ x = a =>
          approval'[x] # None /\ approval'[x].inventory = approval[x].inventory
    BY <1>3 DEF Grows
  <2>3. \A x \in Approvals : Decided("approved", x) => approval[x] # None
    BY DEF Decided, IInv, Backed, DecisionsBacked
  <2>4. \A x \in Approvals, j \in Inventories :
          <<x, j>> \in ApprovedPairs' <=>
            approval'[x] # None /\ approval'[x].inventory = j /\ Decided("approved", x)'
    BY DEF ApprovedPairs, Decided
  <2>5. ASSUME NEW x \in Approvals, NEW j \in Inventories
        PROVE  (/\ approval'[x] # None /\ approval'[x].inventory = j /\ Decided("approved", x)')
               <=> \/ approval[x] # None /\ approval[x].inventory = j /\ Decided("approved", x)
                   \/ x = a /\ j = i
    BY <1>1, <1>3, <2>1, <2>2, <2>3
  <2>6. \A x \in Approvals, j \in Inventories :
          <<x, j>> \in ApprovedPairs' <=> <<x, j>> \in ApprovedPairs \/ (x = a /\ j = i)
    BY <2>4, <2>5, Entries
  <2>7. /\ ApprovedPairs \subseteq Approvals \X Inventories
        /\ ApprovedPairs' \subseteq Approvals \X Inventories
    BY DEF ApprovedPairs
  <2>8. ApprovedPairs' = ApprovedPairs \union {<<a, i>>}
    BY <1>3, <1>4, <2>6, <2>7
  <2>9. CASE <<a, i>> \in ApprovedPairs
    BY <1>8, <2>8, <2>9 DEF Ledger!book
  <2>10. CASE <<a, i>> \notin ApprovedPairs
    <3>1. \A p \in ApprovedPairs : p[1] # a
      BY <1>1, <2>7, <2>10, Entries DEF ApprovedPairs
    <3>2. Ledger!Approve(a, i)
      BY <1>8, <2>8, <3>1 DEF Ledger!Approve
    <3> QED
      BY <1>3, <1>4, <3>2 DEF Ledger!Next
  <2> QED
    BY <2>9, <2>10
<1> QED
  BY <1>3, <1>9, <1>10 DEF Decisions

LEMMA LockEnters ==
  ASSUME IInv, Grows, NEW s \in Sessions, CommitLock(s)
  PROVE  Ledger!Next
<1>1. PICK a, i : a = request[s].approval /\ i = request[s].inventory
  OBVIOUS
<1>2. /\ request[s] # None /\ request[s] \in Requests /\ Holds(request[s])
      /\ request[s].op = "lock"
  BY DEF CommitLock, Serving, IInv, TypeOK, RequestsHold
<1>3. a \in Approvals /\ i \in Inventories
  BY <1>1, <1>2, RequestTypes
<1>4. approval[a] # None /\ approval[a].inventory = i /\ Decided("approved", a)
  BY <1>1, <1>2 DEF Holds
<1>5. PICK x : x = [approval |-> a, run |-> approval[a].run, data |-> data[i]]
  OBVIOUS
<1>6. lock[i] = None /\ lock' = [lock EXCEPT ![i] = x]
  BY <1>1, <1>5 DEF CommitLock, LockFree
<1>7. x.approval = a /\ x \in LockRows
  BY <1>3, <1>4, <1>5 DEF LockRows, IInv, TypeOK, ApprovalRows
<1>8. x # None
  BY <1>7, NullAssumption
<1>9. LockedOn[i] = None /\ LockedOn' = [LockedOn EXCEPT ![i] = a]
  BY <1>3, <1>6, <1>7, <1>8 DEF LockedOn, IInv, TypeOK
<1>10. trail' = trail /\ report' = report
  BY DEF CommitLock
<1>11. /\ ApprovedPairs' = ApprovedPairs /\ Replacements' = Replacements
       /\ Completions' = Completions /\ Editions' = Editions
  BY <1>10, NothingRecorded DEF Editions
<1>12. Ledger!Lock(i, a)
  BY <1>9, <1>11 DEF Ledger!Lock
<1>13. <<a, i>> \in ApprovedPairs /\ <<a, i>>[1] = a /\ <<a, i>>[2] = i
  BY <1>3, <1>4, Entries
<1> QED
  BY <1>12, <1>13 DEF Ledger!Next

LEMMA ApproveRestatementEnters ==
  ASSUME IInv, RestatementsInOrder, Grows,
         NEW s \in Sessions, NEW i \in Inventories, CommitApproveRestatement(s, i)
  PROVE  Ledger!Next
<1>1. PICK r, o : r = request[s].restatement /\ o = restatement[r].original
  OBVIOUS
<1>2. PICK e : e = Event("approved", r, i, request[s].by)
  OBVIOUS
<1>3. r \in Restatements /\ restatement[r] # None
  BY <1>1, RequestTypes
     DEF CommitApproveRestatement, Serving, IInv, TypeOK, RequestsHold, Holds
<1>4. o \in Inventories /\ status[o] # None /\ Released(o)
  BY <1>1, <1>3 DEF IInv, TypeOK, RestatementRows, Backed, RestatementsBacked
<1>5. status[i] = None /\ i # o
  BY <1>4 DEF CommitApproveRestatement
<1>6. trail' = trail \union {e} /\ lock' = lock /\ report' = report
  BY <1>1, <1>2 DEF CommitApproveRestatement
<1>7. e.action = "approved" /\ e.entity = r /\ e.replacement = i /\ r \notin Approvals
  BY <1>2, <1>3, GovernanceAssumption DEF Event
<1>8. /\ ApprovedPairs' = ApprovedPairs /\ LockedOn' = LockedOn
      /\ Completions' = Completions /\ Editions' = Editions
  BY <1>6, <1>7, ApprovedKept, CompletionsKept DEF LockedOn, Editions
<1>9. Replacements' = Replacements \union {<<r, o, i>>}
  <2> DEFINE D == {d \in trail : d.action = "approved" /\ d.entity \in Restatements}
  <2>1. {d \in trail' : d.action = "approved" /\ d.entity \in Restatements} = D \union {e}
    BY <1>3, <1>6, <1>7
  <2>2. \A d \in D \union {e} :
          restatement'[d.entity].original = restatement[d.entity].original
    BY <1>3, <1>7 DEF Grows, IInv, Backed, DecisionsBacked
  <2>3. Replacements = {<<d.entity, restatement[d.entity].original, d.replacement>> : d \in D}
    BY DEF Replacements
  <2>4. Replacements' = {<<d.entity, restatement'[d.entity].original, d.replacement>> :
                           d \in D \union {e}}
    BY <2>1 DEF Replacements
  <2> HIDE DEF D
  <2> QED
    BY <1>1, <1>7, <2>2, <2>3, <2>4
<1>10. ~Ledger!Released(i)
  BY <1>5, Entries
<1>11. ASSUME NEW t \in Replacements
       PROVE  t[3] # i /\ (t[1] = r => t[2] = o)
  <2>1. PICK d \in trail :
          /\ d.action = "approved" /\ d.entity \in Restatements
          /\ t = <<d.entity, restatement[d.entity].original, d.replacement>>
    BY DEF Replacements
  <2>2. status[d.replacement] # None
    BY <2>1 DEF RestatementsInOrder, EventInOrder
  <2> QED
    BY <1>1, <1>5, <2>1, <2>2
<1>12. Ledger!Replace(r, o, i)
  BY <1>5, <1>8, <1>9, <1>10, <1>11 DEF Ledger!Replace
<1>13. PICK a \in Approvals : <<a, o>> \in ApprovedPairs
  BY <1>4, Entries
<1>14. PICK p \in ApprovedPairs : p[2] = o
  BY <1>13
<1> QED
  BY <1>3, <1>12, <1>14 DEF Ledger!Next

LEMMA RejectRestatementEnters ==
  ASSUME IInv, Grows, NEW s \in Sessions, CommitRejectRestatement(s)
  PROVE  UNCHANGED Ledger!book
<1>1. PICK e : e = Event("rejected", request[s].restatement, None, request[s].by)
  OBVIOUS
<1>2. trail' = trail \union {e} /\ lock' = lock /\ report' = report
  BY <1>1 DEF CommitRejectRestatement
<1>3. e.action = "rejected"
  BY <1>1 DEF Event
<1> QED
  BY <1>2, <1>3, ApprovedKept, ReplacementsKept, CompletionsKept
     DEF Ledger!book, LockedOn, Editions

LEMMA CompleteEnters ==
  ASSUME IInv, CompletionInv, Grows, NEW s \in Sessions, CommitComplete(s)
  PROVE  Ledger!Next
<1>1. PICK r, n : r = request[s].restatement /\ n = request[s].replacement
  OBVIOUS
<1>2. PICK e : e = Event("completed", r, n, request[s].by)
  OBVIOUS
<1>3. r \in Restatements /\ restatement[r] # None /\ n \in Inventories
  BY <1>1, RequestTypes DEF CommitComplete, Serving, IInv, TypeOK, RequestsHold, Holds
<1>4. Released(n) /\ Named(r, n)
  BY <1>1 DEF CompletionInv, CompletionHolds, CommitComplete, Serving
<1>5. trail' = trail \union {e} /\ lock' = lock /\ report' = report
  BY <1>1, <1>2 DEF CommitComplete
<1>6. e.action = "completed" /\ e.entity = r /\ e.replacement = n
  BY <1>2 DEF Event
<1>7. /\ ApprovedPairs' = ApprovedPairs /\ LockedOn' = LockedOn
      /\ Replacements' = Replacements /\ Editions' = Editions
  BY <1>5, <1>6, ApprovedKept, ReplacementsKept DEF LockedOn, Editions
<1>8. Completions' = Completions \union {<<r, n>>}
  <2> DEFINE D == {d \in trail : d.action = "completed"}
  <2>1. {d \in trail' : d.action = "completed"} = D \union {e}
    BY <1>5, <1>6
  <2>2. Completions = {<<d.entity, d.replacement>> : d \in D}
    BY DEF Completions
  <2>3. Completions' = {<<d.entity, d.replacement>> : d \in D \union {e}}
    BY <2>1 DEF Completions
  <2> HIDE DEF D
  <2> QED
    BY <1>6, <2>2, <2>3
<1>9. Ledger!Released(n)
  BY <1>3, <1>4, Entries DEF Ledger!Released
<1>10. Ledger!Complete(r, n)
  BY <1>7, <1>8, <1>9 DEF Ledger!Complete
<1>11. PICK t \in Replacements : t[1] = r /\ t[3] = n
  <2>1. PICK d \in trail : d.action = "approved" /\ d.entity = r /\ d.replacement = n
    BY <1>4 DEF Named
  <2>2. <<d.entity, restatement[d.entity].original, d.replacement>> \in Replacements
    BY <1>3, <2>1 DEF Replacements
  <2> QED
    BY <2>1, <2>2
<1> QED
  BY <1>10, <1>11 DEF Ledger!Next

LEMMA ReportEnters ==
  ASSUME IInv, Grows, NEW s \in Sessions, NEW r \in Reports, CommitReport(s, r)
  PROVE  Ledger!Next
<1>1. PICK q : q = request[s]
  OBVIOUS
<1>2. q \in Requests /\ Holds(q) /\ q.op = "numbered"
  BY <1>1 DEF CommitReport, Serving, IInv, TypeOK, RequestsHold
<1>3. PICK i, a, v, f : /\ i = q.inventory /\ a = q.approval
                        /\ v = q.version /\ f = q.finalize
  OBVIOUS
<1>4. i \in Inventories /\ a \in Approvals /\ v \in Nat \ {0} /\ f \in BOOLEAN
  BY <1>2, <1>3, RequestTypes DEF Versions
<1>5. approval[a] # None /\ approval[a].inventory = i /\ Decided("approved", a)
  BY <1>2, <1>3 DEF Holds
<1>6. report[r] = None /\ VersionFree(report, i, v)
  BY <1>1, <1>3 DEF CommitReport
<1>7. v = NextVersion(report, i) /\ q.previous = IF f THEN FinalReports(i) ELSE {}
  BY <1>2, <1>3, <1>6, NumberedNow
<1>8. {report[x].version : x \in RowsOf(report, i)} = 1 .. v - 1
  BY <1>4, <1>7 DEF IInv, Backed, ReportsNumbered
<1> DEFINE st == IF f THEN "final" ELSE "draft"
           new == [inventory |-> i, version |-> v, approval |-> a, status |-> st]
           E(x) == Edition(report[x])
           G(e) == IF f /\ e.inventory = i THEN Ledger!Superseded(e) ELSE e
<1>9. report'[r] # None /\ Edition(report'[r]) = new
  <2>1. PICK x : x = [inventory |-> i, approval |-> a, run |-> approval[a].run, version |-> v,
                      payload |-> q.payload, status |-> st]
    OBVIOUS
  <2>2. report'[r] = x
    BY <1>1, <1>3, <2>1 DEF CommitReport
  <2>3. x \in ReportRows
    BY <1>2, <1>4, <1>5, <2>1, RequestTypes
       DEF ReportRows, Versions, IInv, TypeOK, ApprovalRows
  <2>4. x # None
    BY <2>3, NullAssumption
  <2>5. Edition(x) = new
    BY <2>1 DEF Edition
  <2> QED
    BY <2>2, <2>4, <2>5
<1>10. ASSUME NEW x \in Reports \ {r}, report[x] # None
       PROVE  report'[x] # None /\ Edition(report'[x]) = G(E(x))
  <2>1. report[x] \in ReportRows
    BY <1>10 DEF IInv, TypeOK
  <2>2. report'[x] = IF x \in q.previous THEN [report[x] EXCEPT !.status = "superseded"]
                     ELSE report[x]
    BY <1>1, <1>10 DEF CommitReport
  <2>3. x \in q.previous <=> f /\ report[x].inventory = i /\ report[x].status = "final"
    BY <1>7, <1>10 DEF FinalReports
  <2>4. /\ E(x).inventory = report[x].inventory /\ E(x).status = report[x].status
    BY DEF Edition
  <2>5. CASE x \in q.previous
    <3>1. report'[x] = [report[x] EXCEPT !.status = "superseded"]
      BY <2>2, <2>5
    <3>2. report'[x] \in ReportRows
      BY <2>1, <3>1 DEF ReportRows
    <3>3. Edition(report'[x]) = [E(x) EXCEPT !.status = "superseded"]
      BY <2>1, <3>1 DEF ReportRows, Edition
    <3> QED
      BY <2>3, <2>4, <2>5, <3>2, <3>3, NullAssumption DEF Ledger!Superseded
  <2>6. CASE x \notin q.previous
    <3>1. report'[x] = report[x]
      BY <2>2, <2>6
    <3>2. G(E(x)) = E(x)
      BY <2>3, <2>4, <2>6 DEF Ledger!Superseded
    <3> QED
      BY <1>10, <3>1, <3>2
  <2> QED
    BY <2>5, <2>6
<1>11. ASSUME NEW x \in Reports \ {r}, report[x] = None
       PROVE  report'[x] = None
  <2>1. x \notin q.previous
    BY <1>7, <1>11 DEF FinalReports
  <2> QED
    BY <1>1, <1>11, <2>1 DEF CommitReport
<1>12. Editions' = {G(e) : e \in Editions} \union {new}
  <2> DEFINE P == {y \in Reports : report[y] # None}
  <2>1. {y \in Reports : report'[y] # None} = P \union {r}
    BY <1>9, <1>10, <1>11
  <2>2. Editions' = {Edition(report'[x]) : x \in P \union {r}}
    BY <2>1 DEF Editions
  <2>3. Editions = {E(x) : x \in P}
    BY DEF Editions
  <2>4. \A x \in P : Edition(report'[x]) = G(E(x))
    BY <1>6, <1>10
  <2> HIDE DEF P, E, G, new
  <2> QED
    BY <1>9, <2>2, <2>3, <2>4
<1>13. {G(e) : e \in Editions}
       = (Editions \ Ledger!EditionsOf(i))
         \union (IF f THEN {Ledger!Superseded(e) : e \in Ledger!EditionsOf(i)}
                 ELSE Ledger!EditionsOf(i))
  BY <1>4 DEF Ledger!EditionsOf
<1>14. {e.version : e \in Ledger!EditionsOf(i)} = 1 .. v - 1
  <2>1. RowsOf(report, i) = {x \in Reports : report[x] # None /\ report[x].inventory = i}
    BY DEF RowsOf, IInv, TypeOK
  <2>2. \A x : E(x).inventory = report[x].inventory /\ E(x).version = report[x].version
    BY DEF Edition
  <2>3. Ledger!EditionsOf(i) = {E(x) : x \in RowsOf(report, i)}
    BY <2>1, <2>2 DEF Ledger!EditionsOf, Editions
  <2> HIDE DEF E
  <2> QED
    BY <1>8, <2>2, <2>3
<1>15. \A e \in Ledger!EditionsOf(i) : e.version \in 1 .. v - 1
  BY <1>14
<1>16. v \in {1} \union {e.version + 1 : e \in Ledger!EditionsOf(i)}
  <2>1. CASE v = 1
    BY <2>1
  <2>2. CASE v # 1
    <3>1. v - 1 \in 1 .. v - 1
      BY <1>4, <2>2
    <3>2. PICK e \in Ledger!EditionsOf(i) : e.version = v - 1
      BY <1>14, <3>1
    <3> QED
      BY <1>4, <3>2
  <2> QED
    BY <2>1, <2>2
<1>17. trail' = trail /\ lock' = lock
  BY DEF CommitReport
<1>18. /\ ApprovedPairs' = ApprovedPairs /\ LockedOn' = LockedOn
       /\ Replacements' = Replacements /\ Completions' = Completions
  BY <1>17, NothingRecorded DEF LockedOn
<1>19. \A e \in Ledger!EditionsOf(i) : e.version < v
  BY <1>4, <1>15
<1>20. Ledger!Publish(i, a, f)
  <2>1. Editions' = (Editions \ Ledger!EditionsOf(i))
                    \union (IF f THEN {Ledger!Superseded(e) : e \in Ledger!EditionsOf(i)}
                            ELSE Ledger!EditionsOf(i))
                    \union {[inventory |-> i, version |-> v, approval |-> a,
                             status |-> IF f THEN "final" ELSE "draft"]}
    BY <1>12, <1>13
  <2> HIDE DEF E, G, new
  <2> QED
    BY <1>16, <1>18, <1>19, <2>1 DEF Ledger!Publish
<1>21. <<a, i>> \in ApprovedPairs /\ <<a, i>>[1] = a /\ <<a, i>>[2] = i
  BY <1>4, <1>5, Entries
<1> QED
  BY <1>4, <1>20, <1>21 DEF Ledger!Next

LEMMA LedgerStep ==
  ASSUME IInv, CompletionInv, [Next]_vars
  PROVE  [Ledger!Next]_(Ledger!book)
<1>1. Grows
  BY NextKeeps
<1>2. ASSUME trail' = trail, lock' = lock, report' = report
      PROVE  UNCHANGED Ledger!book
  BY <1>1, <1>2, NothingRecorded DEF Ledger!book, LockedOn, Editions
<1>3. ASSUME NEW s \in Sessions, Read(s)
      PROVE  UNCHANGED Ledger!book
  BY <1>2, <1>3, ReadWritesNothing DEF rows
<1>4. ASSUME NEW s \in Sessions, Fail(s)
      PROVE  UNCHANGED Ledger!book
  BY <1>2, <1>4 DEF Fail, rows
<1>5. CASE UNCHANGED vars
  BY <1>2, <1>5 DEF vars, rows
<1>6. ASSUME NEW s \in Sessions, Commit(s)
      PROVE  [Ledger!Next]_(Ledger!book)
  <2>1. ASSUME CommitEdit(s) \/ (\E r \in Runs, c \in BOOLEAN : CommitCalculate(s, r, c))
               \/ CommitPrepare(s) \/ CommitApproveScope3(s)
               \/ (\E a \in Approvals : CommitSubmit(s, a)) \/ CommitStart(s)
               \/ (\E r \in Restatements : CommitRestate(s, r))
        PROVE  UNCHANGED Ledger!book
    BY <1>2, <2>1 DEF CommitEdit, CommitCalculate, CommitPrepare, CommitApproveScope3,
                      CommitSubmit, CommitStart, CommitRestate
  <2>2. ASSUME NEW i \in Inventories, CommitApproveRestatement(s, i)
        PROVE  Ledger!Next
    BY <1>1, <2>2, ApproveRestatementEnters DEF CompletionInv
  <2> QED
    BY <1>1, <1>6, <2>1, <2>2, DecideEnters, LockEnters, RejectRestatementEnters,
       CompleteEnters, ReportEnters DEF Commit
<1> QED
  BY <1>3, <1>4, <1>5, <1>6 DEF Next

(* Whatever requests overlap, the tables, the audit trail and the reports   *)
(* change as the book of GovernanceLedger does: by entries in order.        *)
THEOREM LedgerKept == Spec => LedgerSpec
<1>1. Init => Ledger!Init
  BY DEF Init, Ledger!Init, ApprovedPairs, LockedOn, Replacements, Completions, Editions,
         Decided
<1>2. IInv /\ CompletionInv /\ [Next]_vars => [Ledger!Next]_(Ledger!book)
  BY LedgerStep
<1> QED
  BY <1>1, <1>2, CompletionInvariant, PTL DEF Spec, LedgerSpec, Ledger!Spec

(* What follows from the book alone                                         *)
Originals == {t[2] : t \in Replacements}

BookInv ==
    (\A o \in Originals : Ledger!Released(o)) /\ Ledger!OneOrigin /\ Ledger!LineageEnds

LEMMA ReplaceOrdered ==
  ASSUME BookInv, NEW r \in Restatements, NEW o, Ledger!Released(o), NEW i \in Inventories,
         Ledger!Replace(r, o, i)
  PROVE  BookInv'
<1>1. /\ ~Ledger!Released(i) /\ i # o /\ \A t \in Replacements : t[3] # i
      /\ Replacements' = Replacements \union {<<r, o, i>>} /\ ApprovedPairs' = ApprovedPairs
  BY DEF Ledger!Replace
<1>2. \A x : Ledger!Released(x)' <=> Ledger!Released(x)
  BY <1>1 DEF Ledger!Released
<1>3. \A x \in Originals' : Ledger!Released(x)'
  BY <1>1, <1>2 DEF BookInv, Originals
<1>4. Ledger!OneOrigin'
  BY <1>1 DEF BookInv, Ledger!OneOrigin
<1>5. \A t \in Replacements : t[2] # i
  BY <1>1 DEF BookInv, Originals
<1>6. ASSUME NEW S \in (SUBSET Inventories) \ {{}}
      PROVE  \E m \in S : \A t \in Replacements' : t[3] = m => t[2] \notin S
  <2>1. CASE o \in S
    <3>1. S \ {i} \in (SUBSET Inventories) \ {{}}
      BY <1>1, <1>6, <2>1
    <3>2. PICK m \in S \ {i} : \A t \in Replacements : t[3] = m => t[2] \notin S \ {i}
      BY <3>1 DEF BookInv, Ledger!LineageEnds
    <3>3. \A t \in Replacements' : t[3] = m => t[2] \notin S
      BY <1>1, <1>5, <3>2
    <3> QED
      BY <3>2, <3>3
  <2>2. CASE o \notin S
    <3>1. PICK m \in S : \A t \in Replacements : t[3] = m => t[2] \notin S
      BY <1>6 DEF BookInv, Ledger!LineageEnds
    <3>2. \A t \in Replacements' : t[3] = m => t[2] \notin S
      BY <1>1, <2>2, <3>1
    <3> QED
      BY <3>1, <3>2
  <2> QED
    BY <2>1, <2>2
<1> QED
  BY <1>3, <1>4, <1>6 DEF BookInv, Ledger!LineageEnds

LEMMA BookStep ==
  ASSUME BookInv, [Ledger!Next]_(Ledger!book)
  PROVE  BookInv'
<1>1. ASSUME Replacements' = Replacements, ApprovedPairs \subseteq ApprovedPairs'
      PROVE  BookInv'
  <2>1. \A x : Ledger!Released(x) => Ledger!Released(x)'
    BY <1>1 DEF Ledger!Released
  <2>2. \A x \in Originals' : Ledger!Released(x)'
    BY <1>1, <2>1 DEF BookInv, Originals
  <2>3. Ledger!OneOrigin' /\ Ledger!LineageEnds'
    BY <1>1 DEF BookInv, Ledger!OneOrigin, Ledger!LineageEnds
  <2> QED
    BY <2>2, <2>3 DEF BookInv
<1>2. ASSUME NEW p \in ApprovedPairs, NEW r \in Restatements, NEW i \in Inventories,
             Ledger!Replace(r, p[2], i)
      PROVE  BookInv'
  <2>1. p[1] \in Approvals /\ p = <<p[1], p[2]>>
    BY DEF ApprovedPairs
  <2>2. Ledger!Released(p[2])
    BY <2>1 DEF Ledger!Released
  <2> QED
    BY <1>2, <2>2, ReplaceOrdered
<1>3. CASE UNCHANGED Ledger!book
  BY <1>1, <1>3 DEF Ledger!book
<1>4. ASSUME NEW a, NEW i, Ledger!Approve(a, i) \/ Ledger!Lock(i, a)
      PROVE  BookInv'
  BY <1>1, <1>4 DEF Ledger!Approve, Ledger!Lock
<1>5. ASSUME NEW a, NEW i, NEW f, Ledger!Publish(i, a, f) \/ Ledger!Complete(a, i)
      PROVE  BookInv'
  BY <1>1, <1>5 DEF Ledger!Publish, Ledger!Complete
<1> QED
  BY <1>2, <1>3, <1>4, <1>5 DEF Ledger!Next

(* Every replacement comes of one restatement of one inventory, and no      *)
(* chain of restatements leads an inventory back to itself: what the book   *)
(* guarantees, the requests that implement it do.                           *)
THEOREM LineagesEnd == Spec => [](Ledger!OneOrigin /\ Ledger!LineageEnds)
<1>1. Ledger!Init => BookInv
  <2> SUFFICES ASSUME Ledger!Init PROVE BookInv
    OBVIOUS
  <2>1. Replacements = {} /\ Originals = {}
    BY DEF Ledger!Init, Originals
  <2>2. ASSUME NEW S \in (SUBSET Inventories) \ {{}}
        PROVE  \E i \in S : \A t \in Replacements : t[3] = i => t[2] \notin S
    <3>1. PICK i : i \in S
      BY <2>2
    <3> QED
      BY <2>1, <3>1
  <2> QED
    BY <2>1, <2>2 DEF BookInv, Ledger!OneOrigin, Ledger!LineageEnds
<1>2. BookInv /\ [Ledger!Next]_(Ledger!book) => BookInv'
  BY BookStep
<1>3. BookInv => Ledger!OneOrigin /\ Ledger!LineageEnds
  BY DEF BookInv
<1> QED
  BY <1>1, <1>2, <1>3, LedgerKept, PTL DEF LedgerSpec, Ledger!Spec
=============================================================================
