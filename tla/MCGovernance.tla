---------------------------- MODULE MCGovernance ----------------------------
(* Small instances of InventoryGovernance in one run.  The first state      *)
(* chooses a part, which bounds the requests served at once and the rows of *)
(* each table.                                                              *)
(*   approval   two requests overlap, two approvals up to the lock;         *)
(*   reports    two requests overlap, two reports on one approval;          *)
(*   race       two requests overlap, up to a restatement's replacement;    *)
(*   history    one at a time: two approvals, a restatement, two reports;   *)
(*   lifecycle  one at a time, through a whole restatement.                 *)
EXTENDS InventoryGovernance, TLC

VARIABLE part

partVars == <<part, vars>>

Bounds(requests, inventories, runs, approvals, restatements, reports) ==
    [request |-> requests, status |-> inventories, run |-> runs, approval |-> approvals,
     restatement |-> restatements, report |-> reports]

Bound ==
    [approval  |-> Bounds(2, 1, 1, 2, 0, 0),
     reports   |-> Bounds(2, 1, 1, 1, 0, 2),
     race      |-> Bounds(2, 2, 1, 1, 1, 0),
     history   |-> Bounds(1, 1, 1, 2, 1, 2),
     lifecycle |-> Bounds(1, 2, 2, 2, 1, 0)]

Count(table) == Cardinality({x \in DOMAIN table : table[x] # None})

Within(b) ==
    /\ Count(request) <= b.request /\ Count(status) <= b.status
    /\ Count(run) <= b.run /\ Count(approval) <= b.approval
    /\ Count(restatement) <= b.restatement /\ Count(report) <= b.report

(* A request is received only while the rows it needs last.                 *)
Starts(op) ==
    \E s \in Sessions : request[s] = None /\ request'[s] # None /\ request'[s].op = op

HasRoom(b) ==
    /\ Starts("calculate") => Count(run) < b.run
    /\ Starts("submit") => Count(approval) < b.approval
    /\ Starts("restate") => Count(restatement) < b.restatement
    /\ Starts("report") => Count(report) < b.report

PartsInit == Init /\ part \in DOMAIN Bound

PartsNext == Next /\ UNCHANGED part /\ HasRoom(Bound[part]) /\ Within(Bound[part])'

PartsSpec == PartsInit /\ [][PartsNext]_partVars

(* Users and sessions are alike, and so are unused ids of a table.          *)
Symmetry ==
    Permutations(Users) \union Permutations(Sessions) \union Permutations(Runs)
    \union Permutations(Approvals) \union Permutations(Reports)

=============================================================================
