----------------------------- MODULE Activities -----------------------------
(* The activities of one inventory that can be edited, and the runs made of *)
(* them (services/activities.py, calculations.py).  A source record may be  *)
(* sent again, which supersedes its activity by a new version.  Of the      *)
(* attributes, the value, its unit and what they normalise to are kept; the *)
(* links to sites and entities, and the governed methods, are left out.     *)
EXTENDS Requests, Sequences, FiniteSetsExt

CONSTANTS
    Records,         \* source_record_id
    Amounts,
    Units,
    Normal(_, _),    \* value, unit -> the value in the canonical unit
    MaxActivities,   \* bound: activities created
    MaxRuns          \* bound: calculation runs made

VARIABLES
    activity,        \* sequence of ActivityRecord rows
    run,             \* sequence of runs, each activity -> the value it was calculated with
    contested        \* history: activities committed over a row changed since it was loaded

rows == <<activity, run, contested>>
vars == <<rows, requests>>

Row(r, n, v, u) ==
    [record |-> r, version |-> n, value |-> v, unit |-> u, normal |-> Normal(v, u),
     status |-> "validated", current |-> TRUE, superseded_by |-> 0]

Init ==
    /\ \E r \in Records, v \in Amounts, u \in Units : activity = <<Row(r, 1, v, u)>>
    /\ run = <<>> /\ contested = {}
    /\ InitRequests

VersionsOf(r) == {activity[a].version : a \in {x \in DOMAIN activity : activity[x].record = r}}

NextVersion(r) == 1 + Max({0} \union VersionsOf(r))

Current(r) == {a \in DOMAIN activity : activity[a].record = r /\ activity[a].current}

(* Mutant: no unique constraint on (source_record_id, version).             *)
AnyVersion(r, n) == r \in Records /\ n > 0

(* uq_activity_source_version                                               *)
VersionFree(r, n) == n \notin VersionsOf(r)

Contested(q) ==
    {a \in DOMAIN q.loaded : activity[a] # q.loaded[a]}

(* The rows a request changes, each by what differs from the loaded row.    *)
Changed(q) ==
    [a \in DOMAIN activity |->
        IF a \in DOMAIN q.loaded THEN Update(activity[a], q.loaded[a], q.changed[a])
        ELSE activity[a]]

(* create_activity: existing is the current activity of the record          *)
LoadCreate(s, r, v, u) ==
    LET existing == IF Current(r) = {} THEN {} ELSE {CHOOSE a \in Current(r) : TRUE} IN
    /\ Receive(s, [op |-> "create", row |-> Row(r, NextVersion(r), v, u),
                   loaded |-> [a \in existing |-> activity[a]]])
    /\ UNCHANGED rows

CommitCreate(s) ==
    LET q == request[s]
        id == Len(activity) + 1
        superseded == [current |-> FALSE, status |-> "superseded", superseded_by |-> id] IN
    /\ Serving(s, "create")
    /\ id <= MaxActivities
    /\ VersionFree(q.row.record, q.row.version)
    /\ activity' = Append(Changed([loaded |-> q.loaded,
                                   changed |-> [a \in DOMAIN q.loaded |-> superseded]]), q.row)
    /\ contested' = contested \union Contested(q)
    /\ Done(s)
    /\ UNCHANGED run

(* Mutant: a new unit alone is not normalised again.                        *)
ByValue(row, change) ==
    IF "value" \in DOMAIN change THEN Normal(change.value, row.unit) ELSE row.normal

(* update_activity normalises a new value or a new unit, with the loaded    *)
(* other one.                                                               *)
Normalised(row, change) ==
    IF "value" \in DOMAIN change THEN Normal(change.value, row.unit)
    ELSE Normal(row.value, change.unit)

(* Mutant: an edited activity stays calculated.                             *)
StatusKept(row, change) ==
    [f \in DOMAIN change \union {"normal"} |->
        IF f = "normal" THEN Normalised(row, change) ELSE change[f]]

(* What update_activity sets.                                               *)
Edited(row, change) ==
    [f \in DOMAIN change \union {"normal", "status"} |->
        IF f = "normal" THEN Normalised(row, change)
        ELSE IF f = "status" THEN "validated" ELSE change[f]]

LoadUpdate(s, a, change) ==
    /\ activity[a].current
    /\ Receive(s, [op |-> "update", loaded |-> [x \in {a} |-> activity[x]],
                   changed |-> [x \in {a} |-> Edited(activity[x], change)]])
    /\ UNCHANGED rows

CommitUpdate(s) ==
    LET q == request[s] IN
    /\ Serving(s, "update")
    /\ activity' = Changed(q)
    /\ contested' = contested \union Contested(q)
    /\ Done(s)
    /\ UNCHANGED run

(* create_and_execute_calculation_run: it loads the activities, calculates  *)
(* each one, and some have no factor.                                       *)
Calculable ==
    {a \in DOMAIN activity : activity[a].current /\ activity[a].status # "superseded"}

LoadRun(s) ==
    /\ Calculable # {}
    /\ \E failed \in SUBSET Calculable :
         Receive(s, [op |-> "run", version |-> Len(run) + 1, failed |-> failed,
                     loaded |-> [a \in Calculable |-> activity[a]],
                     changed |-> [a \in Calculable |->
                        IF a \in failed THEN [status |-> activity[a].status]
                        ELSE [status |-> "calculated"]]])
    /\ UNCHANGED rows

CommitRun(s) ==
    LET q == request[s] IN
    /\ Serving(s, "run")
    /\ q.version = Len(run) + 1 /\ Len(run) < MaxRuns     \* uq_calculation_run_inventory_version
    /\ run' = Append(run, [a \in DOMAIN q.loaded \ q.failed |->
                              Normal(q.loaded[a].value, q.loaded[a].unit)])
    /\ activity' = Changed(q)
    /\ contested' = contested \union Contested(q)
    /\ Done(s)

Abandon(s) == Fail(s) /\ UNCHANGED rows

Next ==
    \E s \in Sessions :
       \/ \E r \in Records, v \in Amounts, u \in Units : LoadCreate(s, r, v, u)
       \/ \E a \in DOMAIN activity :
             \/ \E v \in Amounts : LoadUpdate(s, a, [value |-> v])
             \/ \E u \in Units   : LoadUpdate(s, a, [unit |-> u])
       \/ LoadRun(s)
       \/ CommitCreate(s) \/ CommitUpdate(s) \/ CommitRun(s) \/ Abandon(s)

Spec == Init /\ [][Next]_vars

----------------------------------------------------------------------------
Normals == {Normal(v, u) : v \in Amounts, u \in Units}
ActivityRows == [record : Records, version : Nat \ {0}, value : Amounts, unit : Units,
                 normal : Normals, status : {"validated", "calculated", "superseded"},
                 current : BOOLEAN, superseded_by : Nat]

TypeOK ==
    /\ activity \in Seq(ActivityRows)
    /\ \A a \in DOMAIN activity : activity[a].superseded_by <= Len(activity)
    /\ run \in Seq(UNION {[made -> Normals] : made \in SUBSET DOMAIN activity})

(* However often a source record is sent at once, the version that counts   *)
(* is its latest one, and no other is current (activities.py:123-166).      *)
OneCurrent ==
    \A r \in Records :
      /\ Cardinality(Current(r)) <= 1
      /\ Current(r) = {a \in DOMAIN activity :
           activity[a].record = r /\ \A n \in VersionsOf(r) : activity[a].version >= n}

(* The normalised value is that of the value and unit beside it, unless two *)
(* requests changed the activity at once: each normalises its change with   *)
(* what it loaded of the rest (activities.py:276-286).                      *)
NormalMatches ==
    \A a \in DOMAIN activity \ contested :
      activity[a].normal = Normal(activity[a].value, activity[a].unit)

(* What counts as calculated is calculated with the value it has now, in    *)
(* the last run that has a result for it, unless an edit and a run crossed  *)
(* (activities.py:288, calculations.py:113-126).                            *)
FreshResults ==
    \A a \in DOMAIN activity \ contested :
      activity[a].status = "calculated" =>
        LET of == {n \in DOMAIN run : a \in DOMAIN run[n]} IN
        /\ of # {}
        /\ \A n \in of : (\A m \in of : m <= n) =>
             run[n][a] = Normal(activity[a].value, activity[a].unit)
=============================================================================
