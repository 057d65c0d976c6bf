---------------------------- MODULE Methodologies ----------------------------
(* The versions of one methodology key and their controlled change          *)
(* (services/methodologies.py, methodology_governance.py).  The keys do not *)
(* share state.  The golden tests are left out: a version's expression and  *)
(* tests never change after create_methodology_version has run them, and    *)
(* evaluate_formula is deterministic.                                       *)
EXTENDS Requests, Sequences, FiniteSets

CONSTANTS Principals

VARIABLES
    method,          \* sequence of MethodologyVersion rows
    contested,       \* history: versions committed over a row changed since it was loaded
    overlaps         \* history: activations committed over another change of what is active

rows == <<method, contested, overlaps>>
vars == <<rows, requests>>

Row(n, creator, status, reviewer, approver) ==
    [version |-> n, creator |-> creator, status |-> status,
     reviewer |-> reviewer, approver |-> approver, supersedes |-> 0]

(* From the beginning, or from when two versions have been approved.        *)
Init ==
    /\ \/ method = <<>>
       \/ \E c, r, a \in Principals :
             /\ Cardinality({c, r, a}) = 3
             /\ method = <<Row(1, c, "approved", r, a), Row(2, c, "approved", r, a)>>
    /\ contested = {} /\ overlaps = 0
    /\ InitRequests

ActiveVersions == {v \in DOMAIN method : method[v].status = "active"}
NextVersion == Len(method) + 1

(* uq_methodology_key_version                                               *)
VersionFree(n) == \A v \in DOMAIN method : method[v].version # n

(* create_methodology_version                                               *)
LoadCreate(s, p) ==
    /\ Receive(s, [op |-> "create", principal |-> p, version |-> NextVersion])
    /\ UNCHANGED rows

CommitCreate(s) ==
    /\ Serving(s, "create")
    /\ VersionFree(request[s].version)
    /\ method' = Append(method,
                        Row(request[s].version, request[s].principal, "draft", None, None))
    /\ Done(s)
    /\ UNCHANGED <<contested, overlaps>>

(* A transition that has passed its checks; active is the version the       *)
(* activation found, 0 for none.                                            *)
Load(s, v, changed, active) ==
    /\ Receive(s, [op |-> "transition", version |-> v, loaded |-> method[v],
                   changed |-> changed, active |-> active, actives |-> ActiveVersions])
    /\ UNCHANGED rows

Submit(s, v) ==
    /\ method[v].status = "draft"
    /\ Load(s, v, [status |-> "in_review"], 0)

Review(s, v, p) ==
    /\ method[v].status = "in_review" /\ method[v].creator # p /\ method[v].reviewer = None
    /\ Load(s, v, [reviewer |-> p], 0)

(* Mutant: the reviewer approves.                                           *)
AnyReviewer(v, p) == method[v].reviewer # None

(* approve_methodology_version: reviewed, by someone else                   *)
ReviewedByAnother(v, p) == method[v].reviewer \notin {None, p}

Approve(s, v, p) ==
    /\ method[v].status = "in_review" /\ method[v].creator # p
    /\ ReviewedByAnother(v, p)
    /\ Load(s, v, [status |-> "approved", approver |-> p], 0)

(* Mutant: the version in force stays so.                                   *)
NothingSuperseded(active) == {active} \ {active}

(* The versions an activation supersedes.                                   *)
Superseded(active) == {active}

Activate(s, v) ==
    /\ method[v].status = "approved"
    /\ Receive(s, [op |-> "activate", version |-> v, loaded |-> method[v]])
    /\ UNCHANGED rows

(* Activation looks for the version in force in a statement of its own.     *)
(* That may be the version it activates: the session keeps the row it       *)
(* loaded, and supersedes it by itself.                                     *)
FindActive(s) ==
    LET q == request[s] IN
    /\ Serving(s, "activate")
    /\ \E active \in IF ActiveVersions = {} THEN {0} ELSE ActiveVersions :
         Continue(s, [op |-> "transition", version |-> q.version, loaded |-> q.loaded,
                      changed |-> [status |-> "active",
                                   supersedes |-> IF active = 0 THEN q.loaded.supersedes
                                                  ELSE active],
                      active |-> active, actives |-> ActiveVersions])
    /\ UNCHANGED rows

Retire(s, v) ==
    /\ method[v].status = "active"
    /\ Load(s, v, [status |-> "retired"], 0)

(* _commit_transition: the version, and the one in force before it          *)
Commit(s) ==
    LET q == request[s]
        activates == "supersedes" \in DOMAIN q.changed IN
    /\ Serving(s, "transition")
    /\ method' = [v \in DOMAIN method |->
         IF v = q.version THEN Update(method[v], q.loaded, q.changed)
         ELSE IF v \in Superseded(q.active) THEN [method[v] EXCEPT !.status = "superseded"]
         ELSE method[v]]
    /\ contested' = IF method[q.version] = q.loaded THEN contested ELSE contested \union {q.version}
    /\ overlaps' = IF activates /\ ActiveVersions # q.actives THEN overlaps + 1 ELSE overlaps
    /\ Done(s)

Abandon(s) == Fail(s) /\ UNCHANGED rows

Next ==
    \E s \in Sessions :
       \/ \E p \in Principals : LoadCreate(s, p)
       \/ \E v \in DOMAIN method :
             \/ Submit(s, v) \/ Activate(s, v) \/ Retire(s, v)
             \/ \E p \in Principals : Review(s, v, p) \/ Approve(s, v, p)
       \/ FindActive(s) \/ CommitCreate(s) \/ Commit(s) \/ Abandon(s)

Spec == Init /\ [][Next]_vars

----------------------------------------------------------------------------
MethodRows ==
    [version : Nat, creator : Principals, supersedes : Nat,
     status : {"draft", "in_review", "approved", "active", "retired", "superseded"},
     reviewer : Principals \union {None}, approver : Principals \union {None}]

TypeOK == method \in Seq(MethodRows)

(* Whoever has created, reviewed and approved a version are three people,   *)
(* unless two requests changed it at once: a late second review may name    *)
(* the approver (methodologies.py:172, :201).                               *)
ThreePeople ==
    \A v \in DOMAIN method :
      /\ method[v].creator \notin {method[v].reviewer, method[v].approver}
      /\ method[v].approver # None /\ v \notin contested =>
           method[v].reviewer \notin {None, method[v].approver}

(* At most one version is in force, and one more for each activation that   *)
(* another change of what is in force overtook: nothing in the schema keeps *)
(* a second one out (methodologies.py:233-251).                             *)
OneActive == Cardinality(ActiveVersions) <= 1 + overlaps
=============================================================================
