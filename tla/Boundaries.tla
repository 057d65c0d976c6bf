----------------------------- MODULE Boundaries -----------------------------
(* One organisational boundary and the legal entities in it                 *)
(* (services/boundaries.py).  Effective dates and descriptions are left     *)
(* out: nothing the rest depends on is computed from them.  An entity has   *)
(* one membership, uq_boundary_membership_entity_effective_from with one    *)
(* start date.                                                              *)
EXTENDS Requests

CONSTANTS
    Entities,        \* legal entities
    Facts            \* what is stated of an entity: [decision, ownership (a
                     \* percentage), operational, financial (has control of it)]

VARIABLES
    boundary,        \* its approach and status
    membership,      \* entity -> its BoundaryMembership
    stale            \* history: memberships computed by requests that overlapped

rows == <<boundary, membership, stale>>
vars == <<rows, requests>>

Approaches == {"operational_control", "financial_control", "equity_share"}

Init ==
    /\ boundary \in [approach : Approaches, status : {"draft"}]
    /\ membership = [e \in Entities |-> None]
    /\ stale = {}
    /\ InitRequests

(* Mutant: an entity that is not included has no share at all.              *)
ShareOrNone(approach, facts) ==
    [included |-> facts.decision = "included",
     allocation |-> IF facts.decision = "included" THEN 100 ELSE None]

(* calculate_membership_outcome                                             *)
Outcome(approach, facts) ==
    LET controlled == CASE approach = "operational_control" -> facts.operational
                        [] approach = "financial_control"   -> facts.financial
                        [] approach = "equity_share"        -> facts.ownership > 0
        included == \/ facts.decision = "included"
                    \/ facts.decision = "auto" /\ controlled
    IN  [included |-> included,
         allocation |-> IF ~included THEN 0
                        ELSE IF approach = "equity_share" THEN facts.ownership ELSE 100]

Computed(approach, facts) ==
    [decision |-> facts.decision, ownership |-> facts.ownership,
     operational |-> facts.operational, financial |-> facts.financial,
     included |-> Outcome(approach, facts).included,
     allocation |-> Outcome(approach, facts).allocation]

Editable == boundary.status = "draft"

(* create_membership, update_membership: a row, from the facts that the     *)
(* request leaves and the approach that was loaded                          *)
LoadMember(s, e, facts) ==
    /\ Editable
    /\ Receive(s, [op |-> "member", entity |-> e, loaded |-> membership[e],
                   approach |-> boundary.approach, row |-> Computed(boundary.approach, facts)])
    /\ UNCHANGED rows

CommitMember(s) ==
    LET q == request[s]  e == q.entity IN
    /\ Serving(s, "member")
    /\ q.loaded = None => membership[e] = None
    /\ membership' = [membership EXCEPT ![e] =
                        IF q.loaded = None THEN q.row ELSE Update(@, q.loaded, q.row)]
    /\ stale' = IF membership[e] = q.loaded /\ boundary.approach = q.approach
                THEN stale \ {e} ELSE stale \union {e}
    /\ Done(s)
    /\ UNCHANGED boundary

(* Mutant: the memberships keep what the old approach gave.                 *)
NotRecalculated(approach, e) == membership[e]

(* recalculate_all_memberships                                              *)
Recalculated(approach, e) ==
    IF membership[e] = None THEN None ELSE Computed(approach, membership[e])

(* update_boundary with another approach                                    *)
LoadApproach(s, a) ==
    /\ Editable
    /\ Receive(s, [op |-> "approach", loaded |-> boundary, changed |-> [approach |-> a],
                   members |-> membership, rows |-> [e \in Entities |-> Recalculated(a, e)]])
    /\ UNCHANGED rows

CommitApproach(s) ==
    LET q == request[s]
        missed == {e \in Entities : membership[e] # q.members[e]} IN
    /\ Serving(s, "approach")
    /\ boundary' = Update(boundary, q.loaded, q.changed)
    /\ membership' = [e \in Entities |->
                        IF q.members[e] = None THEN membership[e]
                        ELSE Update(membership[e], q.members[e], q.rows[e])]
    /\ stale' = IF boundary'.approach = q.changed.approach THEN missed
                ELSE stale \union {e \in Entities : membership'[e] # membership[e]}
    /\ Done(s)

(* approve_boundary: at least one member                                    *)
LoadApprove(s) ==
    /\ Editable
    /\ \E e \in Entities : membership[e] # None
    /\ Receive(s, [op |-> "approve"])
    /\ UNCHANGED rows

CommitApprove(s) ==
    /\ Serving(s, "approve")
    /\ boundary' = [boundary EXCEPT !.status = "approved"]
    /\ Done(s)
    /\ UNCHANGED <<membership, stale>>

Abandon(s) == Fail(s) /\ UNCHANGED rows

Next ==
    \E s \in Sessions :
       \/ \E e \in Entities, facts \in Facts : LoadMember(s, e, facts)
       \/ \E a \in Approaches : LoadApproach(s, a)
       \/ LoadApprove(s)
       \/ CommitMember(s) \/ CommitApproach(s) \/ CommitApprove(s) \/ Abandon(s)

Spec == Init /\ [][Next]_vars

----------------------------------------------------------------------------
MemberRows == [decision : {"auto", "included", "excluded"}, ownership : 0 .. 100,
               operational : BOOLEAN, financial : BOOLEAN, included : BOOLEAN,
               allocation : 0 .. 100]

TypeOK ==
    /\ boundary \in [approach : Approaches, status : {"draft", "approved"}]
    /\ \A e \in Entities : membership[e] # None => membership[e] \in MemberRows

(* Who is included and with which share follows from the boundary's approach*)
(* and the entity's own facts, through every change of either; only a       *)
(* request that another overtook leaves a share that is not, until the next *)
(* one that is not overtaken corrects it (boundaries.py:200, :343, :397).   *)
AllocationCurrent ==
    \A e \in Entities \ stale :
      membership[e] # None => membership[e] = Computed(boundary.approach, membership[e])
=============================================================================
