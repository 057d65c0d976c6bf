------------------------- MODULE RecordedDataProofs -------------------------
(* Proofs about what is recorded and set up: the parts Boundaries,          *)
(* Activities, ReportingSetup, FactorResolution and Totals of DataPlatform. *)
EXTENDS ImportedDataProofs

----------------------------------------------------------------------------
(* Boundaries                                                               *)

(* A row as it is computed under an approach                                *)
Settled(approach, m) == m = Boundary!Computed(approach, m)

(* What a request in flight has loaded, and what of it stays true.          *)
BoundaryHolds(q) ==
    /\ q.op \in {"member", "approach", "approve"}
    /\ q.op = "member" =>
         /\ q.entity \in Entities /\ q.approach \in Boundary!Approaches
         /\ q.row \in Boundary!MemberRows /\ Settled(q.approach, q.row)
         /\ q.loaded # None =>
              q.loaded \in Boundary!MemberRows /\ membership[q.entity] # None
    /\ q.op = "approach" =>
         \E a \in Boundary!Approaches :
           /\ q.changed = [approach |-> a]
           /\ q.loaded \in [approach : Boundary!Approaches, status : {"draft", "approved"}]
           /\ \A e \in Entities : q.members[e] # None =>
                /\ q.members[e] \in Boundary!MemberRows /\ membership[e] # None
                /\ q.rows[e] \in Boundary!MemberRows /\ Settled(a, q.rows[e])

BoundaryRequests ==
    /\ DOMAIN request = Sessions
    /\ \A s \in Sessions : request[s] # None => BoundaryHolds(request[s])

BoundaryInv ==
    /\ Boundary!TypeOK /\ DOMAIN membership = Entities /\ BoundaryRequests
    /\ Boundary!AllocationCurrent

(* A member stays one.                                                      *)
BoundaryGrows == \A e \in Entities : membership[e] # None => membership'[e] # None

LEMMA BoundaryInit == Boundary!Init => BoundaryInv
<1> SUFFICES ASSUME Boundary!Init PROVE BoundaryInv
    OBVIOUS
<1> USE DEF Boundary!Init, Boundary!InitRequests
<1>1. Boundary!TypeOK /\ DOMAIN membership = Entities
    BY DEF Boundary!TypeOK
<1>2. BoundaryRequests
    BY DEF BoundaryRequests
<1>3. Boundary!AllocationCurrent
    BY DEF Boundary!AllocationCurrent
<1> QED
    BY <1>1, <1>2, <1>3 DEF BoundaryInv

LEMMA BoundaryRequestsKept ==
    ASSUME BoundaryRequests, BoundaryGrows, NEW s \in Sessions, NEW r,
           request' = [request EXCEPT ![s] = r], r = None \/ BoundaryHolds(r)
    PROVE  BoundaryRequests'
<1>1. \A q : BoundaryHolds(q) => BoundaryHolds(q)'
    BY DEF BoundaryHolds, BoundaryGrows
<1>2. DOMAIN request' = Sessions /\ request'[s] = r
      /\ \A t \in Sessions \ {s} : request'[t] = request[t]
    BY RequestChanges DEF BoundaryRequests
<1>3. ASSUME NEW t \in Sessions, request'[t] # None PROVE BoundaryHolds(request[t])'
    <2>1. PICK q : q = request'[t]
        OBVIOUS
    <2>2. BoundaryHolds(q)
        BY <1>2, <1>3, <2>1 DEF BoundaryRequests
    <2>3. BoundaryHolds(q)'
        BY <1>1, <2>2
    <2> QED
        BY <2>1, <2>3 DEF BoundaryHolds
<1> QED
    BY <1>2, <1>3 DEF BoundaryRequests

LEMMA BoundaryReadKeeps ==
    ASSUME BoundaryInv, UNCHANGED boundaryVars, NEW s \in Sessions, NEW r,
           request' = [request EXCEPT ![s] = r], r = None \/ BoundaryHolds(r)
    PROVE  BoundaryInv'
<1>1. BoundaryRequests'
    BY BoundaryRequestsKept DEF BoundaryInv, BoundaryGrows, boundaryVars
<1> QED
    BY <1>1 DEF BoundaryInv, boundaryVars, Boundary!TypeOK, Boundary!AllocationCurrent

LEMMA BoundarySame == BoundaryInv /\ UNCHANGED <<requests, boundaryVars>> => BoundaryInv'
<1> SUFFICES ASSUME BoundaryInv, UNCHANGED <<requests, boundaryVars>> PROVE BoundaryInv'
    OBVIOUS
<1>1. BoundaryRequests'
    <2>1. ASSUME NEW t \in Sessions, request[t] # None PROVE BoundaryHolds(request[t])'
        BY <2>1 DEF BoundaryInv, BoundaryRequests, BoundaryHolds, requests, boundaryVars
    <2> QED
        BY <2>1 DEF BoundaryInv, BoundaryRequests, requests
<1> QED
    BY <1>1 DEF BoundaryInv, boundaryVars, Boundary!TypeOK, Boundary!AllocationCurrent

(* Computing again changes nothing.                                         *)
LEMMA ComputedSettles ==
    ASSUME NEW a \in Boundary!Approaches,
           NEW f, f.decision \in {"auto", "included", "excluded"}, f.ownership \in 0 .. 100,
           f.operational \in BOOLEAN, f.financial \in BOOLEAN,
           NEW m, m = Boundary!Computed(a, f)
    PROVE  m \in Boundary!MemberRows /\ Settled(a, m)
<1>1. /\ m.decision = f.decision /\ m.ownership = f.ownership
      /\ m.operational = f.operational /\ m.financial = f.financial
    BY DEF Boundary!Computed
<1>2. Boundary!Outcome(a, m) = Boundary!Outcome(a, f)
    BY <1>1 DEF Boundary!Outcome
<1>3. Settled(a, m)
    BY <1>1, <1>2 DEF Settled, Boundary!Computed
<1>4. Boundary!Outcome(a, f).included \in BOOLEAN
    BY DEF Boundary!Outcome
<1>5. Boundary!Outcome(a, f).allocation \in 0 .. 100
    <2>1. Boundary!Outcome(a, f).allocation \in {0, f.ownership, 100}
        BY DEF Boundary!Outcome
    <2> QED
        BY <2>1
<1>6. m \in Boundary!MemberRows
    BY <1>4, <1>5 DEF Boundary!Computed, Boundary!MemberRows
<1> QED
    BY <1>3, <1>6

(* Nothing was committed in between: the row is the one that was computed.  *)
LEMMA UpdatedMember ==
    ASSUME NEW current \in Boundary!MemberRows, NEW loaded \in Boundary!MemberRows,
           NEW changed \in Boundary!MemberRows,
           NEW after, after = Boundary!Update(current, loaded, changed)
    PROVE  after \in Boundary!MemberRows /\ (current = loaded => after = changed)
<1>1. after \in Boundary!MemberRows
    BY DEF Boundary!Update, Boundary!MemberRows
<1>2. ASSUME current = loaded PROVE after = changed
    BY <1>2 DEF Boundary!Update, Boundary!MemberRows
<1> QED
    BY <1>1, <1>2

LEMMA BoundaryReads ==
    ASSUME BoundaryInv, NEW s \in Sessions,
           \/ \E e \in Entities, facts \in Facts : Boundary!LoadMember(s, e, facts)
           \/ \E a \in Boundary!Approaches : Boundary!LoadApproach(s, a)
           \/ Boundary!LoadApprove(s) \/ Boundary!Abandon(s)
    PROVE  BoundaryInv'
<1> USE DEF Boundary!Receive, Boundary!rows, boundaryVars
<1>1. ASSUME NEW e \in Entities, NEW facts \in Facts, Boundary!LoadMember(s, e, facts)
      PROVE  BoundaryInv'
    <2>1. PICK a, m : a = boundary.approach /\ m = Boundary!Computed(a, facts)
        OBVIOUS
    <2>2. a \in Boundary!Approaches
        BY <2>1 DEF BoundaryInv, Boundary!TypeOK
    <2>3. m \in Boundary!MemberRows /\ Settled(a, m)
        BY <2>1, <2>2, BoundaryAssumption, ComputedSettles DEF BoundaryAssumption
    <2>4. PICK r : /\ r = [op |-> "member", entity |-> e, loaded |-> membership[e],
                           approach |-> a, row |-> m]
                   /\ request' = [request EXCEPT ![s] = r]
        BY <1>1, <2>1 DEF Boundary!LoadMember
    <2>5. membership[e] # None => membership[e] \in Boundary!MemberRows
        BY DEF BoundaryInv, Boundary!TypeOK
    <2>6. BoundaryHolds(r)
        BY <2>2, <2>3, <2>4, <2>5 DEF BoundaryHolds
    <2> QED
        BY <1>1, <2>4, <2>6, BoundaryReadKeeps DEF Boundary!LoadMember
<1>2. ASSUME NEW a \in Boundary!Approaches, Boundary!LoadApproach(s, a) PROVE BoundaryInv'
    <2>1. PICK rows_ : rows_ = [e \in Entities |-> Boundary!Recalculated(a, e)]
        OBVIOUS
    <2>2. ASSUME NEW e \in Entities, membership[e] # None
          PROVE  /\ membership[e] \in Boundary!MemberRows
                 /\ rows_[e] \in Boundary!MemberRows /\ Settled(a, rows_[e])
        <3>1. PICK m : m = membership[e]
            OBVIOUS
        <3>2. m \in Boundary!MemberRows
            BY <2>2, <3>1 DEF BoundaryInv, Boundary!TypeOK
        <3>3. PICK n : n = Boundary!Computed(a, m)
            OBVIOUS
        <3>4. n \in Boundary!MemberRows /\ Settled(a, n)
            <4>1. /\ m.decision \in {"auto", "included", "excluded"} /\ m.ownership \in 0 .. 100
                  /\ m.operational \in BOOLEAN /\ m.financial \in BOOLEAN
                BY <3>2 DEF Boundary!MemberRows
            <4> QED
                BY <3>3, <4>1, ComputedSettles
        <3>5. rows_[e] = n
            BY <2>1, <2>2, <3>1, <3>3 DEF Boundary!Recalculated
        <3> QED
            BY <3>1, <3>2, <3>4, <3>5
    <2>3. PICK r : /\ r = [op |-> "approach", loaded |-> boundary, changed |-> [approach |-> a],
                           members |-> membership, rows |-> rows_]
                   /\ request' = [request EXCEPT ![s] = r]
        BY <1>2, <2>1 DEF Boundary!LoadApproach
    <2>4. boundary \in [approach : Boundary!Approaches, status : {"draft", "approved"}]
        BY DEF BoundaryInv, Boundary!TypeOK
    <2>5. BoundaryHolds(r)
        BY <2>2, <2>3, <2>4 DEF BoundaryHolds
    <2> QED
        BY <1>2, <2>3, <2>5, BoundaryReadKeeps DEF Boundary!LoadApproach
<1>3. ASSUME Boundary!LoadApprove(s) PROVE BoundaryInv'
    <2>1. PICK r : r = [op |-> "approve"] /\ request' = [request EXCEPT ![s] = r]
        BY <1>3 DEF Boundary!LoadApprove
    <2>2. BoundaryHolds(r)
        BY <2>1 DEF BoundaryHolds
    <2> QED
        BY <1>3, <2>1, <2>2, BoundaryReadKeeps DEF Boundary!LoadApprove
<1>4. ASSUME Boundary!Abandon(s) PROVE BoundaryInv'
    BY <1>4, BoundaryReadKeeps DEF Boundary!Abandon, Boundary!Fail, Boundary!Done
<1> QED
    BY <1>1, <1>2, <1>3, <1>4

LEMMA MemberCommits ==
    ASSUME BoundaryInv, NEW s \in Sessions, Boundary!CommitMember(s)
    PROVE  BoundaryInv'
<1>1. PICK q : q = request[s]
    OBVIOUS
<1>2. BoundaryHolds(q) /\ q.op = "member"
    BY <1>1 DEF BoundaryInv, BoundaryRequests, Boundary!CommitMember, Boundary!Serving
<1>3. PICK e \in Entities, m \in Boundary!MemberRows :
        /\ e = q.entity /\ m = q.row /\ Settled(q.approach, m)
        /\ q.loaded # None => q.loaded \in Boundary!MemberRows /\ membership[e] # None
    BY <1>2 DEF BoundaryHolds
<1>4. PICK after : after = IF q.loaded = None THEN m
                           ELSE Boundary!Update(membership[e], q.loaded, m)
    OBVIOUS
<1>5. /\ q.loaded = None => membership[e] = None
      /\ membership' = [membership EXCEPT ![e] = after]
      /\ stale' = IF membership[e] = q.loaded /\ boundary.approach = q.approach
                  THEN stale \ {e} ELSE stale \union {e}
      /\ request' = [request EXCEPT ![s] = None]
      /\ UNCHANGED boundary
    BY <1>1, <1>3, <1>4 DEF Boundary!CommitMember, Boundary!Done, BoundaryInv
<1>6. after \in Boundary!MemberRows /\ (membership[e] = q.loaded => after = m)
    <2>1. CASE q.loaded = None
        BY <1>4, <2>1
    <2>2. CASE q.loaded # None
        <3>1. membership[e] \in Boundary!MemberRows /\ q.loaded \in Boundary!MemberRows
            BY <1>3, <2>2 DEF BoundaryInv, Boundary!TypeOK
        <3> QED
            BY <1>4, <2>2, <3>1, UpdatedMember
    <2> QED
        BY <2>1, <2>2
<1>7. after # None
    BY <1>6, NoneAssumption
<1>8. BoundaryRequests'
    BY <1>5, <1>7, BoundaryRequestsKept DEF BoundaryGrows, BoundaryInv
<1>9. Boundary!TypeOK'
    BY <1>5, <1>6 DEF BoundaryInv, Boundary!TypeOK
<1>10. Boundary!AllocationCurrent'
    <2>1. ASSUME NEW d \in Entities \ stale', membership'[d] # None
          PROVE  Settled(boundary.approach, membership'[d])
        <3>1. CASE d = e
            BY <1>3, <1>5, <1>6, <2>1, <3>1 DEF BoundaryInv
        <3>2. CASE d # e
            BY <1>5, <2>1, <3>2 DEF BoundaryInv, Boundary!AllocationCurrent, Settled
        <3> QED
            BY <3>1, <3>2
    <2> QED
        BY <1>5, <2>1 DEF Boundary!AllocationCurrent, Settled
<1> QED
    BY <1>5, <1>8, <1>9, <1>10 DEF BoundaryInv

LEMMA ApproachCommits ==
    ASSUME BoundaryInv, NEW s \in Sessions, Boundary!CommitApproach(s)
    PROVE  BoundaryInv'
<1>1. PICK q : q = request[s]
    OBVIOUS
<1>2. BoundaryHolds(q) /\ q.op = "approach"
    BY <1>1 DEF BoundaryInv, BoundaryRequests, Boundary!CommitApproach, Boundary!Serving
<1>a. PICK a \in Boundary!Approaches :
        /\ q.changed = [approach |-> a]
        /\ q.loaded \in [approach : Boundary!Approaches, status : {"draft", "approved"}]
        /\ \A e \in Entities : q.members[e] # None =>
             /\ q.members[e] \in Boundary!MemberRows /\ membership[e] # None
             /\ q.rows[e] \in Boundary!MemberRows /\ Settled(a, q.rows[e])
    BY <1>2 DEF BoundaryHolds
<1>3. PICK members, computed :
        /\ members = q.members /\ computed = q.rows /\ q.changed = [approach |-> a]
        /\ q.loaded \in [approach : Boundary!Approaches, status : {"draft", "approved"}]
        /\ \A e \in Entities : members[e] # None =>
             /\ members[e] \in Boundary!MemberRows /\ membership[e] # None
             /\ computed[e] \in Boundary!MemberRows /\ Settled(a, computed[e])
    BY <1>a
<1>4. /\ boundary' = Boundary!Update(boundary, q.loaded, [approach |-> a])
      /\ membership' = [e \in Entities |->
                          IF members[e] = None THEN membership[e]
                          ELSE Boundary!Update(membership[e], members[e], computed[e])]
      /\ stale' = IF boundary'.approach = a
                  THEN {e \in Entities : membership[e] # members[e]}
                  ELSE stale \union {e \in Entities : membership'[e] # membership[e]}
      /\ request' = [request EXCEPT ![s] = None]
    BY <1>1, <1>3 DEF Boundary!CommitApproach, Boundary!Done
<1>5. /\ boundary' \in [approach : Boundary!Approaches, status : {"draft", "approved"}]
      /\ boundary'.approach \in {a, boundary.approach}
    BY <1>3, <1>4 DEF BoundaryInv, Boundary!TypeOK, Boundary!Update
<1>6. ASSUME NEW e \in Entities
      PROVE  /\ members[e] = None => membership'[e] = membership[e]
             /\ members[e] # None => membership'[e] \in Boundary!MemberRows
             /\ members[e] # None /\ membership[e] = members[e] =>
                  Settled(a, membership'[e])
    <2>1. CASE members[e] = None
        BY <1>4, <2>1
    <2>2. CASE members[e] # None
        <3>1. PICK current, loaded, changed, after :
                /\ current = membership[e] /\ loaded = members[e] /\ changed = computed[e]
                /\ after = membership'[e]
            OBVIOUS
        <3>2. /\ current \in Boundary!MemberRows /\ loaded \in Boundary!MemberRows
              /\ changed \in Boundary!MemberRows /\ Settled(a, changed)
            BY <1>3, <2>2, <3>1 DEF BoundaryInv, Boundary!TypeOK
        <3>3. after = Boundary!Update(current, loaded, changed)
            BY <1>4, <2>2, <3>1
        <3>4. after \in Boundary!MemberRows /\ (current = loaded => after = changed)
            BY <3>2, <3>3, UpdatedMember
        <3> QED
            BY <2>2, <3>1, <3>2, <3>4
    <2> QED
        BY <2>1, <2>2
<1>7. BoundaryRequests'
    BY <1>4, <1>6, NoneAssumption, BoundaryRequestsKept DEF BoundaryGrows, BoundaryInv
<1>8. Boundary!TypeOK'
    BY <1>5, <1>6 DEF BoundaryInv, Boundary!TypeOK
<1>9. Boundary!AllocationCurrent'
    <2>1. ASSUME NEW e \in Entities \ stale', membership'[e] # None
          PROVE  Settled(boundary'.approach, membership'[e])
        <3>1. CASE boundary'.approach = a
            BY <1>4, <1>6, <2>1, <3>1
        <3>2. CASE boundary'.approach # a
            <4>1. boundary'.approach = boundary.approach
                BY <1>5, <3>2
            <4>2. e \notin stale /\ membership'[e] = membership[e]
                BY <1>4, <2>1, <3>2
            <4> QED
                BY <2>1, <4>1, <4>2 DEF BoundaryInv, Boundary!AllocationCurrent, Settled
        <3> QED
            BY <3>1, <3>2
    <2> QED
        BY <2>1 DEF Boundary!AllocationCurrent, Settled
<1> QED
    BY <1>4, <1>7, <1>8, <1>9 DEF BoundaryInv

LEMMA BoundaryNext ==
    ASSUME BoundaryInv, Boundary!Next
    PROVE  BoundaryInv'
<1>1. PICK s \in Sessions :
        \/ \E e \in Entities, facts \in Facts : Boundary!LoadMember(s, e, facts)
        \/ \E a \in Boundary!Approaches : Boundary!LoadApproach(s, a)
        \/ Boundary!LoadApprove(s) \/ Boundary!Abandon(s)
        \/ Boundary!CommitMember(s) \/ Boundary!CommitApproach(s) \/ Boundary!CommitApprove(s)
    BY DEF Boundary!Next
<1>2. ASSUME Boundary!CommitApprove(s) PROVE BoundaryInv'
    <2>1. /\ boundary' = [boundary EXCEPT !.status = "approved"]
          /\ request' = [request EXCEPT ![s] = None]
          /\ UNCHANGED <<membership, stale>>
        BY <1>2 DEF Boundary!CommitApprove, Boundary!Done
    <2>2. /\ boundary' \in [approach : Boundary!Approaches, status : {"draft", "approved"}]
          /\ boundary'.approach = boundary.approach
        BY <2>1 DEF BoundaryInv, Boundary!TypeOK
    <2>3. BoundaryRequests'
        BY <2>1, BoundaryRequestsKept DEF BoundaryGrows, BoundaryInv
    <2> QED
        BY <2>1, <2>2, <2>3 DEF BoundaryInv, Boundary!TypeOK, Boundary!AllocationCurrent
<1> QED
    BY <1>1, <1>2, BoundaryReads, MemberCommits, ApproachCommits

----------------------------------------------------------------------------
(* Activities                                                               *)

(* The versions of a record are 1, 2, ..., one activity each, and the last  *)
(* one is current.                                                          *)
LedgerVersions ==
    /\ \E n \in Nat : \A a \in DOMAIN activity : activity[a].version <= n
    /\ \A a, b \in DOMAIN activity :
         activity[a].record = activity[b].record /\ activity[a].version = activity[b].version
           => a = b
    /\ \A a \in DOMAIN activity : activity[a].version # 1 =>
         \E b \in DOMAIN activity : /\ activity[b].record = activity[a].record
                                    /\ activity[b].version = activity[a].version - 1
    /\ \A a \in DOMAIN activity : activity[a].current <=>
         \A b \in DOMAIN activity : activity[b].record = activity[a].record
                                    => activity[b].version # activity[a].version + 1

Changes == [value : Amounts] \union [unit : Units]

EditOf(q, a, change) ==
    /\ DOMAIN q.loaded = {a}
    /\ q.changed = [x \in {a} |-> Ledger!Edited(q.loaded[x], change)]

(* What a request in flight has loaded, and what of it stays true: the      *)
(* version it creates follows that of the activity it supersedes.           *)
LedgerHolds(q) ==
    /\ q.op \in {"create", "update", "run"}
    /\ DOMAIN q.loaded \subseteq DOMAIN activity
    /\ \A a \in DOMAIN q.loaded : q.loaded[a] \in Ledger!ActivityRows
    /\ q.op = "create" =>
         /\ q.row \in Ledger!ActivityRows /\ q.row.current /\ q.row.status = "validated"
         /\ q.row.normal = Normal(q.row.value, q.row.unit) /\ q.row.superseded_by = 0
         /\ \/ DOMAIN q.loaded = {} /\ q.row.version = 1
            \/ \E a \in DOMAIN activity :
                 /\ activity[a].record = q.row.record
                 /\ activity[a].version = q.row.version - 1
                 /\ DOMAIN q.loaded = {a} /\ q.loaded[a].current
    /\ q.op = "update" =>
         \E a \in DOMAIN activity, change \in Changes : EditOf(q, a, change)
    /\ q.op = "run" =>
         \A a \in DOMAIN q.loaded :
           q.changed[a] = [status |-> IF a \in q.failed THEN q.loaded[a].status ELSE "calculated"]

LedgerRequests ==
    /\ DOMAIN request = Sessions
    /\ \A s \in Sessions : request[s] # None => LedgerHolds(request[s])

LedgerInv ==
    /\ Ledger!TypeOK /\ LedgerVersions /\ LedgerRequests
    /\ Ledger!NormalMatches /\ Ledger!FreshResults

(* An activity keeps its record and its version.                            *)
LedgerGrows ==
    /\ DOMAIN activity \subseteq DOMAIN activity'
    /\ \A a \in DOMAIN activity : /\ activity'[a].record = activity[a].record
                                  /\ activity'[a].version = activity[a].version

LEMMA LedgerInit == Ledger!Init => LedgerInv
<1> SUFFICES ASSUME Ledger!Init PROVE LedgerInv
    OBVIOUS
<1>1. PICK r \in Records, v \in Amounts, u \in Units : activity = <<Ledger!Row(r, 1, v, u)>>
    BY DEF Ledger!Init
<1>2. PICK x : x = Ledger!Row(r, 1, v, u)
    OBVIOUS
<1>3. /\ x \in Ledger!ActivityRows /\ x.current /\ x.version = 1 /\ x.superseded_by = 0
      /\ x.normal = Normal(x.value, x.unit) /\ x.status = "validated"
    BY <1>2 DEF Ledger!Row, Ledger!ActivityRows, Ledger!Normals
<1>4. activity = <<x>> /\ DOMAIN activity = {1} /\ activity[1] = x
    BY <1>1, <1>2
<1>5. run = <<>> /\ contested = {} /\ request = [s \in Sessions |-> None]
    BY DEF Ledger!Init, Ledger!InitRequests
<1>6. Ledger!TypeOK
    BY <1>3, <1>4, <1>5 DEF Ledger!TypeOK
<1>7. LedgerVersions
    BY <1>3, <1>4 DEF LedgerVersions
<1>8. LedgerRequests
    BY <1>5 DEF LedgerRequests
<1>9. Ledger!NormalMatches /\ Ledger!FreshResults
    BY <1>3, <1>4 DEF Ledger!NormalMatches, Ledger!FreshResults
<1> QED
    BY <1>6, <1>7, <1>8, <1>9 DEF LedgerInv

LEMMA LedgerRequestsKept ==
    ASSUME LedgerRequests, LedgerGrows, NEW s \in Sessions, NEW r,
           request' = [request EXCEPT ![s] = r], r = None \/ LedgerHolds(r)
    PROVE  LedgerRequests'
<1>1. \A q : LedgerHolds(q) => LedgerHolds(q)'
    BY DEF LedgerHolds, LedgerGrows
<1>2. DOMAIN request' = Sessions /\ request'[s] = r
      /\ \A t \in Sessions \ {s} : request'[t] = request[t]
    BY RequestChanges DEF LedgerRequests
<1>3. ASSUME NEW t \in Sessions, request'[t] # None PROVE LedgerHolds(request[t])'
    <2>1. PICK q : q = request'[t]
        OBVIOUS
    <2>2. LedgerHolds(q)
        BY <1>2, <1>3, <2>1 DEF LedgerRequests
    <2>3. LedgerHolds(q)'
        BY <1>1, <2>2
    <2> QED
        BY <2>1, <2>3 DEF LedgerHolds
<1> QED
    BY <1>2, <1>3 DEF LedgerRequests

LEMMA LedgerReadKeeps ==
    ASSUME LedgerInv, UNCHANGED activityVars, NEW s \in Sessions, NEW r,
           request' = [request EXCEPT ![s] = r], r = None \/ LedgerHolds(r)
    PROVE  LedgerInv'
<1>1. LedgerRequests'
    BY LedgerRequestsKept DEF LedgerInv, LedgerGrows, activityVars
<1>2. Ledger!TypeOK' /\ LedgerVersions'
    BY DEF LedgerInv, activityVars, Ledger!TypeOK, LedgerVersions
<1>3. Ledger!NormalMatches'
    BY DEF LedgerInv, activityVars, Ledger!NormalMatches
<1>4. Ledger!FreshResults'
    BY DEF LedgerInv, activityVars, Ledger!FreshResults
<1> QED
    BY <1>1, <1>2, <1>3, <1>4 DEF LedgerInv

LEMMA LedgerSame == LedgerInv /\ UNCHANGED <<requests, activityVars>> => LedgerInv'
<1> SUFFICES ASSUME LedgerInv, UNCHANGED <<requests, activityVars>> PROVE LedgerInv'
    OBVIOUS
<1>1. LedgerRequests'
    <2>1. ASSUME NEW t \in Sessions, request[t] # None PROVE LedgerHolds(request[t])'
        BY <2>1 DEF LedgerInv, LedgerRequests, LedgerHolds, requests, activityVars
    <2> QED
        BY <2>1 DEF LedgerInv, LedgerRequests, requests
<1>2. Ledger!TypeOK' /\ LedgerVersions'
    BY DEF LedgerInv, activityVars, Ledger!TypeOK, LedgerVersions
<1>3. Ledger!NormalMatches'
    BY DEF LedgerInv, activityVars, Ledger!NormalMatches
<1>4. Ledger!FreshResults'
    BY DEF LedgerInv, activityVars, Ledger!FreshResults
<1> QED
    BY <1>1, <1>2, <1>3, <1>4 DEF LedgerInv

LEMMA ActivityRow ==
    ASSUME activity \in Seq(Ledger!ActivityRows), NEW a \in DOMAIN activity
    PROVE  activity[a] \in Ledger!ActivityRows /\ activity[a].version \in Nat \ {0}
<1>1. activity[a] \in Ledger!ActivityRows
    OBVIOUS
<1> QED
    BY <1>1 DEF Ledger!ActivityRows

(* A version that is the greatest of its record                             *)
LEMMA GreatestVersion ==
    ASSUME LedgerVersions, activity \in Seq(Ledger!ActivityRows), NEW a \in DOMAIN activity,
           activity[a].current, NEW b \in DOMAIN activity,
           activity[b].record = activity[a].record
    PROVE  activity[b].version <= activity[a].version
<1> DEFINE r == activity[a].record
           later == {n \in Nat : n > activity[a].version /\
                       \E c \in DOMAIN activity : activity[c].record = r /\ activity[c].version = n}
<1>1. \A c \in DOMAIN activity : activity[c].version \in Nat \ {0}
    BY ActivityRow
<1>2. SUFFICES ASSUME activity[b].version > activity[a].version PROVE FALSE
    BY <1>1
<1>3. activity[b].version \in later
    BY <1>1, <1>2
<1>4. PICK m \in later : \A n \in later : m <= n
    BY <1>3, LeastNatural
<1>5. PICK c \in DOMAIN activity : activity[c].record = r /\ activity[c].version = m
    BY <1>4
<1>6. m # activity[a].version + 1
    BY <1>5 DEF LedgerVersions
<1>7. PICK d \in DOMAIN activity : activity[d].record = r /\ activity[d].version = m - 1
    <2>1. m # 1
        BY <1>1, <1>4
    <2> QED
        BY <1>5, <2>1 DEF LedgerVersions
<1>8. m - 1 \in later
    <2>1. m - 1 \in Nat /\ m - 1 > activity[a].version
        BY <1>1, <1>4, <1>6
    <2> QED
        BY <1>7, <2>1
<1> QED
    BY <1>4, <1>8

LEMMA LedgerOneCurrent ==
    ASSUME LedgerInv
    PROVE  Ledger!OneCurrent
<1> SUFFICES ASSUME NEW r \in Records
             PROVE  /\ Ledger!Cardinality(Ledger!Current(r)) <= 1
                    /\ Ledger!Current(r) = {a \in DOMAIN activity :
                         /\ activity[a].record = r
                         /\ \A n \in Ledger!VersionsOf(r) : activity[a].version >= n}
    BY DEF Ledger!OneCurrent
<1>1. activity \in Seq(Ledger!ActivityRows) /\ LedgerVersions
    BY DEF LedgerInv, Ledger!TypeOK
<1>2. \A a \in DOMAIN activity : activity[a].version \in Nat \ {0}
    BY <1>1, ActivityRow
<1>3. \A a \in Ledger!Current(r) : /\ a \in DOMAIN activity /\ activity[a].record = r
                                  /\ \A n \in Ledger!VersionsOf(r) : activity[a].version >= n
    BY <1>1, <1>2, GreatestVersion DEF Ledger!Current, Ledger!VersionsOf
<1>4. ASSUME NEW a \in DOMAIN activity, activity[a].record = r,
             \A n \in Ledger!VersionsOf(r) : activity[a].version >= n
      PROVE  a \in Ledger!Current(r)
    <2>1. \A b \in DOMAIN activity : activity[b].record = r =>
            activity[b].version # activity[a].version + 1
        BY <1>2, <1>4 DEF Ledger!VersionsOf
    <2> QED
        BY <1>1, <1>4, <2>1 DEF LedgerVersions, Ledger!Current
<1>5. \A a, b \in Ledger!Current(r) : a = b
    <2> TAKE a, b \in Ledger!Current(r)
    <2>1. activity[a].version >= activity[b].version /\ activity[b].version >= activity[a].version
        BY <1>3 DEF Ledger!VersionsOf
    <2>2. activity[a].version = activity[b].version
        BY <1>2, <1>3, <2>1
    <2> QED
        BY <1>1, <1>3, <2>2 DEF LedgerVersions
<1>6. Cardinality(Ledger!Current(r)) <= 1
    <2>1. CASE Ledger!Current(r) = {}
        BY <2>1, FS_EmptySet
    <2>2. CASE Ledger!Current(r) # {}
        <3>1. PICK a : Ledger!Current(r) = {a}
            BY <1>5, <2>2
        <3> QED
            BY <3>1, FS_Singleton
    <2> QED
        BY <2>1, <2>2
<1> QED
    BY <1>3, <1>4, <1>6 DEF Ledger!Cardinality, Cardinality

LEMMA NextActivityVersion ==
    ASSUME LedgerInv, NEW r \in Records
    PROVE  \/ /\ Ledger!NextVersion(r) = 1
              /\ Ledger!Current(r) = {}
           \/ \E a \in DOMAIN activity :
                /\ activity[a].record = r /\ Ledger!Current(r) = {a}
                /\ activity[a].version \in Nat \ {0}
                /\ Ledger!NextVersion(r) = activity[a].version + 1
<1> DEFINE versions == {0} \union Ledger!VersionsOf(r)
<1>1. activity \in Seq(Ledger!ActivityRows) /\ LedgerVersions
    BY DEF LedgerInv, Ledger!TypeOK
<1>2. \A a \in DOMAIN activity : activity[a].version \in Nat \ {0}
    BY <1>1, ActivityRow
<1>3. PICK n \in Nat : \A a \in DOMAIN activity : activity[a].version <= n
    BY <1>1 DEF LedgerVersions
<1>4. versions \in SUBSET Nat /\ versions # {} /\ \A m \in versions : m <= n
    BY <1>2, <1>3 DEF Ledger!VersionsOf
<1>5. PICK m \in versions : \A k \in versions : k <= m
    BY <1>4, GreatestNatural
<1> HIDE DEF versions
<1>6. Ledger!Max(versions) = m
    <2>1. \A k \in versions : k \in Nat
        BY <1>4
    <2>2. \A k \in versions : (\A j \in versions : k >= j) <=> k = m
        BY <1>5, <2>1
    <2> QED
        BY <1>5, <2>2 DEF Ledger!Max
<1>7. Ledger!NextVersion(r) = 1 + m
    BY <1>6 DEF Ledger!NextVersion, versions
<1>8. Ledger!OneCurrent
    BY LedgerOneCurrent
<1>9. CASE m = 0
    <2>1. Ledger!VersionsOf(r) = {}
        BY <1>2, <1>5, <1>9 DEF versions, Ledger!VersionsOf
    <2>2. Ledger!Current(r) = {}
        BY <2>1 DEF Ledger!VersionsOf, Ledger!Current
    <2> QED
        BY <1>7, <1>9, <2>2
<1>10. CASE m # 0
    <2>1. m \in Ledger!VersionsOf(r)
        BY <1>10 DEF versions
    <2>2. PICK a \in DOMAIN activity : activity[a].record = r /\ activity[a].version = m
        BY <2>1 DEF Ledger!VersionsOf
    <2>3. a \in Ledger!Current(r)
        <3>1. \A k \in Ledger!VersionsOf(r) : k <= m
            BY <1>5 DEF versions
        <3>2. \A k \in Ledger!VersionsOf(r) : activity[a].version >= k
            BY <1>2, <2>2, <3>1 DEF Ledger!VersionsOf
        <3> QED
            BY <1>8, <2>2, <3>2 DEF Ledger!OneCurrent
    <2>4. ASSUME NEW b \in Ledger!Current(r) PROVE b = a
        <3>1. b \in DOMAIN activity /\ activity[b].record = r /\ activity[b].current
            BY <2>4 DEF Ledger!Current
        <3>2. activity[b].version <= m /\ m <= activity[b].version
            <4>1. activity[b].version \in versions
                BY <3>1 DEF versions, Ledger!VersionsOf
            <4> QED
                BY <1>1, <1>2, <1>5, <2>2, <3>1, <4>1, GreatestVersion
        <3> QED
            BY <1>1, <1>2, <2>2, <3>1, <3>2 DEF LedgerVersions
    <2>5. Ledger!Current(r) = {a}
        BY <2>3, <2>4
    <2>6. activity[a].version \in Nat \ {0}
        BY <1>2
    <2> QED
        BY <1>7, <2>2, <2>5, <2>6
<1> QED
    BY <1>9, <1>10

LEMMA LedgerReads ==
    ASSUME LedgerInv, NEW s \in Sessions,
           \/ \E r \in Records, v \in Amounts, u \in Units : Ledger!LoadCreate(s, r, v, u)
           \/ \E a \in DOMAIN activity, change \in Changes : Ledger!LoadUpdate(s, a, change)
           \/ Ledger!LoadRun(s) \/ Ledger!Abandon(s)
    PROVE  LedgerInv'
<1> USE DEF Ledger!Receive, Ledger!rows, activityVars
<1>rows. \A a \in DOMAIN activity : activity[a] \in Ledger!ActivityRows
    BY ActivityRow DEF LedgerInv, Ledger!TypeOK
<1>1. ASSUME NEW r \in Records, NEW v \in Amounts, NEW u \in Units,
             Ledger!LoadCreate(s, r, v, u)
      PROVE  LedgerInv'
    <2> DEFINE existing == IF Ledger!Current(r) = {} THEN {}
                           ELSE {CHOOSE a \in Ledger!Current(r) : TRUE}
    <2>1. PICK x : x = Ledger!Row(r, Ledger!NextVersion(r), v, u)
        OBVIOUS
    <2>2. PICK q : /\ q = [op |-> "create", row |-> x,
                           loaded |-> [a \in existing |-> activity[a]]]
                   /\ request' = [request EXCEPT ![s] = q]
        BY <1>1, <2>1 DEF Ledger!LoadCreate
    <2>3. \/ Ledger!NextVersion(r) = 1 /\ existing = {}
          \/ \E a \in DOMAIN activity :
               /\ activity[a].record = r /\ activity[a].current /\ existing = {a}
               /\ activity[a].version \in Nat \ {0}
               /\ Ledger!NextVersion(r) = activity[a].version + 1
        <3>1. CASE Ledger!NextVersion(r) = 1 /\ Ledger!Current(r) = {}
            BY <3>1
        <3>2. ASSUME NEW a \in DOMAIN activity,
                     /\ activity[a].record = r /\ Ledger!Current(r) = {a}
                     /\ activity[a].version \in Nat \ {0}
                     /\ Ledger!NextVersion(r) = activity[a].version + 1
              PROVE  \E b \in DOMAIN activity :
                       /\ activity[b].record = r /\ activity[b].current /\ existing = {b}
                       /\ activity[b].version \in Nat \ {0}
                       /\ Ledger!NextVersion(r) = activity[b].version + 1
            <4>1. existing = {a}
                BY <3>2
            <4>2. activity[a].current
                BY <3>2 DEF Ledger!Current
            <4> QED
                BY <3>2, <4>1, <4>2
        <3> QED
            BY <3>1, <3>2, NextActivityVersion
    <2> HIDE DEF existing
    <2>4. Ledger!NextVersion(r) \in Nat \ {0}
        BY <2>3
    <2>5. /\ x \in Ledger!ActivityRows /\ x.current /\ x.status = "validated"
          /\ x.normal = Normal(x.value, x.unit) /\ x.superseded_by = 0
          /\ x.record = r /\ x.version = Ledger!NextVersion(r)
        BY <2>1, <2>4 DEF Ledger!Row, Ledger!ActivityRows, Ledger!Normals
    <2>6. DOMAIN q.loaded = existing /\ \A a \in existing : q.loaded[a] = activity[a]
        BY <2>2
    <2>7. q.op = "create" /\ q.row = x
        BY <2>2
    <2>8. LedgerHolds(q)
        <3>1. CASE Ledger!NextVersion(r) = 1 /\ existing = {}
            BY <2>5, <2>6, <2>7, <3>1 DEF LedgerHolds
        <3>2. ASSUME NEW a \in DOMAIN activity,
                     /\ activity[a].record = r /\ activity[a].current /\ existing = {a}
                     /\ activity[a].version \in Nat \ {0}
                     /\ Ledger!NextVersion(r) = activity[a].version + 1
              PROVE  LedgerHolds(q)
            <4>1. activity[a].version = x.version - 1
                BY <2>5, <3>2
            <4> QED
                BY <1>rows, <2>5, <2>6, <2>7, <3>2, <4>1 DEF LedgerHolds
        <3> QED
            BY <2>3, <3>1, <3>2
    <2> QED
        BY <1>1, <2>2, <2>8, LedgerReadKeeps DEF Ledger!LoadCreate
<1>2. ASSUME NEW a \in DOMAIN activity, NEW change \in Changes, Ledger!LoadUpdate(s, a, change)
      PROVE  LedgerInv'
    <2>1. PICK q : /\ q = [op |-> "update", loaded |-> [x \in {a} |-> activity[x]],
                           changed |-> [x \in {a} |-> Ledger!Edited(activity[x], change)]]
                   /\ request' = [request EXCEPT ![s] = q]
        BY <1>2 DEF Ledger!LoadUpdate
    <2>2. q.op = "update" /\ q.loaded = [x \in {a} |-> activity[x]]
        BY <2>1
    <2>3. EditOf(q, a, change)
        BY <2>1 DEF EditOf
    <2>4. LedgerHolds(q)
        BY <1>rows, <2>2, <2>3 DEF LedgerHolds
    <2> QED
        BY <1>2, <2>1, <2>4, LedgerReadKeeps DEF Ledger!LoadUpdate
<1>3. ASSUME Ledger!LoadRun(s) PROVE LedgerInv'
    <2>1. PICK failed \in SUBSET Ledger!Calculable :
            request' = [request EXCEPT ![s] =
              [op |-> "run", version |-> Len(run) + 1, failed |-> failed,
               loaded |-> [a \in Ledger!Calculable |-> activity[a]],
               changed |-> [a \in Ledger!Calculable |->
                  IF a \in failed THEN [status |-> activity[a].status]
                  ELSE [status |-> "calculated"]]]]
        BY <1>3 DEF Ledger!LoadRun
    <2>2. PICK q : /\ q = [op |-> "run", version |-> Len(run) + 1, failed |-> failed,
                           loaded |-> [a \in Ledger!Calculable |-> activity[a]],
                           changed |-> [a \in Ledger!Calculable |->
                              IF a \in failed THEN [status |-> activity[a].status]
                              ELSE [status |-> "calculated"]]]
                   /\ request' = [request EXCEPT ![s] = q]
        BY <2>1
    <2>3. Ledger!Calculable \subseteq DOMAIN activity
        BY DEF Ledger!Calculable
    <2>4. LedgerHolds(q)
        BY <1>rows, <2>2, <2>3 DEF LedgerHolds
    <2> QED
        BY <1>3, <2>2, <2>4, LedgerReadKeeps DEF Ledger!LoadRun
<1>4. ASSUME Ledger!Abandon(s) PROVE LedgerInv'
    BY <1>4, LedgerReadKeeps DEF Ledger!Abandon, Ledger!Fail, Ledger!Done
<1> QED
    BY <1>1, <1>2, <1>3, <1>4

(* What an edit, a run and a newer version make of a row                    *)
EditKept(current, loaded, after) ==
    /\ after \in Ledger!ActivityRows
    /\ after.record = current.record /\ after.version = current.version
    /\ after.current = current.current /\ after.superseded_by = current.superseded_by
    /\ current = loaded => /\ after.normal = Normal(after.value, after.unit)
                           /\ after.status = "validated"

LEMMA EditedRow ==
    ASSUME NEW current \in Ledger!ActivityRows, NEW loaded \in Ledger!ActivityRows,
           NEW change \in Changes,
           NEW after, after = Ledger!Update(current, loaded, Ledger!Edited(loaded, change))
    PROVE  EditKept(current, loaded, after)
<1>1. PICK changed : changed = Ledger!Edited(loaded, change)
    OBVIOUS
<1>2. CASE change \in [value : Amounts]
    <2>1. DOMAIN change = {"value"} /\ change.value \in Amounts
        BY <1>2
    <2>2. /\ DOMAIN changed = {"value", "normal", "status"}
          /\ changed.value = change.value /\ changed.status = "validated"
          /\ changed.normal = Normal(change.value, loaded.unit)
        BY <1>1, <2>1 DEF Ledger!Edited, Ledger!Normalised
    <2>3. changed.normal \in Ledger!Normals
        BY <2>1, <2>2 DEF Ledger!Normals, Ledger!ActivityRows
    <2> HIDE DEF Ledger!Edited
    <2> QED
        BY <1>1, <2>1, <2>2, <2>3 DEF EditKept, Ledger!Update, Ledger!ActivityRows
<1>3. CASE change \in [unit : Units]
    <2>1. DOMAIN change = {"unit"} /\ change.unit \in Units
        BY <1>3
    <2>2. /\ DOMAIN changed = {"unit", "normal", "status"}
          /\ changed.unit = change.unit /\ changed.status = "validated"
          /\ changed.normal = Normal(loaded.value, change.unit)
        BY <1>1, <2>1 DEF Ledger!Edited, Ledger!Normalised
    <2>3. changed.normal \in Ledger!Normals
        BY <2>1, <2>2 DEF Ledger!Normals, Ledger!ActivityRows
    <2> QED
        BY <1>1, <2>1, <2>2, <2>3 DEF EditKept, Ledger!Update, Ledger!ActivityRows
<1> QED
    BY <1>2, <1>3 DEF Changes

LEMMA CalculatedRow ==
    ASSUME NEW current \in Ledger!ActivityRows, NEW loaded \in Ledger!ActivityRows,
           NEW x \in {"validated", "calculated", "superseded"},
           NEW after, after = Ledger!Update(current, loaded, [status |-> x])
    PROVE  /\ after \in Ledger!ActivityRows
           /\ after.record = current.record /\ after.version = current.version
           /\ after.current = current.current /\ after.superseded_by = current.superseded_by
           /\ after.value = current.value /\ after.unit = current.unit
           /\ after.normal = current.normal
           /\ current = loaded => after.status = x
BY DEF Ledger!Update, Ledger!ActivityRows

LEMMA SupersededRow ==
    ASSUME NEW current \in Ledger!ActivityRows, NEW loaded \in Ledger!ActivityRows,
           loaded.current, NEW id \in Nat,
           NEW after, after = Ledger!Update(current, loaded,
                        [current |-> FALSE, status |-> "superseded", superseded_by |-> id])
    PROVE  /\ after \in Ledger!ActivityRows
           /\ after.record = current.record /\ after.version = current.version
           /\ ~after.current /\ after.superseded_by \in {current.superseded_by, id}
           /\ after.value = current.value /\ after.unit = current.unit
           /\ after.normal = current.normal
           /\ current = loaded => after.status = "superseded"
BY DEF Ledger!Update, Ledger!ActivityRows

(* The rows of an edit and of a run stay where they are.                    *)
LEMMA RowsReplaced ==
    ASSUME LedgerInv, DOMAIN activity' = DOMAIN activity, activity' = [a \in DOMAIN activity |-> activity'[a]],
           \A a \in DOMAIN activity :
             /\ activity'[a] \in Ledger!ActivityRows
             /\ activity'[a].record = activity[a].record
             /\ activity'[a].version = activity[a].version
             /\ activity'[a].current = activity[a].current
             /\ activity'[a].superseded_by = activity[a].superseded_by
    PROVE  /\ activity' \in Seq(Ledger!ActivityRows) /\ Len(activity') = Len(activity)
           /\ \A a \in DOMAIN activity' : activity'[a].superseded_by <= Len(activity')
           /\ LedgerVersions' /\ LedgerGrows
<1>1. activity \in Seq(Ledger!ActivityRows)
    BY DEF LedgerInv, Ledger!TypeOK
<1>2. activity' \in Seq(Ledger!ActivityRows) /\ Len(activity') = Len(activity)
    BY <1>1
<1>3. \A a \in DOMAIN activity' : activity'[a].superseded_by <= Len(activity')
    BY <1>2 DEF LedgerInv, Ledger!TypeOK
<1>4. LedgerVersions'
    <2>1. LedgerVersions
        BY DEF LedgerInv
    <2> QED
        BY <2>1 DEF LedgerVersions
<1>5. LedgerGrows
    BY DEF LedgerGrows
<1> QED
    BY <1>2, <1>3, <1>4, <1>5

LEMMA ActivityUpdates ==
    ASSUME LedgerInv, NEW s \in Sessions, Ledger!CommitUpdate(s)
    PROVE  LedgerInv'
<1>1. PICK q : q = request[s]
    OBVIOUS
<1>2. LedgerHolds(q) /\ q.op = "update"
    BY <1>1 DEF LedgerInv, LedgerRequests, Ledger!CommitUpdate, Ledger!Serving
<1>3. PICK e \in DOMAIN activity, change \in Changes : EditOf(q, e, change)
    BY <1>2 DEF LedgerHolds
<1>4. PICK old : old = q.loaded[e]
    OBVIOUS
<1>5. old \in Ledger!ActivityRows
    BY <1>2, <1>3, <1>4 DEF LedgerHolds, EditOf
<1>6. /\ activity' = [a \in DOMAIN activity |->
                        IF a = e THEN Ledger!Update(activity[a], old, Ledger!Edited(old, change))
                        ELSE activity[a]]
      /\ contested' = contested \union {a \in {e} : activity[a] # old}
      /\ request' = [request EXCEPT ![s] = None]
      /\ UNCHANGED run
    BY <1>1, <1>3, <1>4
    DEF Ledger!CommitUpdate, Ledger!Changed, Ledger!Contested, Ledger!Done, EditOf
<1>7. \A a \in DOMAIN activity : activity[a] \in Ledger!ActivityRows
    BY ActivityRow DEF LedgerInv, Ledger!TypeOK
<1>8. PICK current, after : current = activity[e] /\ after = activity'[e]
    OBVIOUS
<1>9. after = Ledger!Update(current, old, Ledger!Edited(old, change))
    BY <1>6, <1>8
<1>10. /\ after \in Ledger!ActivityRows
       /\ after.record = current.record /\ after.version = current.version
       /\ after.current = current.current /\ after.superseded_by = current.superseded_by
       /\ current = old => /\ after.normal = Normal(after.value, after.unit)
                           /\ after.status = "validated"
    <2>1. current \in Ledger!ActivityRows
        BY <1>7, <1>8
    <2>2. EditKept(current, old, after)
        BY <1>5, <1>9, <2>1, EditedRow
    <2> QED
        BY <2>2 DEF EditKept
<1>11. /\ DOMAIN activity' = DOMAIN activity
       /\ \A a \in DOMAIN activity \ {e} : activity'[a] = activity[a]
       /\ e \in contested' \/ current = old
       /\ contested \subseteq contested'
    BY <1>6, <1>8
<1>12. activity' = [a \in DOMAIN activity |-> activity'[a]]
    BY <1>6
<1>13. /\ activity' \in Seq(Ledger!ActivityRows) /\ Len(activity') = Len(activity)
       /\ \A a \in DOMAIN activity' : activity'[a].superseded_by <= Len(activity')
       /\ LedgerVersions' /\ LedgerGrows
    BY <1>7, <1>8, <1>10, <1>11, <1>12, RowsReplaced
<1>14. LedgerRequests'
    BY <1>6, <1>13, LedgerRequestsKept DEF LedgerInv
<1>15. Ledger!TypeOK'
    BY <1>6, <1>11, <1>13 DEF LedgerInv, Ledger!TypeOK
<1>16. Ledger!NormalMatches'
    BY <1>8, <1>10, <1>11 DEF LedgerInv, Ledger!NormalMatches
<1>17. Ledger!FreshResults'
    <2>1. ASSUME NEW a \in DOMAIN activity' \ contested', activity'[a].status = "calculated"
          PROVE  a \in DOMAIN activity \ contested /\ activity'[a] = activity[a]
        BY <1>8, <1>10, <1>11, <2>1
    <2> QED
        BY <1>6, <2>1 DEF LedgerInv, Ledger!FreshResults
<1> QED
    BY <1>13, <1>14, <1>15, <1>16, <1>17 DEF LedgerInv

LEMMA ActivityRuns ==
    ASSUME LedgerInv, NEW s \in Sessions, Ledger!CommitRun(s)
    PROVE  LedgerInv'
<1>1. PICK q : q = request[s]
    OBVIOUS
<1>2. LedgerHolds(q) /\ q.op = "run"
    BY <1>1 DEF LedgerInv, LedgerRequests, Ledger!CommitRun, Ledger!Serving
<1>3. PICK loaded, failed, changed :
        loaded = q.loaded /\ failed = q.failed /\ changed = q.changed
    OBVIOUS
<1>4. /\ DOMAIN loaded \subseteq DOMAIN activity
      /\ \A a \in DOMAIN loaded : loaded[a] \in Ledger!ActivityRows
      /\ \A a \in DOMAIN loaded :
           changed[a] = [status |-> IF a \in failed THEN loaded[a].status ELSE "calculated"]
    BY <1>2, <1>3 DEF LedgerHolds
<1>5. PICK made : made = [a \in DOMAIN loaded \ failed |->
                            Normal(loaded[a].value, loaded[a].unit)]
    OBVIOUS
<1>6. /\ run' = Append(run, made)
      /\ activity' = [a \in DOMAIN activity |->
                        IF a \in DOMAIN loaded
                        THEN Ledger!Update(activity[a], loaded[a], changed[a])
                        ELSE activity[a]]
      /\ contested' = contested \union {a \in DOMAIN loaded : activity[a] # loaded[a]}
      /\ request' = [request EXCEPT ![s] = None]
    BY <1>1, <1>3, <1>5
    DEF Ledger!CommitRun, Ledger!Changed, Ledger!Contested, Ledger!Done
<1>7. \A a \in DOMAIN activity : activity[a] \in Ledger!ActivityRows
    BY ActivityRow DEF LedgerInv, Ledger!TypeOK
<1>8. ASSUME NEW a \in DOMAIN activity
      PROVE  /\ activity'[a] \in Ledger!ActivityRows
             /\ activity'[a].record = activity[a].record
             /\ activity'[a].version = activity[a].version
             /\ activity'[a].current = activity[a].current
             /\ activity'[a].superseded_by = activity[a].superseded_by
             /\ activity'[a].value = activity[a].value /\ activity'[a].unit = activity[a].unit
             /\ activity'[a].normal = activity[a].normal
             /\ a \notin DOMAIN loaded => activity'[a] = activity[a]
             /\ a \in DOMAIN loaded /\ a \in failed /\ activity[a] = loaded[a] =>
                  activity'[a].status = activity[a].status
    <2>1. CASE a \notin DOMAIN loaded
        BY <1>6, <1>7, <2>1
    <2>2. CASE a \in DOMAIN loaded
        <3>1. PICK current, old, x, after :
                /\ current = activity[a] /\ old = loaded[a] /\ after = activity'[a]
                /\ x = IF a \in failed THEN old.status ELSE "calculated"
            OBVIOUS
        <3>2. /\ current \in Ledger!ActivityRows /\ old \in Ledger!ActivityRows
              /\ x \in {"validated", "calculated", "superseded"}
            BY <1>4, <1>7, <2>2, <3>1 DEF Ledger!ActivityRows
        <3>3. after = Ledger!Update(current, old, [status |-> x])
            BY <1>4, <1>6, <2>2, <3>1
        <3>4. /\ after \in Ledger!ActivityRows
              /\ after.record = current.record /\ after.version = current.version
              /\ after.current = current.current /\ after.superseded_by = current.superseded_by
              /\ after.value = current.value /\ after.unit = current.unit
              /\ after.normal = current.normal
              /\ current = old => after.status = x
            BY <3>2, <3>3, CalculatedRow
        <3> QED
            BY <2>2, <3>1, <3>4
    <2> QED
        BY <2>1, <2>2
<1>9. DOMAIN activity' = DOMAIN activity /\ activity' = [a \in DOMAIN activity |-> activity'[a]]
    BY <1>6
<1>10. /\ activity' \in Seq(Ledger!ActivityRows) /\ Len(activity') = Len(activity)
       /\ \A a \in DOMAIN activity' : activity'[a].superseded_by <= Len(activity')
       /\ LedgerVersions' /\ LedgerGrows
    BY <1>8, <1>9, RowsReplaced
<1>11. LedgerRequests'
    BY <1>6, <1>10, LedgerRequestsKept DEF LedgerInv
<1> DEFINE rows_ == UNION {[d -> Ledger!Normals] : d \in SUBSET DOMAIN activity}
<1>12. run \in Seq(rows_) /\ made \in rows_
    <2>1. run \in Seq(rows_)
        BY DEF LedgerInv, Ledger!TypeOK
    <2>2. made \in [DOMAIN loaded \ failed -> Ledger!Normals]
        BY <1>4, <1>5 DEF Ledger!Normals, Ledger!ActivityRows
    <2>3. DOMAIN loaded \ failed \in SUBSET DOMAIN activity
        BY <1>4
    <2> QED
        BY <2>1, <2>2, <2>3
<1>13. Ledger!TypeOK'
    <2>1. run' \in Seq(rows_)
        <3> HIDE DEF rows_
        <3> QED
            BY <1>6, <1>12
    <2>2. run' \in Seq(UNION {[d -> Ledger!Normals] : d \in SUBSET DOMAIN activity'})
        BY <1>9, <2>1
    <2> QED
        BY <1>10, <2>2 DEF Ledger!TypeOK
<1>14. Ledger!NormalMatches'
    BY <1>6, <1>8, <1>9 DEF LedgerInv, Ledger!NormalMatches
<1>15. Ledger!FreshResults'
    <2> HIDE DEF rows_
    <2> DEFINE of(a) == {n \in DOMAIN run : a \in DOMAIN run[n]}
    <2>1. /\ DOMAIN run = 1 .. Len(run) /\ Len(run) \in Nat
          /\ DOMAIN run' = 1 .. Len(run) + 1 /\ run'[Len(run) + 1] = made
          /\ \A n \in DOMAIN run : run'[n] = run[n]
        BY <1>6, <1>12
    <2>2. DOMAIN made = DOMAIN loaded \ failed
        BY <1>5
    <2> SUFFICES ASSUME NEW a \in DOMAIN activity, a \notin contested',
                        activity'[a].status = "calculated"
                 PROVE  /\ of(a)' # {}
                        /\ \A n \in of(a)' : (\A m \in of(a)' : m <= n) =>
                             run'[n][a] = Normal(activity[a].value, activity[a].unit)
        BY <1>8, <1>9 DEF Ledger!FreshResults
    <2>3. CASE a \in DOMAIN loaded \ failed
        <3>1. activity[a] = loaded[a]
            BY <1>6, <2>3
        <3>2. Len(run) + 1 \in of(a)'
            BY <2>1, <2>2, <2>3
        <3>3. made[a] = Normal(activity[a].value, activity[a].unit)
            BY <1>5, <2>3, <3>1
        <3>4. ASSUME NEW n \in of(a)', \A m \in of(a)' : m <= n PROVE n = Len(run) + 1
            <4>1. n \in DOMAIN run'
                OBVIOUS
            <4>2. Len(run) + 1 <= n
                BY <3>2, <3>4
            <4> QED
                BY <2>1, <4>1, <4>2
        <3> QED
            BY <2>1, <3>2, <3>3, <3>4
    <2>4. CASE a \notin DOMAIN loaded \ failed
        <3>1. of(a)' = of(a)
            BY <2>1, <2>2, <2>4
        <3>2. activity[a].status = "calculated" /\ a \notin contested
            BY <1>6, <1>8, <2>4
        <3>3. /\ of(a) # {}
              /\ \A n \in of(a) : (\A m \in of(a) : m <= n) =>
                   run[n][a] = Normal(activity[a].value, activity[a].unit)
            BY <3>2 DEF LedgerInv, Ledger!FreshResults
        <3>4. \A n \in of(a) : run'[n] = run[n]
            BY <2>1
        <3> QED
            BY <3>1, <3>3, <3>4
    <2> QED
        BY <2>3, <2>4
<1> QED
    BY <1>10, <1>11, <1>13, <1>14, <1>15 DEF LedgerInv

(* A new version, from a request whose version no other has taken: nothing  *)
(* has superseded what it loaded.                                           *)
LEMMA ActivityCreated ==
    ASSUME LedgerInv, NEW s \in Sessions, Ledger!CommitCreate(s)
    PROVE  LedgerInv'
<1>1. PICK q : q = request[s]
    OBVIOUS
<1>2. LedgerHolds(q) /\ q.op = "create"
    BY <1>1 DEF LedgerInv, LedgerRequests, Ledger!CommitCreate, Ledger!Serving
<1>3. PICK x, loaded : x = q.row /\ loaded = q.loaded
    OBVIOUS
<1>4. /\ x \in Ledger!ActivityRows /\ x.current /\ x.status = "validated"
      /\ x.normal = Normal(x.value, x.unit) /\ x.superseded_by = 0
      /\ DOMAIN loaded \subseteq DOMAIN activity
      /\ \A a \in DOMAIN loaded : loaded[a] \in Ledger!ActivityRows
      /\ \/ DOMAIN loaded = {} /\ x.version = 1
         \/ \E a \in DOMAIN activity :
              /\ activity[a].record = x.record
              /\ activity[a].version = x.version - 1
              /\ DOMAIN loaded = {a} /\ loaded[a].current
    BY <1>2, <1>3 DEF LedgerHolds
<1>5. PICK id : id = Len(activity) + 1
    OBVIOUS
<1> DEFINE superseded == [current |-> FALSE, status |-> "superseded", superseded_by |-> id]
<1>6. PICK kept : kept = [a \in DOMAIN activity |->
                            IF a \in DOMAIN loaded
                            THEN Ledger!Update(activity[a], loaded[a], superseded)
                            ELSE activity[a]]
    OBVIOUS
<1>7. /\ x.version \notin Ledger!VersionsOf(x.record)
      /\ activity' = Append(kept, x)
      /\ contested' = contested \union {a \in DOMAIN loaded : activity[a] # loaded[a]}
      /\ request' = [request EXCEPT ![s] = None]
      /\ UNCHANGED run
    <2>1. Ledger!Changed([loaded |-> loaded, changed |-> [a \in DOMAIN loaded |-> superseded]])
            = kept
        BY <1>6 DEF Ledger!Changed
    <2> QED
        BY <1>1, <1>3, <1>5, <2>1
        DEF Ledger!CommitCreate, Ledger!VersionFree, Ledger!Contested, Ledger!Done
<1>8. activity \in Seq(Ledger!ActivityRows) /\ Len(activity) \in Nat /\ id \in Nat
      /\ DOMAIN activity = 1 .. Len(activity)
    BY <1>5 DEF LedgerInv, Ledger!TypeOK
<1>9. \A a \in DOMAIN activity : /\ activity[a] \in Ledger!ActivityRows
                                /\ activity[a].version \in Nat \ {0}
    BY <1>8, ActivityRow
<1>10. ASSUME NEW a \in DOMAIN activity
       PROVE  /\ kept[a] \in Ledger!ActivityRows
              /\ kept[a].record = activity[a].record /\ kept[a].version = activity[a].version
              /\ kept[a].value = activity[a].value /\ kept[a].unit = activity[a].unit
              /\ kept[a].normal = activity[a].normal
              /\ kept[a].superseded_by \in {activity[a].superseded_by, id}
              /\ kept[a].current <=> activity[a].current /\ a \notin DOMAIN loaded
              /\ a \notin DOMAIN loaded => kept[a] = activity[a]
              /\ a \in DOMAIN loaded /\ activity[a] = loaded[a] => kept[a].status = "superseded"
    <2>1. CASE a \notin DOMAIN loaded
        BY <1>6, <1>9, <2>1
    <2>2. CASE a \in DOMAIN loaded
        <3>1. PICK current, old, after : current = activity[a] /\ old = loaded[a] /\ after = kept[a]
            OBVIOUS
        <3>2. /\ current \in Ledger!ActivityRows /\ old \in Ledger!ActivityRows
              /\ old.current
            BY <1>4, <1>9, <2>2, <3>1
        <3>3. after = Ledger!Update(current, old, superseded)
            BY <1>6, <2>2, <3>1
        <3>4. /\ after \in Ledger!ActivityRows
              /\ after.record = current.record /\ after.version = current.version
              /\ ~after.current /\ after.superseded_by \in {current.superseded_by, id}
              /\ after.value = current.value /\ after.unit = current.unit
              /\ after.normal = current.normal
              /\ current = old => after.status = "superseded"
            BY <1>8, <3>2, <3>3, SupersededRow
        <3> QED
            BY <2>2, <3>1, <3>4
    <2> QED
        BY <2>1, <2>2
<1>11. /\ kept \in Seq(Ledger!ActivityRows) /\ Len(kept) = Len(activity)
       /\ activity' \in Seq(Ledger!ActivityRows) /\ Len(activity') = id
       /\ DOMAIN activity' = DOMAIN activity \union {id} /\ id \notin DOMAIN activity
       /\ activity'[id] = x /\ \A a \in DOMAIN activity : activity'[a] = kept[a]
    <2>1. kept \in Seq(Ledger!ActivityRows) /\ Len(kept) = Len(activity)
        <3>1. kept = [a \in 1 .. Len(activity) |-> kept[a]]
            BY <1>6, <1>8
        <3>2. \A a \in 1 .. Len(activity) : kept[a] \in Ledger!ActivityRows
            BY <1>8, <1>10
        <3> QED
            BY <1>8, <3>1, <3>2
    <2>2. /\ activity' \in Seq(Ledger!ActivityRows) /\ Len(activity') = id
          /\ activity'[id] = x /\ \A a \in 1 .. Len(activity) : activity'[a] = kept[a]
        BY <1>4, <1>5, <1>7, <1>8, <2>1
    <2>3. DOMAIN activity' = 1 .. id
        BY <2>2
    <2> QED
        BY <1>5, <1>8, <2>1, <2>2, <2>3
<1>12. x.version \in Nat \ {0}
    BY <1>4 DEF Ledger!ActivityRows
<1>13. \A a \in DOMAIN activity : activity[a].record = x.record => activity[a].version # x.version
    BY <1>7 DEF Ledger!VersionsOf
<1>14. LedgerVersions
    BY DEF LedgerInv
<1>15. LedgerVersions'
    <2>1. \E n \in Nat : \A a \in DOMAIN activity' : activity'[a].version <= n
        <3>1. PICK n \in Nat : \A a \in DOMAIN activity : activity[a].version <= n
            BY <1>14 DEF LedgerVersions
        <3>2. PICK m \in Nat : m >= n /\ m >= x.version
            BY <1>12
        <3>3. \A a \in DOMAIN activity' : activity'[a].version <= m
            BY <1>9, <1>10, <1>11, <1>12, <3>1, <3>2
        <3> QED
            BY <3>2, <3>3
    <2>2. \A a, b \in DOMAIN activity' :
            activity'[a].record = activity'[b].record /\ activity'[a].version = activity'[b].version
              => a = b
        BY <1>10, <1>11, <1>13, <1>14 DEF LedgerVersions
    <2>3. ASSUME NEW a \in DOMAIN activity', activity'[a].version # 1
          PROVE  \E b \in DOMAIN activity' : /\ activity'[b].record = activity'[a].record
                                             /\ activity'[b].version = activity'[a].version - 1
        <3>1. CASE a = id
            <4>1. PICK b \in DOMAIN activity : /\ activity[b].record = x.record
                                               /\ activity[b].version = x.version - 1
                BY <1>4, <1>11, <2>3, <3>1
            <4> QED
                BY <1>10, <1>11, <3>1, <4>1
        <3>2. CASE a \in DOMAIN activity
            <4>1. activity'[a].record = activity[a].record
                  /\ activity'[a].version = activity[a].version
                BY <1>10, <1>11, <3>2
            <4>2. PICK b \in DOMAIN activity : /\ activity[b].record = activity[a].record
                                               /\ activity[b].version = activity[a].version - 1
                BY <1>14, <2>3, <3>2, <4>1 DEF LedgerVersions
            <4> QED
                BY <1>10, <1>11, <4>1, <4>2
        <3> QED
            BY <1>11, <3>1, <3>2
    <2>4. ASSUME NEW a \in DOMAIN activity'
          PROVE  activity'[a].current <=>
                   \A b \in DOMAIN activity' : activity'[b].record = activity'[a].record
                                               => activity'[b].version # activity'[a].version + 1
        <3>1. CASE a = id
            <4>1. ASSUME NEW b \in DOMAIN activity', activity'[b].record = x.record,
                         activity'[b].version = x.version + 1
                  PROVE  FALSE
                <5>1. b \in DOMAIN activity
                    BY <1>11, <1>12, <4>1
                <5>2. activity[b].record = x.record /\ activity[b].version = x.version + 1
                    BY <1>10, <1>11, <4>1, <5>1
                <5>3. PICK c \in DOMAIN activity : /\ activity[c].record = x.record
                                                   /\ activity[c].version = x.version
                    BY <1>12, <1>14, <5>1, <5>2 DEF LedgerVersions
                <5> QED
                    BY <1>13, <5>3
            <4> QED
                BY <1>4, <1>11, <3>1, <4>1
        <3>2. CASE a \in DOMAIN activity /\ a \in DOMAIN loaded
            <4>1. ~activity'[a].current
                BY <1>10, <1>11, <3>2
            <4>2. activity'[a].record = x.record /\ x.version = activity'[a].version + 1
                <5>1. activity[a].record = x.record /\ activity[a].version = x.version - 1
                    BY <1>4, <3>2
                <5>2. activity'[a].record = activity[a].record
                      /\ activity'[a].version = activity[a].version
                    BY <1>10, <1>11, <3>2
                <5> QED
                    BY <1>9, <1>12, <3>2, <5>1, <5>2
            <4> QED
                BY <1>11, <4>1, <4>2
        <3>3. CASE a \in DOMAIN activity /\ a \notin DOMAIN loaded
            <4>1. activity'[a] = activity[a]
                BY <1>10, <1>11, <3>3
            <4>2. ~(x.record = activity[a].record /\ x.version = activity[a].version + 1)
                <5>1. SUFFICES ASSUME x.record = activity[a].record,
                                      x.version = activity[a].version + 1
                               PROVE  FALSE
                    OBVIOUS
                <5>2. x.version # 1
                    BY <1>9, <3>3, <5>1
                <5>3. PICK c \in DOMAIN activity :
                        /\ activity[c].record = x.record /\ activity[c].version = x.version - 1
                        /\ DOMAIN loaded = {c}
                    BY <1>4, <5>2
                <5>4. activity[c].version = activity[a].version
                    BY <1>9, <3>3, <5>1, <5>3
                <5>5. c = a
                    BY <1>14, <3>3, <5>1, <5>3, <5>4 DEF LedgerVersions
                <5> QED
                    BY <3>3, <5>3, <5>5
            <4>3. activity[a].current <=>
                    \A b \in DOMAIN activity : activity[b].record = activity[a].record
                                               => activity[b].version # activity[a].version + 1
                BY <1>14, <3>3 DEF LedgerVersions
            <4> QED
                BY <1>10, <1>11, <4>1, <4>2, <4>3
        <3> QED
            BY <1>11, <3>1, <3>2, <3>3
    <2> QED
        BY <2>1, <2>2, <2>3, <2>4 DEF LedgerVersions
<1>16. LedgerRequests'
    <2>1. LedgerGrows
        BY <1>10, <1>11 DEF LedgerGrows
    <2> QED
        BY <1>7, <2>1, LedgerRequestsKept DEF LedgerInv
<1>17. Ledger!TypeOK'
    <2>1. ASSUME NEW a \in DOMAIN activity' PROVE activity'[a].superseded_by <= Len(activity')
        <3>1. CASE a = id
            BY <1>4, <1>8, <1>11, <3>1
        <3>2. CASE a \in DOMAIN activity
            <4>1. activity[a].superseded_by <= Len(activity) /\ activity[a].superseded_by \in Nat
                BY <1>9, <3>2 DEF LedgerInv, Ledger!TypeOK, Ledger!ActivityRows
            <4>2. activity'[a].superseded_by \in {activity[a].superseded_by, id}
                BY <1>10, <1>11, <3>2
            <4> QED
                BY <1>5, <1>8, <1>11, <4>1, <4>2
        <3> QED
            BY <1>11, <3>1, <3>2
    <2>2. run' \in Seq(UNION {[d -> Ledger!Normals] : d \in SUBSET DOMAIN activity'})
        <3>1. run \in Seq(UNION {[d -> Ledger!Normals] : d \in SUBSET DOMAIN activity})
            BY DEF LedgerInv, Ledger!TypeOK
        <3>2. UNION {[d -> Ledger!Normals] : d \in SUBSET DOMAIN activity}
                \subseteq UNION {[d -> Ledger!Normals] : d \in SUBSET DOMAIN activity'}
            BY <1>11
        <3>3. PICK A, B : /\ A = UNION {[d -> Ledger!Normals] : d \in SUBSET DOMAIN activity}
                          /\ B = UNION {[d -> Ledger!Normals] : d \in SUBSET DOMAIN activity'}
            OBVIOUS
        <3>4. run \in Seq(A) /\ A \subseteq B
            BY <3>1, <3>2, <3>3
        <3>5. run \in Seq(B)
            BY <3>4
        <3> QED
            BY <1>7, <3>3, <3>5
    <2> QED
        BY <1>11, <2>1, <2>2 DEF Ledger!TypeOK
<1>18. Ledger!NormalMatches'
    BY <1>4, <1>7, <1>10, <1>11 DEF LedgerInv, Ledger!NormalMatches
<1>19. Ledger!FreshResults'
    <2>1. ASSUME NEW a \in DOMAIN activity' \ contested', activity'[a].status = "calculated"
          PROVE  a \in DOMAIN activity \ contested /\ activity'[a] = activity[a]
        BY <1>4, <1>7, <1>10, <1>11, <2>1
    <2> QED
        BY <1>7, <2>1 DEF LedgerInv, Ledger!FreshResults
<1> QED
    BY <1>15, <1>16, <1>17, <1>18, <1>19 DEF LedgerInv

LEMMA LedgerNext ==
    ASSUME LedgerInv, Ledger!Next
    PROVE  LedgerInv'
<1>1. PICK s \in Sessions :
        \/ \E r \in Records, v \in Amounts, u \in Units : Ledger!LoadCreate(s, r, v, u)
        \/ \E a \in DOMAIN activity :
              \/ \E v \in Amounts : Ledger!LoadUpdate(s, a, [value |-> v])
              \/ \E u \in Units   : Ledger!LoadUpdate(s, a, [unit |-> u])
        \/ Ledger!LoadRun(s) \/ Ledger!Abandon(s)
        \/ Ledger!CommitCreate(s) \/ Ledger!CommitUpdate(s) \/ Ledger!CommitRun(s)
    BY DEF Ledger!Next
<1>2. /\ \A v \in Amounts : [value |-> v] \in Changes
      /\ \A u \in Units : [unit |-> u] \in Changes
    BY DEF Changes
<1> QED
    BY <1>1, <1>2, LedgerReads, ActivityCreated, ActivityUpdates, ActivityRuns

----------------------------------------------------------------------------
(* ReportingSetup                                                           *)

(* Periods and inventories are numbered from 1, the versions of a period's  *)
(* inventories without gaps; a base year is the only one.                   *)
SetupTables ==
    /\ IsFiniteSet(period) /\ IsFiniteSet(inventory)
    /\ \A p \in period : p.id <= Cardinality(period)
    /\ \A i \in inventory : i.id <= Cardinality(inventory) /\ i.version <= i.id
    /\ \A p, q \in period : p.base_year /\ q.base_year /\ p.organisation = q.organisation => p = q
    /\ \A i \in inventory : i.version # 1 =>
         \E j \in inventory : j.period = i.period /\ j.version = i.version - 1
    /\ \A j \in inventory : j.original # None =>
         \E i \in inventory : /\ i.id = j.original /\ i.period = j.period
                              /\ j.version = i.version + 1
    /\ \A i, j \in inventory :
         i.period = j.period /\ i.version = j.version /\ i.id < j.id =>
           j.original # None \/ j.id \in overlapped

(* What a request in flight has loaded, and what of it stays true.          *)
SetupHolds(q) ==
    /\ q.op \in {"period", "inventory"}
    /\ q.op = "period" =>
         /\ q.payload.organisation \in Organisations
         /\ q.payload.start \in Days /\ q.payload.end \in Days
         /\ q.payload.base_year \in BOOLEAN
         /\ q.payload.comparative \in {None} \union (1 .. MaxPeriods)
    /\ q.op = "inventory" =>
         /\ q.period \in 1 .. MaxPeriods
         /\ q.version \in Nat \ {0} /\ q.version <= Cardinality(inventory) + 1
         /\ q.version # 1 =>
              \E j \in inventory : j.period = q.period /\ j.version = q.version - 1
         /\ \A i \in q.others : i.version < q.version

SetupRequests ==
    /\ DOMAIN request = Sessions
    /\ \A s \in Sessions : request[s] # None => SetupHolds(request[s])

SetupInv == Setup!TypeOK /\ SetupTables /\ SetupRequests

(* Inventories are added, never taken back.                                 *)
SetupGrows ==
    /\ inventory \subseteq inventory'
    /\ Cardinality(inventory) \in Nat /\ Cardinality(inventory') \in Nat
    /\ Cardinality(inventory) <= Cardinality(inventory')

LEMMA SetupInit == Setup!Init => SetupInv
<1> SUFFICES ASSUME Setup!Init PROVE SetupInv
    OBVIOUS
<1> USE DEF Setup!Init, Setup!InitRequests
<1>1. Setup!TypeOK
    BY DEF Setup!TypeOK
<1>2. SetupTables
    BY FS_EmptySet DEF SetupTables
<1>3. SetupRequests
    BY DEF SetupRequests
<1> QED
    BY <1>1, <1>2, <1>3 DEF SetupInv

LEMMA SetupRequestsKept ==
    ASSUME SetupRequests, SetupGrows, NEW s \in Sessions, NEW r,
           request' = [request EXCEPT ![s] = r], r = None \/ SetupHolds(r)
    PROVE  SetupRequests'
<1>1. \A q : SetupHolds(q) => SetupHolds(q)'
    BY DEF SetupHolds, SetupGrows
<1>2. DOMAIN request' = Sessions /\ request'[s] = r
      /\ \A t \in Sessions \ {s} : request'[t] = request[t]
    BY RequestChanges DEF SetupRequests
<1>3. ASSUME NEW t \in Sessions, request'[t] # None PROVE SetupHolds(request[t])'
    <2>1. PICK q : q = request'[t]
        OBVIOUS
    <2>2. SetupHolds(q)
        BY <1>2, <1>3, <2>1 DEF SetupRequests
    <2>3. SetupHolds(q)'
        BY <1>1, <2>2
    <2> QED
        BY <2>1, <2>3 DEF SetupHolds
<1> QED
    BY <1>2, <1>3 DEF SetupRequests

LEMMA SetupReadKeeps ==
    ASSUME SetupInv, UNCHANGED periodVars, NEW s \in Sessions, NEW r,
           request' = [request EXCEPT ![s] = r], r = None \/ SetupHolds(r)
    PROVE  SetupInv'
<1>1. SetupGrows
    BY FS_CardinalityType DEF SetupGrows, SetupInv, SetupTables, periodVars
<1>2. SetupRequests'
    BY <1>1, SetupRequestsKept DEF SetupInv
<1>3. Setup!TypeOK'
    BY DEF SetupInv, periodVars, Setup!TypeOK
<1>4. SetupTables'
    BY DEF SetupInv, periodVars, SetupTables
<1> QED
    BY <1>2, <1>3, <1>4 DEF SetupInv

LEMMA SetupSame == SetupInv /\ UNCHANGED <<requests, periodVars>> => SetupInv'
<1> SUFFICES ASSUME SetupInv, UNCHANGED <<requests, periodVars>> PROVE SetupInv'
    OBVIOUS
<1>1. SetupRequests'
    <2>1. ASSUME NEW t \in Sessions, request[t] # None PROVE SetupHolds(request[t])'
        BY <2>1 DEF SetupInv, SetupRequests, SetupHolds, requests, periodVars
    <2> QED
        BY <2>1 DEF SetupInv, SetupRequests, requests
<1>3. Setup!TypeOK'
    BY DEF SetupInv, periodVars, Setup!TypeOK
<1>4. SetupTables'
    BY DEF SetupInv, periodVars, SetupTables
<1> QED
    BY <1>1, <1>3, <1>4 DEF SetupInv

(* Versions without gaps are 1 .. n.                                        *)
LEMMA WithoutGaps ==
    ASSUME NEW V \in SUBSET (Nat \ {0}), NEW b \in Nat, \A n \in V : n <= b,
           \A n \in V : n # 1 => n - 1 \in V
    PROVE  V = 1 .. Cardinality(V)
<1>1. CASE V = {}
    BY <1>1, FS_EmptySet
<1>2. CASE V # {}
    <2>1. PICK m \in V : \A n \in V : n <= m
        BY <1>2, GreatestNatural
    <2> DEFINE S == {k \in Nat : k < m => m - k \in V}
    <2>2. 0 \in S
        BY <2>1
    <2>3. ASSUME NEW k \in Nat, k \in S PROVE k + 1 \in S
        <3>1. SUFFICES ASSUME k + 1 < m PROVE m - (k + 1) \in V
            BY <2>3
        <3>2. m - k \in V /\ m - k # 1
            BY <2>1, <2>3, <3>1
        <3>3. m - k - 1 \in V
            BY <3>2
        <3> QED
            BY <2>1, <3>3
    <2> HIDE DEF S
    <2>4. Nat \subseteq S
        BY <2>2, <2>3, NaturalInduction
    <2>5. ASSUME NEW n \in 1 .. m PROVE n \in V
        <3>1. m - n \in S /\ m - n < m
            BY <2>1, <2>4
        <3>2. m - (m - n) \in V
            BY <3>1 DEF S
        <3> QED
            BY <2>1, <3>2
    <2>6. V = 1 .. m
        <3>1. m \in Nat /\ \A n \in V : n \in Nat /\ 1 <= n /\ n <= m
            BY <2>1
        <3>2. \A n \in V : n \in 1 .. m
            BY <3>1
        <3> QED
            BY <2>5, <3>2
    <2>7. Cardinality(1 .. m) = m
        <3>1. 1 \in Int /\ m \in Int /\ 1 <= m
            BY <2>1
        <3>2. Cardinality(1 .. m) = m - 1 + 1
            BY <3>1, FS_Interval
        <3> QED
            BY <2>1, <3>2
    <2> QED
        BY <2>6, <2>7
<1> QED
    BY <1>1, <1>2

LEMMA SetupKeepsConsistent ==
    ASSUME SetupInv
    PROVE  Setup!SetupConsistent
<1>1. ASSUME NEW o PROVE Setup!Cardinality(Setup!BaseYears(o)) <= 1
    <2>1. \A p, q \in Setup!BaseYears(o) : p = q
        BY DEF SetupInv, SetupTables, Setup!BaseYears
    <2>2. Cardinality(Setup!BaseYears(o)) <= 1
        <3>1. CASE Setup!BaseYears(o) = {}
            BY <3>1, FS_EmptySet
        <3>2. CASE Setup!BaseYears(o) # {}
            <4>1. PICK p : Setup!BaseYears(o) = {p}
                BY <2>1, <3>2
            <4>2. Cardinality({p}) = 1
                BY FS_Singleton
            <4> QED
                BY <4>1, <4>2
        <3> QED
            BY <3>1, <3>2
    <2> QED
        BY <2>2 DEF Setup!Cardinality, Cardinality
<1>2. ASSUME NEW p \in period, NEW V, V = {i.version : i \in Setup!InventoriesOf(p.id)}
      PROVE  V = 1 .. Setup!Cardinality(V)
    <2>1. V \in SUBSET (Nat \ {0}) /\ \A n \in V : n <= MaxInventories
        BY <1>2, SetupAssumption DEF SetupInv, Setup!TypeOK, Setup!InventoriesOf, SetupAssumption
    <2>2. ASSUME NEW n \in V, n # 1 PROVE n - 1 \in V
        <3>1. PICK i \in inventory : i.period = p.id /\ i.version = n
            BY <1>2 DEF Setup!InventoriesOf
        <3>2. PICK j \in inventory : j.period = p.id /\ j.version = n - 1
            BY <2>2, <3>1 DEF SetupInv, SetupTables
        <3> QED
            BY <1>2, <3>2 DEF Setup!InventoriesOf
    <2>3. V = 1 .. Cardinality(V)
        BY <2>1, <2>2, SetupAssumption, WithoutGaps DEF SetupAssumption
    <2> QED
        BY <2>3 DEF Setup!Cardinality, Cardinality
<1>3. \A j \in inventory : j.original # None =>
        \E i \in Setup!InventoriesOf(j.period) : i.id = j.original /\ j.version = i.version + 1
    BY DEF SetupInv, SetupTables, Setup!InventoriesOf
<1>4. \A i, j \in inventory :
        i.period = j.period /\ i.version = j.version /\ i.id < j.id =>
          j.original # None \/ j.id \in overlapped
    BY DEF SetupInv, SetupTables
<1> QED
    BY <1>1, <1>2, <1>3, <1>4 DEF Setup!SetupConsistent

LEMMA NextInventoryVersion ==
    ASSUME SetupInv, NEW p, NEW v, v = Setup!NextVersion(p)
    PROVE  /\ v \in Nat \ {0} /\ v <= Cardinality(inventory) + 1
           /\ v # 1 => \E j \in inventory : j.period = p /\ j.version = v - 1
           /\ \A i \in Setup!InventoriesOf(p) : i.version < v
<1> DEFINE versions == {0} \union {i.version : i \in Setup!InventoriesOf(p)}
<1>1. \A i \in Setup!InventoriesOf(p) : /\ i \in inventory /\ i.period = p
                                       /\ i.version \in 1 .. MaxInventories
                                       /\ i.id \in 1 .. MaxInventories
    BY DEF SetupInv, Setup!TypeOK, Setup!InventoriesOf
<1>2. Cardinality(inventory) \in Nat
    BY FS_CardinalityType DEF SetupInv, SetupTables
<1>3. \A i \in Setup!InventoriesOf(p) : i.version <= Cardinality(inventory)
    <2> TAKE i \in Setup!InventoriesOf(p)
    <2>1. i.version <= i.id /\ i.id <= Cardinality(inventory)
        BY <1>1 DEF SetupInv, SetupTables
    <2> QED
        BY <1>1, <1>2, <2>1, SetupAssumption DEF SetupAssumption
<1>4. versions \in SUBSET Nat /\ versions # {} /\ \A m \in versions : m <= Cardinality(inventory)
    BY <1>1, <1>2, <1>3
<1>5. PICK m \in versions : \A k \in versions : k <= m
    BY <1>2, <1>4, GreatestNatural
<1> HIDE DEF versions
<1>6. Setup!Max(versions) = m
    <2>1. \A k \in versions : (\A j \in versions : k >= j) <=> k = m
        BY <1>4, <1>5
    <2> QED
        BY <1>5, <2>1 DEF Setup!Max
<1>7. v = 1 + m /\ m \in Nat /\ m <= Cardinality(inventory)
    BY <1>4, <1>6 DEF Setup!NextVersion, versions
<1>8. m # 0 => \E j \in inventory : j.period = p /\ j.version = m
    BY <1>1 DEF versions
<1>9. \A i \in Setup!InventoriesOf(p) : i.version <= m /\ i.version \in Nat
    BY <1>1, <1>5 DEF versions
<1> QED
    BY <1>2, <1>7, <1>8, <1>9

LEMMA SetupReads ==
    ASSUME SetupInv, NEW s \in Sessions,
           \/ \E p \in Setup!Payload : Setup!LoadPeriod(s, p)
           \/ \E p \in period : Setup!LoadInventory(s, p.id)
           \/ Setup!Abandon(s)
    PROVE  SetupInv'
<1> USE DEF Setup!Receive, Setup!rows, periodVars
<1>1. ASSUME NEW p \in Setup!Payload, Setup!LoadPeriod(s, p) PROVE SetupInv'
    <2>1. PICK r : r = [op |-> "period", payload |-> p] /\ request' = [request EXCEPT ![s] = r]
        BY <1>1 DEF Setup!LoadPeriod
    <2>2. /\ p.organisation \in Organisations /\ p.start \in Days /\ p.end \in Days
          /\ p.base_year \in BOOLEAN /\ p.comparative \in {None} \union {q.id : q \in period}
        BY DEF Setup!Payload
    <2>3. p.comparative \in {None} \union (1 .. MaxPeriods)
        BY <2>2 DEF SetupInv, Setup!TypeOK
    <2>4. SetupHolds(r)
        BY <2>1, <2>2, <2>3 DEF SetupHolds
    <2> QED
        BY <1>1, <2>1, <2>4, SetupReadKeeps DEF Setup!LoadPeriod
<1>2. ASSUME NEW p \in period, Setup!LoadInventory(s, p.id) PROVE SetupInv'
    <2>1. PICK id, v, others : /\ id = p.id /\ v = Setup!NextVersion(id)
                               /\ others = Setup!InventoriesOf(id)
        OBVIOUS
    <2>2. PICK r : /\ r = [op |-> "inventory", period |-> id, version |-> v, others |-> others]
                   /\ request' = [request EXCEPT ![s] = r]
        BY <1>2, <2>1 DEF Setup!LoadInventory
    <2>3. id \in 1 .. MaxPeriods
        BY <2>1 DEF SetupInv, Setup!TypeOK
    <2>4. /\ v \in Nat \ {0} /\ v <= Cardinality(inventory) + 1
          /\ v # 1 => \E j \in inventory : j.period = id /\ j.version = v - 1
          /\ \A i \in others : i.version < v
        BY <2>1, NextInventoryVersion
    <2>5. SetupHolds(r)
        BY <2>2, <2>3, <2>4 DEF SetupHolds
    <2> QED
        BY <1>2, <2>2, <2>5, SetupReadKeeps DEF Setup!LoadInventory
<1>3. ASSUME Setup!Abandon(s) PROVE SetupInv'
    BY <1>3, SetupReadKeeps DEF Setup!Abandon, Setup!Fail, Setup!Done
<1> QED
    BY <1>1, <1>2, <1>3

LEMMA PeriodCommits ==
    ASSUME SetupInv, NEW s \in Sessions, Setup!CommitPeriod(s)
    PROVE  SetupInv'
<1>1. PICK q, p : q = request[s] /\ p = q.payload
    OBVIOUS
<1>2. SetupHolds(q) /\ q.op = "period"
    BY <1>1 DEF SetupInv, SetupRequests, Setup!CommitPeriod, Setup!Serving
<1>3. /\ p.organisation \in Organisations /\ p.start \in Days /\ p.end \in Days
      /\ p.base_year \in BOOLEAN /\ p.comparative \in {None} \union (1 .. MaxPeriods)
    BY <1>1, <1>2 DEF SetupHolds
<1>4. PICK x : x = [id |-> Cardinality(period) + 1, organisation |-> p.organisation,
                    start |-> p.start, end |-> p.end, base_year |-> p.base_year,
                    comparative |-> p.comparative]
    OBVIOUS
<1>5. /\ Cardinality(period) < MaxPeriods
      /\ p.base_year => Setup!BaseYears(p.organisation) = {}
      /\ period' = period \union {x}
      /\ request' = [request EXCEPT ![s] = None]
      /\ UNCHANGED <<inventory, overlapped>>
    <2>1. Setup!Cardinality(period) = Cardinality(period)
        BY DEF Setup!Cardinality, Cardinality
    <2> HIDE DEF Cardinality
    <2> QED
        BY <1>1, <1>4, <2>1 DEF Setup!CommitPeriod, Setup!BaseYearFree, Setup!Done
<1>6. Cardinality(period) \in Nat
    BY FS_CardinalityType DEF SetupInv, SetupTables
<1>7. Setup!TypeOK'
    <2>1. x.id \in 1 .. MaxPeriods
        BY <1>4, <1>5, <1>6, SetupAssumption DEF SetupAssumption
    <2>2. x \in [id : 1 .. MaxPeriods, organisation : Organisations, start : Days,
                 end : Days, base_year : BOOLEAN,
                 comparative : {None} \union (1 .. MaxPeriods)]
        BY <1>3, <1>4, <2>1
    <2> QED
        BY <1>5, <2>2 DEF SetupInv, Setup!TypeOK
<1>8. SetupTables'
    <2>1. \A y \in period : y.id \in Int /\ y.id <= Cardinality(period)
        BY DEF SetupInv, SetupTables, Setup!TypeOK
    <2>2. x \notin period
        BY <1>4, <1>6, <2>1
    <2>3. IsFiniteSet(period') /\ Cardinality(period') = Cardinality(period) + 1
        BY <1>5, <2>2, FS_AddElement DEF SetupInv, SetupTables
    <2>4. \A y \in period' : y.id <= Cardinality(period')
        BY <1>4, <1>5, <1>6, <2>1, <2>3
    <2>5. \A y, z \in period' :
            y.base_year /\ z.base_year /\ y.organisation = z.organisation => y = z
        BY <1>4, <1>5 DEF SetupInv, SetupTables, Setup!BaseYears
    <2> QED
        BY <1>5, <2>3, <2>4, <2>5 DEF SetupInv, SetupTables
<1>9. SetupRequests'
    <2>1. SetupGrows
        BY <1>5, FS_CardinalityType DEF SetupGrows, SetupInv, SetupTables
    <2> QED
        BY <1>5, <2>1, SetupRequestsKept DEF SetupInv
<1> QED
    BY <1>7, <1>8, <1>9 DEF SetupInv

(* What opening an inventory must see to, however it is opened.             *)
LEMMA InventoryAdded ==
    ASSUME SetupInv, NEW x, NEW p, NEW v, NEW o,
           x = [id |-> Cardinality(inventory) + 1, period |-> p, version |-> v, original |-> o],
           x.id <= MaxInventories, p \in 1 .. MaxPeriods, v \in Nat \ {0}, v <= x.id,
           o \in {None} \union (1 .. MaxInventories),
           v # 1 => \E i \in inventory : i.period = p /\ i.version = v - 1,
           o # None => \E i \in inventory : i.id = o /\ i.period = p /\ v = i.version + 1,
           inventory' = inventory \union {x}, period' = period,
           overlapped \subseteq overlapped',
           o # None \/ x.id \in overlapped'
             \/ \A i \in Setup!InventoriesOf(p) : i.version # v
    PROVE  SetupGrows /\ Setup!TypeOK' /\ SetupTables'
<1>1. PICK id : id = Cardinality(inventory) + 1
    OBVIOUS
<1>2. Cardinality(inventory) \in Nat /\ id \in Nat \ {0}
    BY <1>1, FS_CardinalityType DEF SetupInv, SetupTables
<1>3. x.id = id /\ x.period = p /\ x.version = v /\ x.original = o
    BY <1>1
<1>4. \A i \in inventory : /\ i.id \in Int /\ i.id <= Cardinality(inventory)
                           /\ i.version \in Int /\ i.version <= i.id
    BY DEF SetupInv, SetupTables, Setup!TypeOK
<1>5. Setup!TypeOK'
    <2>1. id \in 1 .. MaxInventories /\ v \in 1 .. MaxInventories
        BY <1>2, <1>3, SetupAssumption DEF SetupAssumption
    <2>2. x \in [id : 1 .. MaxInventories, period : 1 .. MaxPeriods,
                 version : 1 .. MaxInventories, original : {None} \union (1 .. MaxInventories)]
        BY <1>1, <2>1
    <2> QED
        BY <2>2 DEF SetupInv, Setup!TypeOK
<1>6. x \notin inventory
    BY <1>1, <1>2, <1>3, <1>4
<1>7. IsFiniteSet(inventory') /\ Cardinality(inventory') = id
    BY <1>1, <1>6, FS_AddElement DEF SetupInv, SetupTables
<1>8. SetupTables'
    <2>1. \A i \in inventory' : i.id <= Cardinality(inventory') /\ i.version <= i.id
        BY <1>1, <1>2, <1>3, <1>4, <1>7
    <2>2. \A i \in inventory' : i.version # 1 =>
            \E j \in inventory' : j.period = i.period /\ j.version = i.version - 1
        BY <1>3 DEF SetupInv, SetupTables
    <2>3. \A j \in inventory' : j.original # None =>
            \E i \in inventory' : /\ i.id = j.original /\ i.period = j.period
                                  /\ j.version = i.version + 1
        BY <1>3 DEF SetupInv, SetupTables
    <2>4. ASSUME NEW i \in inventory', NEW j \in inventory', i.period = j.period,
                 i.version = j.version, i.id < j.id
          PROVE  j.original # None \/ j.id \in overlapped'
        <3>1. CASE i \in inventory /\ j \in inventory
            BY <2>4, <3>1 DEF SetupInv, SetupTables
        <3>2. CASE i = x
            BY <1>1, <1>2, <1>3, <1>4, <2>4, <3>2
        <3>3. CASE i \in inventory /\ j = x
            <4>1. i \in Setup!InventoriesOf(p) /\ i.version = v
                BY <1>3, <2>4, <3>3 DEF Setup!InventoriesOf
            <4> QED
                BY <1>3, <3>3, <4>1
        <3> QED
            BY <3>1, <3>2, <3>3
    <2> QED
        BY <1>7, <2>1, <2>2, <2>3, <2>4 DEF SetupInv, SetupTables
<1>9. SetupGrows
    BY <1>1, <1>2, <1>7 DEF SetupGrows
<1> QED
    BY <1>5, <1>8, <1>9

LEMMA InventoryCommits ==
    ASSUME SetupInv, NEW s \in Sessions, Setup!CommitInventory(s)
    PROVE  SetupInv'
<1>1. PICK q : q = request[s]
    OBVIOUS
<1>2. SetupHolds(q) /\ q.op = "inventory"
    BY <1>1 DEF SetupInv, SetupRequests, Setup!CommitInventory, Setup!Serving
<1>3. PICK id, p, v, others : /\ id = Cardinality(inventory) + 1 /\ p = q.period
                              /\ v = q.version /\ others = q.others
    OBVIOUS
<1>4. /\ p \in 1 .. MaxPeriods /\ v \in Nat \ {0} /\ v <= id
      /\ v # 1 => \E j \in inventory : j.period = p /\ j.version = v - 1
      /\ \A i \in others : i.version < v
    BY <1>2, <1>3 DEF SetupHolds
<1>5. PICK x : x = [id |-> id, period |-> p, version |-> v, original |-> None]
    OBVIOUS
<1>6. /\ id <= MaxInventories
      /\ inventory' = inventory \union {x}
      /\ overlapped' = IF Setup!InventoriesOf(p) = others THEN overlapped
                       ELSE overlapped \union {id}
      /\ request' = [request EXCEPT ![s] = None]
      /\ UNCHANGED period
    <2>1. Setup!Cardinality(inventory) = Cardinality(inventory)
        BY DEF Setup!Cardinality, Cardinality
    <2> QED
        BY <1>1, <1>3, <1>5, <2>1 DEF Setup!CommitInventory, Setup!Done
<1>7. id \in overlapped' \/ \A i \in Setup!InventoriesOf(p) : i.version # v
    <2>1. \A i \in Setup!InventoriesOf(p) : i.version \in Int
        BY DEF SetupInv, Setup!TypeOK, Setup!InventoriesOf
    <2> QED
        BY <1>4, <1>6, <2>1
<1>8. SetupGrows /\ Setup!TypeOK' /\ SetupTables'
    <2>1. overlapped \subseteq overlapped' /\ x.id = id
        BY <1>5, <1>6
    <2>2. /\ x = [id |-> Cardinality(inventory) + 1, period |-> p, version |-> v,
                  original |-> None]
          /\ x.id <= MaxInventories /\ v <= x.id
          /\ x.id \in overlapped' \/ \A i \in Setup!InventoriesOf(p) : i.version # v
        BY <1>3, <1>4, <1>5, <1>6, <1>7, <2>1
    <2> QED
        BY <1>4, <1>6, <2>1, <2>2, InventoryAdded
<1>9. SetupRequests'
    BY <1>6, <1>8, SetupRequestsKept DEF SetupInv
<1> QED
    BY <1>8, <1>9 DEF SetupInv

LEMMA RestatementReplaces ==
    ASSUME SetupInv, NEW i \in inventory, Setup!Restate(i)
    PROVE  SetupInv'
<1>1. PICK x, p, v, o : /\ x = [id |-> Cardinality(inventory) + 1, period |-> p,
                                version |-> v, original |-> o]
                        /\ p = i.period /\ v = i.version + 1 /\ o = i.id
    OBVIOUS
<1>2. /\ Cardinality(inventory) + 1 <= MaxInventories
      /\ inventory' = inventory \union {x}
      /\ UNCHANGED <<request, period, overlapped>>
    <2>1. Setup!Cardinality(inventory) = Cardinality(inventory)
        BY DEF Setup!Cardinality, Cardinality
    <2> QED
        BY <1>1, <2>1 DEF Setup!Restate, Setup!ServeAtOnce
<1>3. /\ i.id \in 1 .. MaxInventories /\ i.version \in 1 .. MaxInventories
      /\ i.period \in 1 .. MaxPeriods
    BY DEF SetupInv, Setup!TypeOK
<1>4. i.version <= i.id /\ i.id <= Cardinality(inventory) /\ Cardinality(inventory) \in Nat
    BY FS_CardinalityType DEF SetupInv, SetupTables
<1>5. /\ x.id <= MaxInventories /\ p \in 1 .. MaxPeriods /\ v \in Nat \ {0} /\ v <= x.id
      /\ o \in {None} \union (1 .. MaxInventories) /\ o # None
    <2>1. x.id = Cardinality(inventory) + 1
        BY <1>1
    <2>2. i.id \in Nat /\ i.version \in Nat
        BY <1>3
    <2> QED
        BY <1>1, <1>2, <1>3, <1>4, <2>1, <2>2, SetupAssumption DEF SetupAssumption
<1>6. /\ \E j \in inventory : j.period = p /\ j.version = v - 1
      /\ \E j \in inventory : j.id = o /\ j.period = p /\ v = j.version + 1
    BY <1>1, <1>3
<1>7. SetupGrows /\ Setup!TypeOK' /\ SetupTables'
    BY <1>1, <1>2, <1>5, <1>6, InventoryAdded
<1>8. SetupRequests'
    <2>1. \A q : SetupHolds(q) => SetupHolds(q)'
        BY <1>7 DEF SetupHolds, SetupGrows
    <2>2. ASSUME NEW t \in Sessions, request[t] # None PROVE SetupHolds(request[t])'
        <3>1. PICK q : q = request[t]
            OBVIOUS
        <3>2. SetupHolds(q)'
            BY <2>1, <2>2, <3>1 DEF SetupInv, SetupRequests
        <3> QED
            BY <1>2, <3>1, <3>2 DEF SetupHolds
    <2> QED
        BY <1>2, <2>2 DEF SetupInv, SetupRequests
<1> QED
    BY <1>7, <1>8 DEF SetupInv

LEMMA SetupNext ==
    ASSUME SetupInv, Setup!Next
    PROVE  SetupInv'
<1>1. \/ \E s \in Sessions :
           \/ \E p \in Setup!Payload : Setup!LoadPeriod(s, p)
           \/ \E p \in period : Setup!LoadInventory(s, p.id)
           \/ Setup!CommitPeriod(s) \/ Setup!CommitInventory(s) \/ Setup!Abandon(s)
      \/ \E i \in inventory : Setup!Restate(i)
    BY DEF Setup!Next
<1> QED
    BY <1>1, SetupReads, PeriodCommits, InventoryCommits, RestatementReplaces

----------------------------------------------------------------------------
(* FactorResolution                                                         *)

ResolutionInv ==
    /\ stored \in Pools /\ Resolutions!TypeOK /\ Resolutions!BestSelected

(* A level scores as it ranks.                                              *)
LEMMA LevelOrder ==
    ASSUME NEW l \in Resolutions!Levels, NEW f, NEW g, NEW q
    PROVE  /\ Resolutions!LevelScore(l, f, q) \in Int /\ Resolutions!LevelScore(l, g, q) \in Int
           /\ Resolutions!Rank(l, f, q) \in Int /\ Resolutions!Rank(l, g, q) \in Int
           /\ Resolutions!Rank(l, f, q) >= Resolutions!Rank(l, g, q) =>
                Resolutions!LevelScore(l, f, q) >= Resolutions!LevelScore(l, g, q)
           /\ Resolutions!Rank(l, f, q) > Resolutions!Rank(l, g, q) =>
                Resolutions!LevelScore(l, f, q) > Resolutions!LevelScore(l, g, q)
<1>1. PICK x, p : x = Resolutions!Exact[l] /\ p = Resolutions!Partial[l]
    OBVIOUS
<1>2. x \in Int /\ p \in Int /\ x > p /\ p > -x
    BY <1>1 DEF Resolutions!Levels, Resolutions!Exact, Resolutions!Partial
<1>3. PICK rf, rg, sf, sg :
        /\ rf = Resolutions!Rank(l, f, q) /\ rg = Resolutions!Rank(l, g, q)
        /\ sf = Resolutions!LevelScore(l, f, q) /\ sg = Resolutions!LevelScore(l, g, q)
    OBVIOUS
<1>4. CASE q.text[l] = None
    <2>1. rf = 0 /\ rg = 0 /\ sf = 0 /\ sg = 0
        BY <1>3, <1>4 DEF Resolutions!Rank, Resolutions!LevelScore
    <2> QED
        BY <1>3, <2>1
<1>5. CASE q.text[l] # None
    <2>1. (rf = 2 /\ sf = x) \/ (rf = 1 /\ sf = p) \/ (rf = 0 /\ sf = -x)
        BY <1>1, <1>3, <1>5 DEF Resolutions!Rank, Resolutions!LevelScore
    <2>2. (rg = 2 /\ sg = x) \/ (rg = 1 /\ sg = p) \/ (rg = 0 /\ sg = -x)
        BY <1>1, <1>3, <1>5 DEF Resolutions!Rank, Resolutions!LevelScore
    <2>3. rf \in Int /\ rg \in Int /\ sf \in Int /\ sg \in Int
        BY <1>2, <2>1, <2>2
    <2>4. (rf >= rg => sf >= sg) /\ (rf > rg => sf > sg)
        BY <1>2, <2>1, <2>2
    <2> QED
        BY <1>3, <2>3, <2>4
<1> QED
    BY <1>4, <1>5

LEMMA YearOrder ==
    ASSUME NEW f, NEW g, NEW q, f.year \in Int, g.year \in Int, q.year \in Int,
           f.year <= q.year, g.year <= q.year, f.year >= g.year
    PROVE  /\ Resolutions!YearScore(f, q) \in Int /\ Resolutions!YearScore(g, q) \in Int
           /\ Resolutions!YearScore(f, q) >= Resolutions!YearScore(g, q)
           /\ f.year > g.year /\ q.year - f.year <= 5 =>
                Resolutions!YearScore(f, q) > Resolutions!YearScore(g, q)
<1>1. PICK yf, yg, y : yf = f.year /\ yg = g.year /\ y = q.year
    OBVIOUS
<1>2. /\ Resolutions!YearScore(f, q) =
           IF yf = y THEN 100 ELSE IF 70 - 10 * (y - yf) > 10 THEN 70 - 10 * (y - yf) ELSE 10
      /\ Resolutions!YearScore(g, q) =
           IF yg = y THEN 100 ELSE IF 70 - 10 * (y - yg) > 10 THEN 70 - 10 * (y - yg) ELSE 10
    BY <1>1 DEF Resolutions!YearScore
<1> QED
    BY <1>1, <1>2

(* What fits as well on every criterion scores as much, and what fits       *)
(* better scores more.                                                      *)
LEMMA ScoreOrder ==
    ASSUME NEW f, NEW g, NEW q, f.year \in Int, g.year \in Int, q.year \in Int,
           Resolutions!Eligible(f, q), Resolutions!Eligible(g, q),
           Resolutions!FitsAsWell(f, g, q)
    PROVE  /\ Resolutions!Score(f, q) \in Int /\ Resolutions!Score(g, q) \in Int
           /\ Resolutions!Score(f, q) >= Resolutions!Score(g, q)
           /\ ~Resolutions!FitsAsWell(g, f, q) /\ q.year - f.year <= 5 =>
                Resolutions!Score(f, q) > Resolutions!Score(g, q)
<1> DEFINE geography(h) == IF h.geography = q.geography THEN 80 ELSE 10
           unit(h) == IF h.unit = q.unit THEN 120 ELSE 100
<1>1. PICK yf, yg, gf, gg, uf, ug, cf, cg :
        /\ yf = Resolutions!YearScore(f, q) /\ yg = Resolutions!YearScore(g, q)
        /\ gf = geography(f) /\ gg = geography(g) /\ uf = unit(f) /\ ug = unit(g)
        /\ cf = Resolutions!LifecycleScore(f, q) /\ cg = Resolutions!LifecycleScore(g, q)
    OBVIOUS
<1>2. PICK af, ag, bf, bg, df, dg, ef, eg, hf, hg :
        /\ af = Resolutions!LevelScore("level_1", f, q)
        /\ ag = Resolutions!LevelScore("level_1", g, q)
        /\ bf = Resolutions!LevelScore("level_2", f, q)
        /\ bg = Resolutions!LevelScore("level_2", g, q)
        /\ df = Resolutions!LevelScore("level_3", f, q)
        /\ dg = Resolutions!LevelScore("level_3", g, q)
        /\ ef = Resolutions!LevelScore("level_4", f, q)
        /\ eg = Resolutions!LevelScore("level_4", g, q)
        /\ hf = Resolutions!LevelScore("column_text", f, q)
        /\ hg = Resolutions!LevelScore("column_text", g, q)
    OBVIOUS
<1>3. /\ Resolutions!Score(f, q) = 120 + yf + gf + uf + af + bf + df + ef + hf + cf
      /\ Resolutions!Score(g, q) = 120 + yg + gg + ug + ag + bg + dg + eg + hg + cg
    BY <1>1, <1>2 DEF Resolutions!Score
<1>4. /\ gf \in Int /\ gg \in Int /\ gf >= gg
      /\ ~(f.geography = q.geography => g.geography = q.geography) => gf > gg
    BY <1>1 DEF Resolutions!FitsAsWell
<1>5. /\ uf \in Int /\ ug \in Int /\ uf >= ug
      /\ ~(f.unit = q.unit => g.unit = q.unit) => uf > ug
    BY <1>1 DEF Resolutions!FitsAsWell
<1>6. /\ cf \in Int /\ cg \in Int /\ cf >= cg
      /\ ~(q.lifecycle # None /\ f.lifecycle = q.lifecycle => g.lifecycle = q.lifecycle)
           => cf > cg
    BY <1>1 DEF Resolutions!FitsAsWell, Resolutions!LifecycleScore
<1>7. /\ yf \in Int /\ yg \in Int /\ yf >= yg
      /\ ~(g.year >= f.year) /\ q.year - f.year <= 5 => yf > yg
    <2>1. f.year <= q.year /\ g.year <= q.year
        BY DEF Resolutions!Eligible
    <2>2. f.year >= g.year
        BY DEF Resolutions!FitsAsWell
    <2> QED
        BY <1>1, <2>1, <2>2, YearOrder
<1>8. \A l \in Resolutions!Levels : Resolutions!Rank(l, f, q) >= Resolutions!Rank(l, g, q)
    BY DEF Resolutions!FitsAsWell
<1>9. \A l \in Resolutions!Levels :
        /\ Resolutions!LevelScore(l, f, q) \in Int /\ Resolutions!LevelScore(l, g, q) \in Int
        /\ Resolutions!LevelScore(l, f, q) >= Resolutions!LevelScore(l, g, q)
        /\ ~(Resolutions!Rank(l, g, q) >= Resolutions!Rank(l, f, q)) =>
             Resolutions!LevelScore(l, f, q) > Resolutions!LevelScore(l, g, q)
    BY <1>8, LevelOrder
<1>10. /\ af \in Int /\ ag \in Int /\ af >= ag /\ bf \in Int /\ bg \in Int /\ bf >= bg
       /\ df \in Int /\ dg \in Int /\ df >= dg /\ ef \in Int /\ eg \in Int /\ ef >= eg
       /\ hf \in Int /\ hg \in Int /\ hf >= hg
    BY <1>2, <1>9 DEF Resolutions!Levels
<1>11. ASSUME ~Resolutions!FitsAsWell(g, f, q), q.year - f.year <= 5
       PROVE  yf > yg \/ gf > gg \/ uf > ug \/ cf > cg
              \/ af > ag \/ bf > bg \/ df > dg \/ ef > eg \/ hf > hg
    <2>1. CASE \E l \in Resolutions!Levels :
                 ~(Resolutions!Rank(l, g, q) >= Resolutions!Rank(l, f, q))
        BY <1>2, <1>9, <2>1 DEF Resolutions!Levels
    <2>2. CASE \/ ~(g.year >= f.year)
               \/ ~(f.geography = q.geography => g.geography = q.geography)
               \/ ~(f.unit = q.unit => g.unit = q.unit)
               \/ ~(q.lifecycle # None /\ f.lifecycle = q.lifecycle
                      => g.lifecycle = q.lifecycle)
        BY <1>4, <1>5, <1>6, <1>7, <1>11, <2>2
    <2> QED
        BY <1>11, <2>1, <2>2 DEF Resolutions!FitsAsWell
<1>12. /\ Resolutions!Score(f, q) \in Int /\ Resolutions!Score(g, q) \in Int
       /\ Resolutions!Score(f, q) >= Resolutions!Score(g, q)
    BY <1>3, <1>4, <1>5, <1>6, <1>7, <1>10
<1>13. ASSUME ~Resolutions!FitsAsWell(g, f, q), q.year - f.year <= 5
       PROVE  Resolutions!Score(f, q) > Resolutions!Score(g, q)
    <2>1. yf > yg \/ gf > gg \/ uf > ug \/ cf > cg
          \/ af > ag \/ bf > bg \/ df > dg \/ ef > eg \/ hf > hg
        BY <1>11, <1>13
    <2> QED
        BY <1>3, <1>4, <1>5, <1>6, <1>7, <1>10, <2>1
<1> QED
    BY <1>12, <1>13

(* The factors that are looked at are stored ones.                          *)
LEMMA LoadedStored ==
    ASSUME NEW q \in Queries, NEW candidates \in SUBSET stored,
           NEW loaded \in Resolutions!Loaded(candidates)
    PROVE  loaded \subseteq stored
BY DEF Resolutions!Loaded, Resolutions!kSubset

LEMMA OneOfTwo ==
    ASSUME NEW S, IsFiniteSet(S), NEW f \in S, Cardinality(S) <= 1, NEW g \in S
    PROVE  f = g
<1>1. Cardinality({f}) = 1
    BY FS_Singleton
<1>2. /\ Cardinality({f}) <= Cardinality(S) /\ Cardinality(S) \in Nat
      /\ Cardinality(S) = Cardinality({f}) => S = {f}
    BY FS_Subset, FS_CardinalityType
<1>3. S = {f}
    BY <1>1, <1>2
<1> QED
    BY <1>3

LEMMA ScoreRange ==
    ASSUME NEW f, NEW q, f.year \in Int, q.year \in Int, Resolutions!Eligible(f, q)
    PROVE  /\ Resolutions!Score(f, q) \in Int
           /\ -1000 <= Resolutions!Score(f, q) /\ Resolutions!Score(f, q) <= 1000
<1>1. PICK y, geography, unit, lifecycle :
        /\ y = Resolutions!YearScore(f, q)
        /\ geography = IF f.geography = q.geography THEN 80 ELSE 10
        /\ unit = IF f.unit = q.unit THEN 120 ELSE 100
        /\ lifecycle = Resolutions!LifecycleScore(f, q)
    OBVIOUS
<1>2. y \in 10 .. 100
    <2>1. PICK yf, yq : yf = f.year /\ yq = q.year
        OBVIOUS
    <2>2. yf = yq \/ yf < yq
        BY <2>1 DEF Resolutions!Eligible
    <2>3. y = IF yf = yq THEN 100 ELSE IF 70 - 10 * (yq - yf) > 10 THEN 70 - 10 * (yq - yf) ELSE 10
        BY <1>1, <2>1 DEF Resolutions!YearScore
    <2> QED
        BY <2>1, <2>2, <2>3
<1>3. geography \in 10 .. 80 /\ unit \in 100 .. 120 /\ lifecycle \in -60 .. 60
    BY <1>1 DEF Resolutions!LifecycleScore
<1>4. ASSUME NEW l \in Resolutions!Levels PROVE Resolutions!LevelScore(l, f, q) \in -80 .. 80
    <2>1. PICK x, p : x = Resolutions!Exact[l] /\ p = Resolutions!Partial[l]
        OBVIOUS
    <2>2. x \in 0 .. 80 /\ p \in 0 .. 80
        BY <2>1 DEF Resolutions!Levels, Resolutions!Exact, Resolutions!Partial
    <2>3. Resolutions!LevelScore(l, f, q) \in {0, x, p, -x}
        BY <2>1 DEF Resolutions!LevelScore
    <2> QED
        BY <2>2, <2>3
<1>5. PICK a, b, c, d, e :
        /\ a = Resolutions!LevelScore("level_1", f, q)
        /\ b = Resolutions!LevelScore("level_2", f, q)
        /\ c = Resolutions!LevelScore("level_3", f, q)
        /\ d = Resolutions!LevelScore("level_4", f, q)
        /\ e = Resolutions!LevelScore("column_text", f, q)
    OBVIOUS
<1>6. /\ a \in -80 .. 80 /\ b \in -80 .. 80 /\ c \in -80 .. 80 /\ d \in -80 .. 80
      /\ e \in -80 .. 80
    BY <1>4, <1>5 DEF Resolutions!Levels
<1>7. Resolutions!Score(f, q) = 120 + y + geography + unit + a + b + c + d + e + lifecycle
    BY <1>1, <1>5 DEF Resolutions!Score
<1> QED
    BY <1>2, <1>3, <1>6, <1>7

(* Scores are bounded: one of the factors that fit has the greatest.        *)
LEMMA GreatestScore ==
    ASSUME NEW fit, NEW q, q.year \in Int, fit # {},
           \A f \in fit : f.year \in Int /\ Resolutions!Eligible(f, q)
    PROVE  \E f \in fit : \A g \in fit : Resolutions!Score(g, q) <= Resolutions!Score(f, q)
<1> DEFINE S == {Resolutions!Score(f, q) + 1000 : f \in fit}
<1>1. ASSUME NEW f \in fit
      PROVE  /\ Resolutions!Score(f, q) \in Int
             /\ -1000 <= Resolutions!Score(f, q) /\ Resolutions!Score(f, q) <= 1000
    <2>1. f.year \in Int /\ Resolutions!Eligible(f, q)
        OBVIOUS
    <2> QED
        BY <2>1, ScoreRange
<1>2. S \in SUBSET Nat /\ S # {} /\ \A n \in S : n <= 2000
    <2>1. \A f \in fit : Resolutions!Score(f, q) + 1000 \in Nat
                         /\ Resolutions!Score(f, q) + 1000 <= 2000
        BY <1>1
    <2> QED
        BY <2>1
<1>3. PICK m \in S : \A n \in S : n <= m
    <2>1. PICK b \in Nat : b = 2000
        OBVIOUS
    <2>2. S \in SUBSET Nat /\ S # {} /\ \A n \in S : n <= b
        BY <1>2, <2>1
    <2> HIDE DEF S
    <2> QED
        BY <2>2, GreatestNatural
<1>4. PICK f \in fit : m = Resolutions!Score(f, q) + 1000
    OBVIOUS
<1>5. \A g \in fit : Resolutions!Score(g, q) <= Resolutions!Score(f, q)
    BY <1>1, <1>3, <1>4
<1> QED
    BY <1>5

LEMMA BestIsSelected ==
    ASSUME NEW q \in Queries, NEW loaded, IsFiniteSet(loaded),
           \A f \in loaded : f.year \in Int /\ f # None,
           NEW answer, answer = Resolutions!Resolution(loaded, q),
           NEW fit, fit = {f \in loaded : Resolutions!Eligible(f, q)}
    PROVE  /\ answer.outcome \in {"resolved", "ambiguous", "no_match"}
           /\ answer.selected \in loaded \union {None}
           /\ answer.selected # None =>
                answer.selected \in fit
                /\ \A g \in fit : ~Resolutions!Better(g, answer.selected, q)
           /\ \A f \in fit :
                (\A g \in fit \ {f} : Resolutions!Better(f, g, q)) /\ q.year - f.year <= 5
                  => answer.selected = f
<1>1. /\ q.year \in Int
      /\ \A f \in fit : /\ f.year \in Int /\ f \in loaded /\ f # None
                         /\ Resolutions!Eligible(f, q)
    BY FactorAssumption DEF FactorAssumption
<1>2. \A f, g \in fit : Resolutions!FitsAsWell(f, g, q) =>
        /\ Resolutions!Score(f, q) \in Int /\ Resolutions!Score(g, q) \in Int
        /\ Resolutions!Score(f, q) >= Resolutions!Score(g, q)
        /\ ~Resolutions!FitsAsWell(g, f, q) /\ q.year - f.year <= 5 =>
             Resolutions!Score(f, q) > Resolutions!Score(g, q)
    BY <1>1, ScoreOrder
<1>3. PICK top : top = {f \in fit : \A g \in fit : Resolutions!Score(g, q) <= Resolutions!Score(f, q)}
    OBVIOUS
<1>4. top \subseteq fit /\ IsFiniteSet(top)
    BY <1>3, FS_Subset
<1>5. Resolutions!Cardinality(top) = Cardinality(top)
    BY DEF Resolutions!Cardinality, Cardinality
<1>6. answer = IF fit = {} THEN [outcome |-> "no_match", selected |-> None, strength |-> None]
               ELSE IF Resolutions!Cardinality(top) > 1
               THEN [outcome |-> "ambiguous", selected |-> None, strength |-> None]
               ELSE [outcome |-> "resolved", selected |-> CHOOSE x \in top : TRUE,
                     strength |-> Resolutions!Strength(CHOOSE x \in top : TRUE, q)]
    BY <1>3 DEF Resolutions!Resolution
<1>7. CASE fit = {}
    BY <1>6, <1>7
<1>8. CASE fit # {} /\ Cardinality(top) > 1
    <2>1. answer.outcome = "ambiguous" /\ answer.selected = None
        BY <1>5, <1>6, <1>8
    <2>2. ASSUME NEW f \in fit, \A g \in fit \ {f} : Resolutions!Better(f, g, q),
                 q.year - f.year <= 5
          PROVE  FALSE
        <3>1. \A g \in fit \ {f} : Resolutions!Score(f, q) > Resolutions!Score(g, q)
                                   /\ Resolutions!Score(f, q) \in Int
                                   /\ Resolutions!Score(g, q) \in Int
            BY <1>2, <2>2 DEF Resolutions!Better
        <3>2. top \subseteq {f}
            BY <1>3, <3>1
        <3>3. IsFiniteSet({f}) /\ Cardinality({f}) = 1
            BY FS_Singleton
        <3>4. Cardinality(top) <= Cardinality({f})
            BY <3>2, <3>3, FS_Subset
        <3> QED
            BY <1>8, <3>3, <3>4, <1>4, FS_CardinalityType
    <2> QED
        BY <2>1, <2>2
<1>9. CASE fit # {} /\ ~(Cardinality(top) > 1)
    <2>1. answer.outcome = "resolved" /\ answer.selected = CHOOSE x \in top : TRUE
        BY <1>5, <1>6, <1>9
    <2>2. Cardinality(top) <= 1
        BY <1>4, <1>9, FS_CardinalityType
    <2>3. \A f, g \in top : f = g
        BY <1>4, <2>2, OneOfTwo
    <2>4. PICK f \in fit : \A g \in fit : Resolutions!Score(g, q) <= Resolutions!Score(f, q)
        BY <1>1, <1>9, GreatestScore
    <2>5. top = {f} /\ answer.selected = f
        BY <1>3, <2>1, <2>3, <2>4
    <2>6. ASSUME NEW g \in fit, Resolutions!Better(g, f, q) PROVE FALSE
        <3>1. /\ Resolutions!Score(g, q) >= Resolutions!Score(f, q)
              /\ Resolutions!Score(g, q) \in Int /\ Resolutions!Score(f, q) \in Int
            BY <1>2, <2>6 DEF Resolutions!Better
        <3>2. ASSUME NEW h \in fit PROVE Resolutions!Score(h, q) \in Int
            <4>1. h.year \in Int /\ Resolutions!Eligible(h, q)
                BY <1>1
            <4> QED
                BY <1>1, <4>1, ScoreRange
        <3>3. \A h \in fit : Resolutions!Score(h, q) <= Resolutions!Score(g, q)
            BY <2>4, <3>1, <3>2
        <3>4. g = f
            BY <1>3, <2>5, <3>3
        <3> QED
            BY <2>6, <3>4 DEF Resolutions!Better
    <2>7. ASSUME NEW g \in fit, \A h \in fit \ {g} : Resolutions!Better(g, h, q),
                 q.year - g.year <= 5
          PROVE  g = f
        <3>1. SUFFICES ASSUME g # f PROVE FALSE
            OBVIOUS
        <3>2. /\ Resolutions!Score(g, q) > Resolutions!Score(f, q)
              /\ Resolutions!Score(g, q) \in Int /\ Resolutions!Score(f, q) \in Int
            BY <1>2, <2>7, <3>1 DEF Resolutions!Better
        <3>3. Resolutions!Score(g, q) <= Resolutions!Score(f, q)
            BY <2>4
        <3> QED
            BY <3>2, <3>3
    <2> QED
        BY <1>1, <2>1, <2>5, <2>6, <2>7
<1> QED
    BY <1>7, <1>8, <1>9

LEMMA ResolutionNext ==
    ASSUME ResolutionInv, Resolutions!Next
    PROVE  ResolutionInv'
<1>1. PICK q \in Queries, candidates \in SUBSET stored : Resolutions!Answer(candidates, q)
    BY DEF Resolutions!Next, Resolutions!Resolve, Resolutions!Compare, Resolutions!Calculate,
           Resolutions!Candidates, Resolutions!ComparatorCandidates,
           Resolutions!CalculationCandidates
<1>2. PICK loaded \in Resolutions!Loaded(candidates) :
        resolution' = [query |-> q, loaded |-> loaded,
                       answer |-> Resolutions!Resolution(loaded, q)]
    BY <1>1 DEF Resolutions!Answer
<1>3. stored' = stored /\ stored \in Pools
    BY <1>1 DEF Resolutions!Answer, ResolutionInv
<1>4. IsFiniteSet(loaded) /\ \A f \in loaded : f.year \in Int /\ f # None
    <2>1. loaded \subseteq stored
        BY LoadedStored
    <2> QED
        BY <1>3, <2>1, FactorAssumption, FS_Subset DEF FactorAssumption
<1>5. PICK answer, fit : /\ answer = Resolutions!Resolution(loaded, q)
                         /\ fit = {f \in loaded : Resolutions!Eligible(f, q)}
    OBVIOUS
<1>6. /\ answer.outcome \in {"resolved", "ambiguous", "no_match"}
      /\ answer.selected \in loaded \union {None}
      /\ answer.selected # None =>
           answer.selected \in fit
           /\ \A g \in fit : ~Resolutions!Better(g, answer.selected, q)
      /\ \A f \in fit :
           (\A g \in fit \ {f} : Resolutions!Better(f, g, q)) /\ q.year - f.year <= 5
             => answer.selected = f
    BY <1>4, <1>5, BestIsSelected
<1>7. resolution'.query = q /\ resolution'.loaded = loaded /\ resolution'.answer = answer
    BY <1>2, <1>5
<1>8. Resolutions!TypeOK'
    BY <1>6, <1>7 DEF Resolutions!TypeOK
<1>9. Resolutions!BestSelected'
    BY <1>5, <1>6, <1>7 DEF Resolutions!BestSelected
<1> QED
    BY <1>3, <1>8, <1>9 DEF ResolutionInv

LEMMA ResolutionSame == ResolutionInv /\ UNCHANGED resolutionVars => ResolutionInv'
BY DEF ResolutionInv, resolutionVars, Resolutions!TypeOK, Resolutions!BestSelected

LEMMA ResolutionInit == Resolutions!Init => ResolutionInv
BY DEF Resolutions!Init, ResolutionInv, Resolutions!TypeOK, Resolutions!BestSelected
----------------------------------------------------------------------------
(* Totals                                                                   *)

ResultKg == [i \in Slots |-> results[i].kg]

(* The results that count on a basis, by scope                              *)
ResultsOf(scope, methods) ==
    {i \in Slots : results[i].kind.scope = scope /\ results[i].kind.method \in methods}

Methods == {"not_applicable"} \union RunTotals!Bases

CountedKg(basis) ==
    SumOf(ResultKg, ResultsOf(1, Methods)) + SumOf(ResultKg, ResultsOf(2, {basis}))
      + SumOf(ResultKg, ResultsOf(3, Methods))

(* What is shown is the sum of the results that count.                      *)
TotalsInv ==
    /\ results \in [Slots -> [kind : Kinds, kg : ResultAmounts]]
    /\ shown # None =>
         /\ shown.basis \in RunTotals!Bases
         /\ shown.dashboard = CountedKg(shown.basis)
         /\ shown.summary = CountedKg(shown.basis)
         /\ shown.report \in {None, CountedKg(shown.basis)}

LEMMA ResultNumbers ==
    ASSUME TotalsInv, NEW S \in SUBSET Slots
    PROVE  IsFiniteSet(S) /\ Numbers(ResultKg, S) /\ SumOf(ResultKg, S) \in Nat
<1>1. IsFiniteSet(S)
    BY FS_Subset, TotalsAssumption DEF TotalsAssumption
<1>2. Numbers(ResultKg, S)
    BY TotalsAssumption DEF TotalsInv, TotalsAssumption, Numbers, ResultKg
<1> QED
    BY <1>1, <1>2, SumRest

(* What Kg adds up                                                          *)
LEMMA KgOfRows ==
    ASSUME NEW rows, IsFiniteSet(rows)
    PROVE  RunTotals!Kg(rows) = SumOf([r \in rows |-> r.kg], rows)
<1> DEFINE body(f, s) == IF s = {} THEN 0 ELSE Some(s).kg + f[s \ {Some(s)}]
           defined(f) == f = [s \in SUBSET rows |-> body(f, s)]
           object == CHOOSE f : defined(f)
           g == [r \in rows |-> r.kg]
<1>1. RunTotals!Kg(rows) = object[rows]
    BY DEF RunTotals!Kg, RunTotals!MapThenSumSet, RunTotals!MapThenFoldSet, Some
<1> HIDE DEF object
<1>2. \A f : \A s \in SUBSET rows : body(f, s) = AddedUp(f, g, s)
    BY SomeMember DEF AddedUp
<1>3. \A f : defined(f) <=> AddsUp(f, g, rows)
    BY <1>2 DEF AddsUp
<1>4. \E f : defined(f)
    BY <1>3, SumThere
<1>5. AddsUp(object, g, rows)
    <2> HIDE DEF defined
    <2>1. defined(object)
        BY <1>4 DEF object
    <2> QED
        BY <1>3, <2>1
<1> QED
    BY <1>1, <1>5, SumIs

LEMMA KgOfSlots ==
    ASSUME NEW S \in SUBSET Slots, IsFiniteSet(S)
    PROVE  RunTotals!MapThenSumSet(LAMBDA i : results[i].kg, S) = SumOf(ResultKg, S)
<1> DEFINE body(f, s) == IF s = {} THEN 0 ELSE results[Some(s)].kg + f[s \ {Some(s)}]
           defined(f) == f = [s \in SUBSET S |-> body(f, s)]
           object == CHOOSE f : defined(f)
<1>1. RunTotals!MapThenSumSet(LAMBDA i : results[i].kg, S) = object[S]
    BY DEF RunTotals!MapThenSumSet, RunTotals!MapThenFoldSet, Some
<1> HIDE DEF object
<1>2. \A f : \A s \in SUBSET S : body(f, s) = AddedUp(f, ResultKg, s)
    BY SomeMember DEF AddedUp, ResultKg
<1>3. \A f : defined(f) <=> AddsUp(f, ResultKg, S)
    BY <1>2 DEF AddsUp
<1>4. \E f : defined(f)
    BY <1>3, SumThere
<1>5. AddsUp(object, ResultKg, S)
    <2> HIDE DEF defined
    <2>1. defined(object)
        BY <1>4 DEF object
    <2> QED
        BY <1>3, <2>1
<1> QED
    BY <1>1, <1>5, SumIs

(* Rows that are named by keys, one each, add up to what the keys have.     *)
LEMMA KgByKey ==
    ASSUME NEW K, IsFiniteSet(K), NEW line, \A j, k \in K : line[j] = line[k] => j = k,
           NEW h, \A k \in K : h[k] \in Nat /\ line[k].kg = h[k]
    PROVE  RunTotals!Kg({line[k] : k \in K}) = SumOf(h, K)
<1>1. PICK rows : rows = {line[k] : k \in K}
    OBVIOUS
<1>2. IsFiniteSet(rows)
    BY <1>1, ImageFinite
<1>3. PICK g : g = [r \in rows |-> r.kg]
    OBVIOUS
<1>4. \A k \in K : g[line[k]] = h[k]
    BY <1>1, <1>3
<1>5. SumOf(g, rows) = SumOf([k \in K |-> g[line[k]]], K)
    BY <1>1, <1>4, SumByKey
<1>6. SumOf([k \in K |-> g[line[k]]], K) = SumOf(h, K)
    BY <1>4, SumSame
<1>7. RunTotals!Kg(rows) = SumOf(g, rows)
    BY <1>2, <1>3, KgOfRows
<1> QED
    BY <1>1, <1>5, <1>6, <1>7

(* The groups of some keys add up to the results that have these keys.      *)
LEMMA KgOfGroups ==
    ASSUME TotalsInv, NEW key, NEW K \in SUBSET {key[i] : i \in Slots}
    PROVE  RunTotals!Kg({r \in RunTotals!GroupedBy(key) : r.kind \in K})
             = SumOf(ResultKg, {i \in Slots : key[i] \in K})
<1> DEFINE one(k) == {i \in Slots : key[i] = k}
           kg(k) == RunTotals!MapThenSumSet(LAMBDA i : results[i].kg, one(k))
           line == [k \in K |-> [kind |-> k, kg |-> kg(k)]]
           h == [k \in K |-> SumOf(ResultKg, one(k))]
<1>1. IsFiniteSet(Slots) /\ IsFiniteSet(K)
    <2>1. IsFiniteSet(Slots)
        BY TotalsAssumption DEF TotalsAssumption
    <2>2. IsFiniteSet({key[i] : i \in Slots})
        BY <2>1, ImageFinite
    <2> QED
        BY <2>1, <2>2, FS_Subset
<1>2. \A k : one(k) \in SUBSET Slots
    OBVIOUS
<1>3. {r \in RunTotals!GroupedBy(key) : r.kind \in K} = {line[k] : k \in K}
    <2>1. RunTotals!GroupedBy(key) = {[kind |-> k, kg |-> kg(k)] : k \in {key[i] : i \in Slots}}
        BY DEF RunTotals!GroupedBy
    <2> HIDE DEF kg
    <2> QED
        BY <2>1
<1> HIDE DEF one
<1>4. \A k : kg(k) = SumOf(ResultKg, one(k)) /\ SumOf(ResultKg, one(k)) \in Nat
    BY <1>2, KgOfSlots, ResultNumbers
<1> HIDE DEF kg
<1>5. \A k \in K : line[k] = [kind |-> k, kg |-> kg(k)] /\ h[k] = SumOf(ResultKg, one(k))
    OBVIOUS
<1>6. /\ \A j, k \in K : line[j] = line[k] => j = k
      /\ \A k \in K : h[k] \in Nat /\ line[k].kg = h[k]
    BY <1>4, <1>5
<1> HIDE DEF line
<1>7. RunTotals!Kg({line[k] : k \in K}) = SumOf(h, K)
    <2> HIDE DEF h
    <2> QED
        BY <1>1, <1>6, KgByKey
<1>8. SumOf(h, K) = SumOf(ResultKg, {i \in Slots : key[i] \in K})
    <2>1. Numbers(ResultKg, Slots)
        BY ResultNumbers
    <2> QED
        BY <1>1, <2>1, SumOfGroups DEF one
<1> QED
    BY <1>3, <1>7, <1>8

LEMMA CountedOnBasis ==
    ASSUME TotalsInv, NEW basis \in RunTotals!Bases
    PROVE  CountedKg(basis) =
             SumOf(ResultKg, {i \in Slots : results[i].kind.method \in {"not_applicable", basis}})
<1>1. PICK A, B, C : /\ A = ResultsOf(1, Methods) /\ B = ResultsOf(2, {basis})
                     /\ C = ResultsOf(3, Methods)
    OBVIOUS
<1>2. /\ A \in SUBSET Slots /\ B \in SUBSET Slots /\ C \in SUBSET Slots
      /\ A \intersect B = {} /\ (A \union B) \intersect C = {}
    BY <1>1 DEF ResultsOf
<1>3. \A i \in Slots : results[i].kind \in Kinds
    BY DEF TotalsInv
<1>4. {i \in Slots : results[i].kind.method \in {"not_applicable", basis}} = (A \union B) \union C
    BY <1>1, <1>3, TotalsAssumption DEF ResultsOf, Methods, TotalsAssumption, RunTotals!Bases
<1>5. SumOf(ResultKg, A \union B) = SumOf(ResultKg, A) + SumOf(ResultKg, B)
    BY <1>2, ResultNumbers, SumOfBoth
<1>6. SumOf(ResultKg, (A \union B) \union C) = SumOf(ResultKg, A \union B) + SumOf(ResultKg, C)
    <2>1. PICK D : D = A \union B
        OBVIOUS
    <2>2. D \in SUBSET Slots /\ D \intersect C = {}
        BY <1>2, <2>1
    <2> QED
        BY <1>2, <2>1, <2>2, ResultNumbers, SumOfBoth
<1> QED
    BY <1>1, <1>4, <1>5, <1>6 DEF CountedKg

(* The basis picks one of the two methods.                                  *)
LEMMA BasisOf ==
    ASSUME NEW basis \in RunTotals!Bases
    PROVE  basis = IF basis = "location_based" THEN "location_based" ELSE "market_based"
BY DEF RunTotals!Bases

(* The rows of scope 1, of scope 2 with the method, and of scope 3 add up   *)
(* to the results of each.                                                  *)
SumsOnBasis(groups, method) ==
    /\ RunTotals!Kg({r \in groups : r.kind.scope = 1}) = SumOf(ResultKg, ResultsOf(1, Methods))
    /\ RunTotals!Kg({r \in groups : r.kind.scope = 2 /\ r.kind.method = method})
         = SumOf(ResultKg, ResultsOf(2, {method}))
    /\ RunTotals!Kg({r \in groups : r.kind.scope = 3}) = SumOf(ResultKg, ResultsOf(3, Methods))

(* Grouped by a key that has scope and method, the results add up to that.  *)
LEMMA SumsOfGroups ==
    ASSUME TotalsInv, NEW key, NEW groups, groups = RunTotals!GroupedBy(key),
           NEW method \in RunTotals!Bases,
           \A i \in Slots : /\ key[i].scope = results[i].kind.scope
                            /\ key[i].method = results[i].kind.method
    PROVE  SumsOnBasis(groups, method)
<1> DEFINE keys == {key[i] : i \in Slots}
           of(scope) == {k \in keys : k.scope = scope}
           on == {k \in keys : k.scope = 2 /\ k.method = method}
<1>1. \A r \in groups : r.kind \in keys
    <2> DEFINE kg(k) == RunTotals!MapThenSumSet(LAMBDA i : results[i].kg, {i \in Slots : key[i] = k})
    <2>1. groups = {[kind |-> k, kg |-> kg(k)] : k \in keys}
        BY DEF RunTotals!GroupedBy
    <2> HIDE DEF kg
    <2> QED
        BY <2>1
<1>2. \A i \in Slots : results[i].kind.method \in Methods
    BY TotalsAssumption DEF TotalsInv, TotalsAssumption, Methods
<1>3. /\ {i \in Slots : key[i] \in of(1)} = ResultsOf(1, Methods)
      /\ {i \in Slots : key[i] \in on} = ResultsOf(2, {method})
      /\ {i \in Slots : key[i] \in of(3)} = ResultsOf(3, Methods)
    BY <1>2 DEF ResultsOf
<1>4. /\ {r \in groups : r.kind.scope = 1} = {r \in groups : r.kind \in of(1)}
      /\ {r \in groups : r.kind.scope = 2 /\ r.kind.method = method}
           = {r \in groups : r.kind \in on}
      /\ {r \in groups : r.kind.scope = 3} = {r \in groups : r.kind \in of(3)}
    BY <1>1
<1>5. of(1) \in SUBSET keys /\ on \in SUBSET keys /\ of(3) \in SUBSET keys
    OBVIOUS
<1> HIDE DEF of, on
<1>6. \A K \in SUBSET keys : RunTotals!Kg({r \in groups : r.kind \in K})
                              = SumOf(ResultKg, {i \in Slots : key[i] \in K})
    BY KgOfGroups
<1> HIDE DEF keys
<1> QED
    BY <1>3, <1>4, <1>5, <1>6 DEF SumsOnBasis

LEMMA TotalOfDashboard ==
    ASSUME TotalsInv, NEW basis \in RunTotals!Bases
    PROVE  RunTotals!DashboardTotal(basis) = CountedKg(basis)
<1>1. \A i \in Slots : /\ RunTotals!ByScopeAndMethod[i].scope = results[i].kind.scope
                       /\ RunTotals!ByScopeAndMethod[i].method = results[i].kind.method
    BY DEF RunTotals!ByScopeAndMethod
<1>2. PICK rows : rows = RunTotals!GroupedBy(RunTotals!ByScopeAndMethod)
    OBVIOUS
<1>3. SumsOnBasis(rows, basis)
    BY <1>1, <1>2, SumsOfGroups
<1>4. RunTotals!AggregateInventoryTotals(rows, basis) = CountedKg(basis)
    BY <1>3, BasisOf DEF SumsOnBasis, RunTotals!AggregateInventoryTotals, CountedKg
<1> QED
    BY <1>2, <1>4 DEF RunTotals!DashboardTotal

LEMMA TotalOfSummary ==
    ASSUME TotalsInv, NEW basis \in RunTotals!Bases
    PROVE  RunTotals!SummaryTotal(basis) = CountedKg(basis)
<1>1. \A i \in Slots : /\ RunTotals!WholeKey[i].scope = results[i].kind.scope
                       /\ RunTotals!WholeKey[i].method = results[i].kind.method
    BY DEF RunTotals!WholeKey
<1>2. PICK items : items = RunTotals!GroupedBy(RunTotals!WholeKey)
    OBVIOUS
<1>3. SumsOnBasis(items, basis)
    BY <1>1, <1>2, SumsOfGroups
<1>4. RunTotals!CalculateInventoryTotals(items, basis) = CountedKg(basis)
    BY <1>3, BasisOf DEF SumsOnBasis, RunTotals!CalculateInventoryTotals, CountedKg
<1> QED
    BY <1>2, <1>4 DEF RunTotals!SummaryTotal

(* The report adds up the results themselves.                               *)
LEMMA TotalOfReport ==
    ASSUME TotalsInv, NEW basis \in RunTotals!Bases
    PROVE  RunTotals!ReportTotal(basis) \in {None, CountedKg(basis)}
<1> DEFINE kg(S) == RunTotals!MapThenSumSet(LAMBDA i : results[i].kg, S)
           scope(n) == {i \in Slots : results[i].kind.scope = n}
           method(m) == {i \in scope(2) : results[i].kind.method = m}
<1>1. \A i \in Slots : results[i].kind.method \in Methods
    BY TotalsAssumption DEF TotalsInv, TotalsAssumption, Methods
<1>2. /\ scope(1) = ResultsOf(1, Methods) /\ method(basis) = ResultsOf(2, {basis})
      /\ scope(3) = ResultsOf(3, Methods)
    BY <1>1 DEF ResultsOf
<1>3. \A n, m : ResultsOf(n, m) \in SUBSET Slots
    BY DEF ResultsOf
<1>4. \A n, m : kg(ResultsOf(n, m)) = SumOf(ResultKg, ResultsOf(n, m))
    BY <1>3, KgOfSlots, ResultNumbers
<1>5. RunTotals!ReportTotal(basis)
        \in {None, kg(scope(1)) + kg(method(basis)) + kg(scope(3))}
    <2>1. basis = "location_based" \/ basis = "market_based"
        BY DEF RunTotals!Bases
    <2> QED
        BY <2>1 DEF RunTotals!ReportTotal
<1> HIDE DEF kg, scope, method
<1> QED
    BY <1>2, <1>4, <1>5 DEF CountedKg

LEMMA TotalsNext ==
    ASSUME TotalsInv, RunTotals!Next
    PROVE  TotalsInv'
<1>1. PICK basis \in RunTotals!Bases : RunTotals!Show(basis)
    BY DEF RunTotals!Next
<1>2. RunTotals!DashboardTotal(basis) = CountedKg(basis)
    BY TotalOfDashboard
<1>3. RunTotals!SummaryTotal(basis) = CountedKg(basis)
    BY TotalOfSummary
<1>4. RunTotals!ReportTotal(basis) \in {None, CountedKg(basis)}
    BY TotalOfReport
<1>5. results' = results
      /\ shown' = [basis |-> basis, dashboard |-> CountedKg(basis),
                   summary |-> CountedKg(basis), report |-> RunTotals!ReportTotal(basis)]
    BY <1>1, <1>2, <1>3 DEF RunTotals!Show
<1>6. CountedKg(basis)' = CountedKg(basis)
    BY <1>5 DEF CountedKg, ResultKg, ResultsOf
<1>7. results' \in [Slots -> [kind : Kinds, kg : ResultAmounts]]
    BY <1>5 DEF TotalsInv
<1> QED
    BY <1>4, <1>5, <1>6, <1>7 DEF TotalsInv

LEMMA TotalsSame == TotalsInv /\ UNCHANGED totalVars => TotalsInv'
BY DEF TotalsInv, totalVars, CountedKg, ResultKg, ResultsOf

LEMMA TotalsInit == RunTotals!Init => TotalsInv
BY DEF TotalsInv, RunTotals!Init

LEMMA TotalsAgree == TotalsInv => RunTotals!OneTotal
<1> SUFFICES ASSUME TotalsInv, shown # None PROVE RunTotals!OneTotal
    BY DEF RunTotals!OneTotal
<1>1. PICK counted : counted =
        {i \in Slots : results[i].kind.method \in {"not_applicable", shown.basis}}
    OBVIOUS
<1>2. PICK total : total = RunTotals!MapThenSumSet(LAMBDA i : results[i].kg, counted)
    OBVIOUS
<1>3. total = CountedKg(shown.basis)
    <2>1. counted \in SUBSET Slots /\ IsFiniteSet(counted)
        BY <1>1, ResultNumbers
    <2>2. total = SumOf(ResultKg, counted)
        BY <1>2, <2>1, KgOfSlots
    <2> QED
        BY <1>1, <2>2, CountedOnBasis DEF TotalsInv
<1>4. /\ shown.dashboard = total /\ shown.summary = total
      /\ shown.report # None => shown.report = total
    BY <1>3 DEF TotalsInv
<1> QED
    BY <1>1, <1>2, <1>4 DEF RunTotals!OneTotal
=============================================================================
