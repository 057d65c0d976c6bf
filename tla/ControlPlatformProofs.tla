----------------------- MODULE ControlPlatformProofs -----------------------
(* Proofs about ControlPlatform: an inductive invariant of each part, and   *)
(* the theorems that follow from them side by side.                         *)
EXTENDS ControlPlatform, NumberLemmas, FiniteSetTheorems, SequenceTheorems

----------------------------------------------------------------------------
(* Requests                                                                 *)

(* One request moves on, the others stay.                                   *)
LEMMA RequestChanges ==
    ASSUME DOMAIN request = Sessions, NEW s \in Sessions, NEW r,
           request' = [request EXCEPT ![s] = r]
    PROVE  /\ DOMAIN request' = Sessions
           /\ request'[s] = r
           /\ \A t \in Sessions \ {s} : request'[t] = request[t]
OBVIOUS

----------------------------------------------------------------------------
(* Methodologies                                                            *)

(* What a transition changes, of the version as it was loaded.              *)
MethodChange(q) ==
    \/ q.changed = [status |-> "in_review"] /\ q.active = 0
    \/ \E p \in Principals :
         /\ q.changed = [reviewer |-> p] /\ q.active = 0
         /\ p # q.loaded.creator /\ q.loaded.reviewer = None
    \/ \E p \in Principals :
         /\ q.changed = [status |-> "approved", approver |-> p] /\ q.active = 0
         /\ p # q.loaded.creator /\ q.loaded.reviewer \notin {None, p}
    \/ q.changed = [status |-> "retired"] /\ q.active = 0
    \/ \E n \in Nat :
         /\ q.changed = [status |-> "active", supersedes |-> n]
         /\ q.active \in q.actives \/ (q.active = 0 /\ q.actives = {})

(* What a request in flight has loaded, and what of it stays true.          *)
MethodHolds(q) ==
    /\ q.op \in {"create", "activate", "transition"}
    /\ q.op = "create" => q.principal \in Principals /\ q.version \in Nat
    /\ q.op \in {"activate", "transition"} =>
         /\ q.version \in DOMAIN method /\ q.loaded \in Methods!MethodRows
         /\ q.loaded.creator = method[q.version].creator
    /\ q.op = "transition" => MethodChange(q)

MethodRequests ==
    /\ DOMAIN request = Sessions
    /\ \A s \in Sessions : request[s] # None => MethodHolds(request[s])

MethodInv ==
    /\ Methods!TypeOK /\ overlaps \in Nat /\ MethodRequests
    /\ Methods!ThreePeople /\ Methods!OneActive

(* A version stays, and so does who created it.                             *)
MethodGrows ==
    /\ DOMAIN method \subseteq DOMAIN method'
    /\ \A v \in DOMAIN method : method'[v].creator = method[v].creator

LEMMA MethodRequestsKept ==
    ASSUME MethodRequests, MethodGrows, NEW s \in Sessions, NEW r,
           request' = [request EXCEPT ![s] = r], r = None \/ MethodHolds(r)
    PROVE  MethodRequests'
<1>1. \A q : MethodHolds(q) => MethodHolds(q)'
    BY DEF MethodHolds, MethodGrows, MethodChange
<1>2. DOMAIN request' = Sessions /\ request'[s] = r
      /\ \A t \in Sessions \ {s} : request'[t] = request[t]
    BY RequestChanges DEF MethodRequests
<1>3. ASSUME NEW t \in Sessions, request'[t] # None PROVE MethodHolds(request[t])'
    <2>1. PICK q : q = request'[t]
        OBVIOUS
    <2>2. MethodHolds(q)
        BY <1>2, <1>3, <2>1 DEF MethodRequests
    <2>3. MethodHolds(q)'
        BY <1>1, <2>2
    <2> QED
        BY <2>1, <2>3 DEF MethodHolds, MethodChange
<1> QED
    BY <1>2, <1>3 DEF MethodRequests

LEMMA MethodReadKeeps ==
    ASSUME MethodInv, UNCHANGED methodVars, NEW s \in Sessions, NEW r,
           request' = [request EXCEPT ![s] = r], r = None \/ MethodHolds(r)
    PROVE  MethodInv'
<1>1. MethodRequests'
    BY MethodRequestsKept DEF MethodInv, MethodGrows, methodVars
<1> QED
    BY <1>1 DEF MethodInv, methodVars, Methods!TypeOK, Methods!ThreePeople,
                Methods!OneActive, Methods!ActiveVersions

LEMMA MethodSame == MethodInv /\ UNCHANGED <<requests, methodVars>> => MethodInv'
<1> SUFFICES ASSUME MethodInv, UNCHANGED <<requests, methodVars>> PROVE MethodInv'
    OBVIOUS
<1>1. MethodRequests'
    <2>1. \A q : MethodHolds(q) => MethodHolds(q)'
        BY DEF MethodHolds, MethodChange, methodVars
    <2>2. ASSUME NEW t \in Sessions, request'[t] # None PROVE MethodHolds(request[t])'
        <3>1. PICK q : q = request'[t]
            OBVIOUS
        <3>2. MethodHolds(q)'
            BY <2>1, <2>2, <3>1 DEF MethodInv, MethodRequests, requests
        <3> QED
            BY <3>1, <3>2 DEF MethodHolds, MethodChange
    <2> QED
        BY <2>2 DEF MethodInv, MethodRequests, requests
<1> QED
    BY <1>1 DEF MethodInv, methodVars, Methods!TypeOK, Methods!ThreePeople,
                Methods!OneActive, Methods!ActiveVersions

LEMMA MethodInit == Methods!Init => MethodInv
<1> SUFFICES ASSUME Methods!Init PROVE MethodInv
    OBVIOUS
<1>1. MethodRequests /\ overlaps = 0
    BY DEF Methods!Init, Methods!InitRequests, MethodRequests
<1>2. /\ method \in Seq(Methods!MethodRows)
      /\ \A v \in DOMAIN method :
           /\ method[v].status = "approved"
           /\ method[v].creator \notin {method[v].reviewer, method[v].approver}
           /\ method[v].reviewer \notin {None, method[v].approver}
    <2>1. CASE method = <<>>
        BY <2>1
    <2>2. CASE \E c, r, a \in Principals :
                 /\ Methods!Cardinality({c, r, a}) = 3
                 /\ method = <<Methods!Row(1, c, "approved", r, a),
                               Methods!Row(2, c, "approved", r, a)>>
        <3>1. PICK c, r, a \in Principals :
                /\ Methods!Cardinality({c, r, a}) = 3
                /\ method = <<Methods!Row(1, c, "approved", r, a),
                              Methods!Row(2, c, "approved", r, a)>>
            BY <2>2
        <3>2. Cardinality({c, r, a}) = 3
            BY <3>1 DEF Methods!Cardinality, Cardinality
        <3>3. c # r /\ c # a /\ r # a
            <4> SUFFICES ASSUME \E x, y \in Principals : {c, r, a} = {x, y} PROVE FALSE
                OBVIOUS
            <4>1. PICK x, y \in Principals : {c, r, a} = {x, y}
                OBVIOUS
            <4>2. Cardinality({x}) = 1 /\ IsFiniteSet({x})
                BY FS_Singleton
            <4>3. Cardinality({x} \union {y}) \in {1, 2}
                BY <4>2, FS_AddElement
            <4>4. {c, r, a} = {x} \union {y}
                BY <4>1
            <4> QED
                BY <3>2, <4>3, <4>4
        <3>4. /\ Methods!Row(1, c, "approved", r, a) \in Methods!MethodRows
              /\ Methods!Row(2, c, "approved", r, a) \in Methods!MethodRows
            BY DEF Methods!Row, Methods!MethodRows
        <3>5. method \in Seq(Methods!MethodRows) /\ DOMAIN method = {1, 2}
            BY <3>1, <3>4
        <3>6. None \notin Principals
            BY NoneAssumption DEF NoneAssumption
        <3> QED
            BY <3>1, <3>3, <3>5, <3>6 DEF Methods!Row
    <2> QED
        BY <2>1, <2>2 DEF Methods!Init
<1>3. Methods!Cardinality(Methods!ActiveVersions) = 0
    <2>1. Methods!ActiveVersions = {}
        BY <1>2 DEF Methods!ActiveVersions
    <2>2. Cardinality({}) = 0
        BY FS_EmptySet
    <2>3. Methods!Cardinality(Methods!ActiveVersions) = Cardinality(Methods!ActiveVersions)
        BY DEF Methods!Cardinality, Cardinality
    <2> QED
        BY <2>1, <2>2, <2>3
<1>4. Methods!TypeOK /\ Methods!ThreePeople
    BY <1>2 DEF Methods!TypeOK, Methods!ThreePeople
<1> QED
    BY <1>1, <1>3, <1>4 DEF MethodInv, Methods!OneActive

LEMMA MethodReads ==
    ASSUME MethodInv, NEW s \in Sessions,
           \/ \E p \in Principals : Methods!LoadCreate(s, p)
           \/ \E v \in DOMAIN method :
                \/ Methods!Submit(s, v) \/ Methods!Activate(s, v) \/ Methods!Retire(s, v)
                \/ \E p \in Principals : Methods!Review(s, v, p) \/ Methods!Approve(s, v, p)
           \/ Methods!FindActive(s) \/ Methods!Abandon(s)
    PROVE  MethodInv'
<1> USE DEF Methods!Receive, Methods!rows, methodVars
<1>1. ASSUME NEW p \in Principals, Methods!LoadCreate(s, p) PROVE MethodInv'
    <2>1. PICK r : r = [op |-> "create", principal |-> p, version |-> Methods!NextVersion]
        OBVIOUS
    <2>2. MethodHolds(r)
        BY <2>1 DEF MethodHolds, Methods!NextVersion, MethodInv, Methods!TypeOK
    <2> QED
        BY <1>1, <2>1, <2>2, MethodReadKeeps DEF Methods!LoadCreate
<1>2. ASSUME NEW v \in DOMAIN method, NEW changed, NEW active, NEW r,
             r = [op |-> "transition", version |-> v, loaded |-> method[v],
                  changed |-> changed, active |-> active, actives |-> Methods!ActiveVersions],
             MethodChange(r), Methods!Load(s, v, changed, active)
      PROVE  MethodInv'
    <2>1. MethodHolds(r)
        BY <1>2 DEF MethodHolds, MethodInv, Methods!TypeOK
    <2> QED
        BY <1>2, <2>1, MethodReadKeeps DEF Methods!Load
<1>3. ASSUME NEW v \in DOMAIN method, Methods!Submit(s, v) \/ Methods!Retire(s, v)
      PROVE  MethodInv'
    <2>1. PICK changed \in {[status |-> "in_review"], [status |-> "retired"]} :
            Methods!Load(s, v, changed, 0)
        BY <1>3 DEF Methods!Submit, Methods!Retire
    <2>2. PICK r :
            r = [op |-> "transition", version |-> v, loaded |-> method[v],
                 changed |-> changed, active |-> 0, actives |-> Methods!ActiveVersions]
        OBVIOUS
    <2>3. MethodChange(r)
        BY <2>1, <2>2 DEF MethodChange
    <2> QED
        BY <1>2, <2>1, <2>2, <2>3
<1>4. ASSUME NEW v \in DOMAIN method, Methods!Activate(s, v) PROVE MethodInv'
    <2>1. PICK r : r = [op |-> "activate", version |-> v, loaded |-> method[v]]
        OBVIOUS
    <2>2. MethodHolds(r)
        BY <2>1 DEF MethodHolds, MethodInv, Methods!TypeOK
    <2> QED
        BY <1>4, <2>1, <2>2, MethodReadKeeps DEF Methods!Activate
<1>5. ASSUME NEW v \in DOMAIN method, NEW p \in Principals, Methods!Review(s, v, p)
      PROVE  MethodInv'
    <2>1. PICK changed, r :
            /\ changed = [reviewer |-> p]
            /\ r = [op |-> "transition", version |-> v, loaded |-> method[v],
                    changed |-> changed, active |-> 0, actives |-> Methods!ActiveVersions]
        OBVIOUS
    <2>2. MethodChange(r) /\ Methods!Load(s, v, changed, 0)
        BY <1>5, <2>1 DEF MethodChange, Methods!Review
    <2> QED
        BY <1>2, <2>1, <2>2
<1>6. ASSUME NEW v \in DOMAIN method, NEW p \in Principals, Methods!Approve(s, v, p)
      PROVE  MethodInv'
    <2>1. PICK changed, r :
            /\ changed = [status |-> "approved", approver |-> p]
            /\ r = [op |-> "transition", version |-> v, loaded |-> method[v],
                    changed |-> changed, active |-> 0, actives |-> Methods!ActiveVersions]
        OBVIOUS
    <2>2. MethodChange(r) /\ Methods!Load(s, v, changed, 0)
        BY <1>6, <2>1 DEF MethodChange, Methods!Approve, Methods!ReviewedByAnother
    <2> QED
        BY <1>2, <2>1, <2>2
<1>7. ASSUME Methods!FindActive(s) PROVE MethodInv'
    <2>1. PICK q : q = request[s]
        OBVIOUS
    <2>2. PICK active, n :
            /\ active \in Methods!ActiveVersions \/ (active = 0 /\ Methods!ActiveVersions = {})
            /\ n = IF active = 0 THEN q.loaded.supersedes ELSE active
            /\ UNCHANGED methodVars
            /\ request' = [request EXCEPT ![s] =
                 [op |-> "transition", version |-> q.version, loaded |-> q.loaded,
                  changed |-> [status |-> "active", supersedes |-> n],
                  active |-> active, actives |-> Methods!ActiveVersions]]
        BY <1>7, <2>1 DEF Methods!FindActive, Methods!Continue
    <2>3. PICK changed, r :
            /\ changed = [status |-> "active", supersedes |-> n]
            /\ r = [op |-> "transition", version |-> q.version, loaded |-> q.loaded,
                    changed |-> changed, active |-> active, actives |-> Methods!ActiveVersions]
        OBVIOUS
    <2>4. /\ q.version \in DOMAIN method /\ q.loaded \in Methods!MethodRows
          /\ q.loaded.creator = method[q.version].creator
        BY <1>7, <2>1 DEF Methods!FindActive, Methods!Serving, MethodInv, MethodRequests, MethodHolds
    <2>5. n \in Nat
        <3>1. DOMAIN method \subseteq Nat
            BY DEF MethodInv, Methods!TypeOK
        <3> QED
            BY <2>2, <2>4, <3>1 DEF Methods!MethodRows, Methods!ActiveVersions
    <2>6. MethodHolds(r)
        BY <2>2, <2>3, <2>4, <2>5 DEF MethodHolds, MethodChange
    <2> QED
        BY <2>2, <2>3, <2>6, MethodReadKeeps
<1>8. ASSUME Methods!Abandon(s) PROVE MethodInv'
    BY <1>8, MethodReadKeeps DEF Methods!Abandon, Methods!Fail, Methods!Done
<1> QED
    BY <1>1, <1>3, <1>4, <1>5, <1>6, <1>7, <1>8

LEMMA VersionCreated ==
    ASSUME MethodInv, NEW s \in Sessions, Methods!CommitCreate(s)
    PROVE  MethodInv'
<1>1. PICK q : q = request[s]
    OBVIOUS
<1>2. q.principal \in Principals /\ q.version \in Nat
    BY <1>1 DEF MethodInv, MethodRequests, Methods!CommitCreate, Methods!Serving, MethodHolds
<1>3. PICK row : row = Methods!Row(q.version, q.principal, "draft", None, None)
    OBVIOUS
<1>4. /\ method' = Append(method, row) /\ request' = [request EXCEPT ![s] = None]
      /\ UNCHANGED <<contested, overlaps>>
    BY <1>1, <1>3 DEF Methods!CommitCreate, Methods!Done
<1>5. row \in Methods!MethodRows /\ row.status = "draft"
      /\ row.creator \in Principals /\ row.reviewer = None /\ row.approver = None
    BY <1>2, <1>3 DEF Methods!Row, Methods!MethodRows
<1>6. method \in Seq(Methods!MethodRows)
    BY DEF MethodInv, Methods!TypeOK
<1>7. /\ method' \in Seq(Methods!MethodRows) /\ DOMAIN method' = DOMAIN method \union {Len(method) + 1}
      /\ Len(method) + 1 \notin DOMAIN method
      /\ method'[Len(method) + 1] = row
      /\ \A v \in DOMAIN method : method'[v] = method[v]
    BY <1>4, <1>5, <1>6
<1>8. MethodRequests'
    BY <1>4, <1>7, MethodRequestsKept DEF MethodInv, MethodGrows
<1>9. Methods!ActiveVersions' = Methods!ActiveVersions
    BY <1>5, <1>7 DEF Methods!ActiveVersions
<1>10. Methods!ThreePeople'
    <2>1. None \notin Principals
        BY NoneAssumption DEF NoneAssumption
    <2> QED
        BY <1>4, <1>5, <1>7, <2>1 DEF MethodInv, Methods!ThreePeople
<1> QED
    BY <1>4, <1>7, <1>8, <1>9, <1>10 DEF MethodInv, Methods!TypeOK, Methods!OneActive

(* What a transition makes of a version                                     *)
Transitioned(q, row, after) ==
    /\ after \in Methods!MethodRows /\ after.creator = row.creator
    /\ after.creator \notin {row.reviewer, row.approver} =>
         after.creator \notin {after.reviewer, after.approver}
    /\ row = q.loaded /\ after.approver # None
         /\ (row.approver # None => row.reviewer \notin {None, row.approver}) =>
         after.reviewer \notin {None, after.approver}
    /\ "supersedes" \notin DOMAIN q.changed /\ after.status = "active" => row.status = "active"

LEMMA TransitionedRow ==
    ASSUME NEW q, MethodChange(q), q.loaded \in Methods!MethodRows,
           NEW row \in Methods!MethodRows, q.loaded.creator = row.creator,
           NEW after, after = Methods!Update(row, q.loaded, q.changed)
    PROVE  Transitioned(q, row, after)
<1>1. PICK loaded, changed : loaded = q.loaded /\ changed = q.changed
    OBVIOUS
<1>2. None \notin Principals
    BY NoneAssumption DEF NoneAssumption
<1> USE DEF Methods!Update, Methods!MethodRows, Transitioned
<1>3. CASE \E x \in {"in_review", "retired"} : changed = [status |-> x]
    BY <1>1, <1>2, <1>3
<1>4. CASE \E p \in Principals :
             /\ changed = [reviewer |-> p]
             /\ p # loaded.creator /\ loaded.reviewer = None
    BY <1>1, <1>2, <1>4
<1>5. CASE \E p \in Principals :
             /\ changed = [status |-> "approved", approver |-> p]
             /\ p # loaded.creator /\ loaded.reviewer \notin {None, p}
    BY <1>1, <1>2, <1>5
<1>6. CASE \E n \in Nat : changed = [status |-> "active", supersedes |-> n]
    BY <1>1, <1>2, <1>6
<1> QED
    BY <1>1, <1>3, <1>4, <1>5, <1>6 DEF MethodChange

(* One more version at most is in force, and none more if the one that the  *)
(* activation found is still there.                                         *)
LEMMA OneMoreActive ==
    ASSUME NEW before, IsFiniteSet(before), NEW after, NEW v, NEW out \in before, out # v,
           after \subseteq (before \ {out}) \union {v}
    PROVE  Cardinality(after) <= Cardinality(before)
<1>1. IsFiniteSet(before \ {out}) /\ Cardinality(before \ {out}) = Cardinality(before) - 1
    BY FS_RemoveElement
<1>2. IsFiniteSet((before \ {out}) \union {v})
      /\ Cardinality((before \ {out}) \union {v}) <= Cardinality(before \ {out}) + 1
    <2>1. PICK rest : rest = before \ {out}
        OBVIOUS
    <2>2. IsFiniteSet(rest) /\ Cardinality(rest) \in Nat
        BY <1>1, <2>1, FS_CardinalityType
    <2>3. /\ IsFiniteSet(rest \union {v})
          /\ Cardinality(rest \union {v}) = IF v \in rest THEN Cardinality(rest) ELSE Cardinality(rest) + 1
        BY <2>2, FS_AddElement
    <2>4. Cardinality(rest \union {v}) <= Cardinality(rest) + 1
        BY <2>2, <2>3
    <2> QED
        BY <2>1, <2>3, <2>4
<1>3. Cardinality(after) <= Cardinality((before \ {out}) \union {v})
    BY <1>2, FS_Subset
<1>4. /\ Cardinality(before) \in Nat /\ Cardinality(after) \in Nat
      /\ Cardinality((before \ {out}) \union {v}) \in Nat
    <2>1. IsFiniteSet(after)
        BY <1>2, FS_Subset
    <2> QED
        BY <1>2, <2>1, FS_CardinalityType
<1> QED
    BY <1>1, <1>2, <1>3, <1>4

LEMMA VersionTransitions ==
    ASSUME MethodInv, NEW s \in Sessions, Methods!Commit(s)
    PROVE  MethodInv'
<1>1. PICK q, v : q = request[s] /\ v = q.version
    OBVIOUS
<1>2. /\ v \in DOMAIN method /\ q.loaded \in Methods!MethodRows
      /\ q.loaded.creator = method[v].creator /\ MethodChange(q)
    BY <1>1 DEF MethodInv, MethodRequests, Methods!Commit, Methods!Serving, MethodHolds
<1>3. PICK after : after = Methods!Update(method[v], q.loaded, q.changed)
    OBVIOUS
<1>4. /\ method' = [w \in DOMAIN method |->
           IF w = v THEN after
           ELSE IF w = q.active THEN [method[w] EXCEPT !.status = "superseded"]
           ELSE method[w]]
      /\ contested' = IF method[v] = q.loaded THEN contested ELSE contested \union {v}
      /\ overlaps' = IF "supersedes" \in DOMAIN q.changed /\ Methods!ActiveVersions # q.actives
                     THEN overlaps + 1 ELSE overlaps
      /\ request' = [request EXCEPT ![s] = None]
    BY <1>1, <1>3 DEF Methods!Commit, Methods!Superseded, Methods!Done
<1>5. method \in Seq(Methods!MethodRows) /\ overlaps \in Nat
    BY DEF MethodInv, Methods!TypeOK
<1>6. Transitioned(q, method[v], after)
    BY <1>2, <1>3, <1>5, TransitionedRow
<1>7. \A w \in DOMAIN method :
        /\ method[w] \in Methods!MethodRows
        /\ method'[w] = IF w = v THEN after
                        ELSE IF w = q.active THEN [method[w] EXCEPT !.status = "superseded"]
                        ELSE method[w]
    BY <1>4, <1>5
<1>8. ASSUME NEW w \in DOMAIN method \ {v}
      PROVE  /\ method'[w] \in Methods!MethodRows
             /\ method'[w].creator = method[w].creator
             /\ method'[w].reviewer = method[w].reviewer
             /\ method'[w].approver = method[w].approver
             /\ method'[w].status = "active" => method[w].status = "active" /\ w # q.active
    <2>1. PICK row, now : row = method[w] /\ now = method'[w]
        OBVIOUS
    <2>2. row \in Methods!MethodRows
        BY <1>7, <2>1
    <2>3. CASE w = q.active
        <3>1. now = [row EXCEPT !.status = "superseded"]
            BY <1>7, <2>1, <2>3
        <3>2. /\ now \in Methods!MethodRows /\ now.status = "superseded"
              /\ now.creator = row.creator /\ now.reviewer = row.reviewer
              /\ now.approver = row.approver
            BY <2>2, <3>1 DEF Methods!MethodRows
        <3> QED
            BY <2>1, <3>2
    <2>4. CASE w # q.active
        BY <1>7, <2>4
    <2> QED
        BY <2>3, <2>4
<1>9. method'[v] = after
    BY <1>2, <1>7
<1>10. DOMAIN method' = DOMAIN method /\ method' \in Seq(Methods!MethodRows)
    <2>1. \A w \in DOMAIN method : method'[w] \in Methods!MethodRows
        BY <1>6, <1>8, <1>9 DEF Transitioned
    <2>2. DOMAIN method' = DOMAIN method /\ method' = [w \in DOMAIN method |-> method'[w]]
        BY <1>4
    <2> QED
        BY <1>5, <2>1, <2>2
<1>11. MethodRequests'
    <2>1. MethodGrows
        BY <1>6, <1>8, <1>9, <1>10 DEF MethodGrows, Transitioned
    <2> QED
        BY <1>4, <2>1, MethodRequestsKept DEF MethodInv
<1>12. Methods!ThreePeople'
    <2>1. /\ after.creator \notin {after.reviewer, after.approver}
          /\ after.approver # None /\ v \notin contested' => after.reviewer \notin {None, after.approver}
        <3>1. method[v].creator \notin {method[v].reviewer, method[v].approver}
            BY <1>2 DEF MethodInv, Methods!ThreePeople
        <3>2. v \notin contested' => method[v] = q.loaded /\ v \notin contested
            BY <1>4
        <3>3. v \notin contested /\ method[v].approver # None =>
                method[v].reviewer \notin {None, method[v].approver}
            BY <1>2 DEF MethodInv, Methods!ThreePeople
        <3> QED
            BY <1>6, <3>1, <3>2, <3>3 DEF Transitioned
    <2>2. ASSUME NEW w \in DOMAIN method', w # v
          PROVE  /\ method'[w].creator \notin {method'[w].reviewer, method'[w].approver}
                 /\ method'[w].approver # None /\ w \notin contested' =>
                      method'[w].reviewer \notin {None, method'[w].approver}
        <3>1. w \in DOMAIN method /\ (w \notin contested' => w \notin contested)
            BY <1>4, <1>10
        <3> QED
            BY <1>8, <2>2, <3>1 DEF MethodInv, Methods!ThreePeople
    <2> QED
        BY <1>9, <2>1, <2>2 DEF Methods!ThreePeople
<1>13. Methods!OneActive'
    <2> DEFINE before == Methods!ActiveVersions  now == Methods!ActiveVersions'
    <2>1. IsFiniteSet(before) /\ now \subseteq before \union {v}
        <3>1. before \subseteq 1 .. Len(method) /\ Len(method) \in Nat
            BY <1>5 DEF Methods!ActiveVersions
        <3>2. IsFiniteSet(1 .. Len(method))
            BY <3>1, FS_Interval
        <3> QED
            BY <3>1, <3>2, <1>8, <1>10, FS_Subset DEF Methods!ActiveVersions
    <2>2. \A w \in now \ {v} : w \in before /\ w # q.active
        BY <1>8, <1>10 DEF Methods!ActiveVersions
    <2>3. Methods!Cardinality(before) = Cardinality(before)
          /\ (Methods!Cardinality(Methods!ActiveVersions))' = Cardinality(now)
        BY DEF Methods!Cardinality, Cardinality
    <2>4. Cardinality(before) <= 1 + overlaps
        BY <2>3 DEF MethodInv, Methods!OneActive
    <2>5. Cardinality(now) <= 1 + overlaps'
        <3> HIDE DEF before, now
        <3>1. Cardinality(before) \in Nat /\ IsFiniteSet(before \union {v}) /\ IsFiniteSet(now)
              /\ Cardinality(now) \in Nat
            <4>1. IsFiniteSet(before \union {v})
                BY <2>1, FS_AddElement
            <4>2. IsFiniteSet(now)
                BY <2>1, <4>1, FS_Subset
            <4> QED
                BY <2>1, <4>1, <4>2, FS_CardinalityType
        <3>2. CASE "supersedes" \notin DOMAIN q.changed
            <4>1. v \in now => v \in before
                BY <1>2, <1>6, <1>9, <1>10, <3>2 DEF now, before, Methods!ActiveVersions, Transitioned
            <4>2. now \subseteq before
                BY <2>2, <4>1
            <4>3. Cardinality(now) <= Cardinality(before)
                BY <2>1, <4>2, FS_Subset
            <4> QED
                BY <1>4, <1>5, <2>4, <3>1, <3>2, <4>3
        <3>3. CASE "supersedes" \in DOMAIN q.changed /\ before # q.actives
            <4>1. overlaps' = overlaps + 1
                BY <1>4, <3>3 DEF before
            <4>2. Cardinality(before \union {v}) <= Cardinality(before) + 1
                BY <2>1, <3>1, FS_AddElement
            <4>3. Cardinality(now) <= Cardinality(before \union {v})
                BY <2>1, <3>1, FS_Subset
            <4>4. Cardinality(before \union {v}) \in Nat
                BY <3>1, FS_CardinalityType
            <4> QED
                BY <1>5, <2>4, <3>1, <4>1, <4>2, <4>3, <4>4
        <3>4. CASE "supersedes" \in DOMAIN q.changed /\ before = q.actives
            <4>1. q.active \in q.actives \/ (q.active = 0 /\ q.actives = {})
                BY <1>1, <1>2, <3>4 DEF MethodChange
            <4>2. overlaps' = overlaps
                BY <1>4, <3>4 DEF before
            <4>3. CASE q.active = v /\ v \in before
                <5>1. now \subseteq before
                    BY <2>2, <4>3
                <5>2. Cardinality(now) <= Cardinality(before)
                    BY <2>1, <5>1, FS_Subset
                <5> QED
                    BY <1>5, <2>4, <3>1, <4>2, <5>2
            <4>5. CASE q.active \in before /\ q.active # v
                <5>1. now \subseteq (before \ {q.active}) \union {v}
                    BY <2>2, <4>5
                <5>2. Cardinality(now) <= Cardinality(before)
                    BY <2>1, <4>5, <5>1, OneMoreActive
                <5> QED
                    BY <1>5, <2>4, <3>1, <4>2, <5>2
            <4>4. CASE before = {}
                <5>1. now \subseteq {v} /\ IsFiniteSet({v}) /\ Cardinality({v}) = 1
                    BY <2>1, <4>4, FS_Singleton
                <5>2. Cardinality(now) <= Cardinality({v})
                    BY <5>1, FS_Subset
                <5> QED
                    BY <1>5, <3>1, <4>2, <5>1, <5>2
            <4> QED
                BY <3>4, <4>1, <4>3, <4>4, <4>5
        <3> QED
            BY <3>2, <3>3, <3>4
    <2> QED
        BY <2>3, <2>5 DEF Methods!OneActive
<1>14. overlaps' \in Nat
    BY <1>4, <1>5
<1> QED
    BY <1>10, <1>11, <1>12, <1>13, <1>14 DEF MethodInv, Methods!TypeOK

LEMMA MethodNext ==
    ASSUME MethodInv, Methods!Next
    PROVE  MethodInv'
BY MethodReads, VersionCreated, VersionTransitions DEF Methods!Next

----------------------------------------------------------------------------
(* MethodologyPacks                                                         *)

PackHolds(q) ==
    /\ q.op = "transition" /\ q.pack \in PackIds /\ pack[q.pack] # None
    /\ \E p \in Principals : \/ q.changed = [status |-> "reviewed", reviewer |-> p]
                             \/ q.changed = [status |-> "approved", approver |-> p]
    /\ q.flushed \in BOOLEAN

PackRequests ==
    /\ DOMAIN request = Sessions
    /\ \A s \in Sessions : request[s] # None => PackHolds(request[s])

(* What is approved does not overlap, and what is about to be approved, and *)
(* was let through by the trigger, overlaps nothing that is.                *)
Apart ==
    collisions = 0 =>
      /\ \A j, k \in Packs!ApprovedPacks : j # k => ~Packs!Overlap(j, k)
      /\ \A s \in Sessions :
           request[s] # None /\ request[s].flushed /\ request[s].changed.status = "approved" =>
             \A j \in Packs!ApprovedPacks \ {request[s].pack} : ~Packs!Overlap(j, request[s].pack)

PackInv ==
    /\ Packs!TypeOK /\ DOMAIN pack = PackIds /\ collisions \in Nat
    /\ PackRequests /\ Apart

LEMMA OverlapBothWays ==
    ASSUME NEW j \in PackIds, NEW k \in PackIds, Packs!Overlap(j, k)
    PROVE  Packs!Overlap(k, j)
BY PackAssumption DEF PackAssumption, Packs!Overlap

LEMMA PackKeepsApart ==
    ASSUME PackInv
    PROVE  Packs!PeriodsDisjoint
<1> SUFFICES ASSUME collisions = 0, NEW k \in Packs!ApprovedPacks, NEW day \in From(k) .. To(k)
             PROVE  Packs!Covering(Owner(k), day) = {k}
    BY DEF Packs!PeriodsDisjoint
<1>1. k \in PackIds /\ day \in Int /\ From(k) <= day /\ day <= To(k)
    BY PackAssumption DEF PackAssumption, Packs!ApprovedPacks
<1>2. k \in Packs!Covering(Owner(k), day)
    BY <1>1 DEF Packs!Covering
<1>3. ASSUME NEW j \in Packs!Covering(Owner(k), day), j # k PROVE FALSE
    <2>1. /\ j \in Packs!ApprovedPacks /\ j \in PackIds /\ Owner(j) = Owner(k)
          /\ From(j) <= day /\ day <= To(j)
        BY DEF Packs!Covering, Packs!ApprovedPacks
    <2>2. Packs!Overlap(j, k)
        BY <1>1, <2>1, PackAssumption DEF PackAssumption, Packs!Overlap
    <2> QED
        BY <1>3, <2>1, <2>2 DEF PackInv, Apart
<1> QED
    BY <1>2, <1>3

LEMMA PackInit == Packs!Init => PackInv
BY DEF Packs!Init, Packs!InitRequests, PackInv, Packs!TypeOK, PackRequests, Apart,
       Packs!ApprovedPacks

LEMMA PackRequestsKept ==
    ASSUME PackRequests, NEW s \in Sessions, NEW r,
           \A k \in PackIds : pack[k] # None => pack'[k] # None,
           request' = [request EXCEPT ![s] = r], r = None \/ PackHolds(r)
    PROVE  PackRequests'
<1>1. \A q : PackHolds(q) => PackHolds(q)'
    BY DEF PackHolds
<1>2. DOMAIN request' = Sessions /\ request'[s] = r
      /\ \A t \in Sessions \ {s} : request'[t] = request[t]
    BY RequestChanges DEF PackRequests
<1>3. ASSUME NEW t \in Sessions, request'[t] # None PROVE PackHolds(request[t])'
    <2>1. PICK q : q = request'[t]
        OBVIOUS
    <2>2. PackHolds(q)'
        BY <1>1, <1>2, <1>3, <2>1 DEF PackRequests
    <2> QED
        BY <2>1, <2>2 DEF PackHolds
<1> QED
    BY <1>2, <1>3 DEF PackRequests

(* A request that reads on stays apart unless it has just been let through. *)
LEMMA PackReadKeeps ==
    ASSUME PackInv, UNCHANGED packVars, NEW s \in Sessions, NEW r,
           request' = [request EXCEPT ![s] = r],
           \/ r = None
           \/ /\ PackHolds(r)
              /\ r.flushed /\ r.changed.status = "approved" =>
                   \A j \in Packs!ApprovedPacks \ {r.pack} : ~Packs!Overlap(j, r.pack)
    PROVE  PackInv'
<1>1. PackRequests'
    BY PackRequestsKept DEF PackInv, packVars
<1>2. Packs!ApprovedPacks' = Packs!ApprovedPacks /\ collisions' = collisions
    BY DEF packVars, Packs!ApprovedPacks
<1>3. request'[s] = r /\ \A t \in Sessions \ {s} : request'[t] = request[t]
    BY RequestChanges DEF PackInv, PackRequests
<1>4. Apart'
    BY <1>2, <1>3 DEF PackInv, Apart, Packs!Overlap
<1> QED
    BY <1>1, <1>4 DEF PackInv, packVars, Packs!TypeOK

LEMMA PackSame == PackInv /\ UNCHANGED <<requests, packVars>> => PackInv'
<1> SUFFICES ASSUME PackInv, UNCHANGED <<requests, packVars>> PROVE PackInv'
    OBVIOUS
<1>1. PackRequests'
    <2>1. \A q : PackHolds(q) => PackHolds(q)'
        BY DEF PackHolds, packVars
    <2>2. ASSUME NEW t \in Sessions, request'[t] # None PROVE PackHolds(request[t])'
        <3>1. PICK q : q = request'[t]
            OBVIOUS
        <3>2. PackHolds(q)'
            BY <2>1, <2>2, <3>1 DEF PackInv, PackRequests, requests
        <3> QED
            BY <3>1, <3>2 DEF PackHolds
    <2> QED
        BY <2>2 DEF PackInv, PackRequests, requests
<1>2. Apart'
    BY DEF PackInv, Apart, packVars, requests, Packs!ApprovedPacks, Packs!Overlap
<1> QED
    BY <1>1, <1>2 DEF PackInv, packVars, Packs!TypeOK

LEMMA PackReads ==
    ASSUME PackInv, NEW s \in Sessions,
           \/ \E k \in PackIds, p \in Principals : Packs!Review(s, k, p) \/ Packs!Approve(s, k, p)
           \/ Packs!Flush(s) \/ Packs!Abandon(s)
    PROVE  PackInv'
<1> USE DEF Packs!Receive, Packs!rows, packVars
<1>1. ASSUME NEW k \in PackIds, NEW p \in Principals,
             Packs!Review(s, k, p) \/ Packs!Approve(s, k, p)
      PROVE  PackInv'
    <2>1. PICK changed : /\ pack[k] # None /\ Packs!Load(s, k, changed)
                         /\ \/ changed = [status |-> "reviewed", reviewer |-> p]
                            \/ changed = [status |-> "approved", approver |-> p]
        BY <1>1 DEF Packs!Review, Packs!Approve
    <2>2. PICK r : r = [op |-> "transition", pack |-> k, loaded |-> pack[k],
                        changed |-> changed, flushed |-> FALSE]
        OBVIOUS
    <2>3. PackHolds(r) /\ ~r.flushed
        BY <2>1, <2>2 DEF PackHolds
    <2> QED
        BY <2>1, <2>2, <2>3, PackReadKeeps DEF Packs!Load
<1>2. ASSUME Packs!Flush(s) PROVE PackInv'
    <2>1. PICK q : q = request[s]
        OBVIOUS
    <2>2. PICK r : r = [q EXCEPT !.flushed = TRUE]
        OBVIOUS
    <2>3. q # None /\ PackHolds(q)
        BY <1>2, <2>1 DEF Packs!Flush, Packs!Serving, PackInv, PackRequests
    <2>4. /\ q.changed.status = "approved" =>
               \A j \in Packs!ApprovedPacks \ {q.pack} : ~Packs!Overlap(j, q.pack)
          /\ request' = [request EXCEPT ![s] = r] /\ UNCHANGED packVars
        BY <1>2, <2>1, <2>2 DEF Packs!Flush, Packs!Guard, Packs!Continue
    <2>5. r.op = q.op /\ r.pack = q.pack /\ r.changed = q.changed /\ r.flushed \in BOOLEAN
        BY <2>2, <2>3 DEF PackHolds
    <2>6. PackHolds(r)
        BY <2>3, <2>5 DEF PackHolds
    <2> QED
        BY <2>4, <2>5, <2>6, PackReadKeeps
<1>3. ASSUME Packs!Abandon(s) PROVE PackInv'
    BY <1>3, PackReadKeeps DEF Packs!Abandon, Packs!Fail, Packs!Done
<1> QED
    BY <1>1, <1>2, <1>3

LEMMA PackDrafted ==
    ASSUME PackInv, NEW k \in PackIds, NEW p \in Principals, Packs!Draft(k, p)
    PROVE  PackInv'
<1>1. PICK row : row = [status |-> "draft", creator |-> p, reviewer |-> None, approver |-> None]
    OBVIOUS
<1>2. /\ pack[k] = None /\ pack' = [pack EXCEPT ![k] = row]
      /\ UNCHANGED <<request, collisions>>
    BY <1>1 DEF Packs!Draft, Packs!ServeAtOnce
<1>3. row \in Packs!PackRows /\ row # None
    BY <1>1, NoneAssumption DEF NoneAssumption, Packs!PackRows
<1>4. /\ DOMAIN pack' = PackIds /\ pack'[k] = row
      /\ \A j \in PackIds \ {k} : pack'[j] = pack[j]
    BY <1>2 DEF PackInv
<1>5. Packs!TypeOK'
    BY <1>3, <1>4 DEF PackInv, Packs!TypeOK
<1>6. PackRequests'
    <2>1. \A q : PackHolds(q) => PackHolds(q)'
        BY <1>3, <1>4 DEF PackHolds
    <2>2. ASSUME NEW t \in Sessions, request'[t] # None PROVE PackHolds(request[t])'
        <3>1. PICK q : q = request'[t]
            OBVIOUS
        <3>2. PackHolds(q)'
            BY <1>2, <2>1, <2>2, <3>1 DEF PackInv, PackRequests
        <3> QED
            BY <3>1, <3>2 DEF PackHolds
    <2> QED
        BY <1>2, <2>2 DEF PackInv, PackRequests
<1>7. Packs!ApprovedPacks' = Packs!ApprovedPacks
    BY <1>1, <1>2, <1>4 DEF Packs!ApprovedPacks
<1>8. Apart'
    BY <1>2, <1>7 DEF PackInv, Apart, Packs!Overlap
<1> QED
    BY <1>2, <1>4, <1>5, <1>6, <1>8 DEF PackInv

LEMMA PackCommits ==
    ASSUME PackInv, NEW s \in Sessions, Packs!Commit(s)
    PROVE  PackInv'
<1>1. PICK q, k : q = request[s] /\ k = q.pack
    OBVIOUS
<1>2. q # None /\ q.flushed /\ PackHolds(q)
    BY <1>1 DEF Packs!Commit, Packs!Serving, PackInv, PackRequests
<1>3. PICK after : after = Packs!Update(pack[k], q.loaded, q.changed)
    OBVIOUS
<1>4. /\ pack' = [pack EXCEPT ![k] = after]
      /\ collisions' = IF q.changed.status = "approved" /\ Packs!Colliding(s, k)
                       THEN collisions + 1 ELSE collisions
      /\ request' = [request EXCEPT ![s] = None]
    BY <1>1, <1>3 DEF Packs!Commit, Packs!Done
<1>5. k \in PackIds /\ pack[k] # None /\ pack[k] \in Packs!PackRows
    BY <1>1, <1>2 DEF PackHolds, PackInv, Packs!TypeOK
<1>6. after \in Packs!PackRows /\ after.status \in {pack[k].status, q.changed.status}
    <2>1. PICK row, loaded, changed : row = pack[k] /\ loaded = q.loaded /\ changed = q.changed
        OBVIOUS
    <2>2. PICK p \in Principals : \/ changed = [status |-> "reviewed", reviewer |-> p]
                                  \/ changed = [status |-> "approved", approver |-> p]
        BY <1>2, <2>1 DEF PackHolds
    <2>3. after = Packs!Update(row, loaded, changed) /\ row \in Packs!PackRows
        BY <1>3, <1>5, <2>1
    <2>4. CASE changed = [status |-> "reviewed", reviewer |-> p]
        BY <2>1, <2>3, <2>4 DEF Packs!Update, Packs!PackRows
    <2>5. CASE changed = [status |-> "approved", approver |-> p]
        BY <2>1, <2>3, <2>5 DEF Packs!Update, Packs!PackRows
    <2> QED
        BY <2>2, <2>4, <2>5
<1>7. after # None
    BY <1>6, NoneAssumption DEF NoneAssumption
<1>8. /\ DOMAIN pack' = PackIds /\ pack'[k] = after
      /\ \A j \in PackIds \ {k} : pack'[j] = pack[j]
    BY <1>4, <1>5 DEF PackInv
<1>9. Packs!TypeOK'
    BY <1>6, <1>8 DEF PackInv, Packs!TypeOK
<1>10. PackRequests'
    BY <1>4, <1>7, <1>8, PackRequestsKept DEF PackInv
<1>11. ASSUME NEW j \in Packs!ApprovedPacks', j \notin Packs!ApprovedPacks
       PROVE  j = k /\ q.changed.status = "approved"
    BY <1>5, <1>6, <1>8, <1>11 DEF Packs!ApprovedPacks
<1>12. Packs!ApprovedPacks' \subseteq PackIds /\ collisions' \in Nat
       /\ (collisions' = 0 => collisions = 0)
    BY <1>4 DEF Packs!ApprovedPacks, PackInv
<1>13. ASSUME collisions' = 0, NEW i \in Packs!ApprovedPacks', NEW j \in Packs!ApprovedPacks', i # j
       PROVE  ~Packs!Overlap(i, j)
    <2>1. ASSUME NEW l \in PackIds, l \in Packs!ApprovedPacks, l # k, q.changed.status = "approved"
          PROVE  ~Packs!Overlap(l, k) /\ ~Packs!Overlap(k, l)
        <3>1. ~Packs!Overlap(l, k)
            BY <1>1, <1>2, <1>12, <1>13, <2>1 DEF PackInv, Apart
        <3> QED
            BY <1>5, <2>1, <3>1, OverlapBothWays
    <2>2. CASE i \in Packs!ApprovedPacks /\ j \in Packs!ApprovedPacks
        BY <1>12, <1>13, <2>2 DEF PackInv, Apart
    <2>3. CASE i \notin Packs!ApprovedPacks
        BY <1>11, <1>12, <1>13, <2>1, <2>3
    <2>4. CASE j \notin Packs!ApprovedPacks
        BY <1>11, <1>12, <1>13, <2>1, <2>4
    <2> QED
        BY <2>2, <2>3, <2>4
<1>14. ASSUME collisions' = 0, NEW t \in Sessions, request'[t] # None, request'[t].flushed,
              request'[t].changed.status = "approved",
              NEW j \in Packs!ApprovedPacks', j # request'[t].pack
       PROVE  ~Packs!Overlap(j, request'[t].pack)
    <2>1. t # s /\ request'[t] = request[t]
        BY <1>4, <1>14, RequestChanges DEF PackInv, PackRequests
    <2>2. PICK p : p = request[t].pack
        OBVIOUS
    <2>3. p \in PackIds /\ request[t].op = "transition"
        BY <1>14, <2>1, <2>2 DEF PackInv, PackRequests, PackHolds
    <2>4. CASE j \in Packs!ApprovedPacks
        BY <1>12, <1>14, <2>1, <2>4 DEF PackInv, Apart
    <2>5. CASE j \notin Packs!ApprovedPacks
        <3>1. j = k /\ q.changed.status = "approved" /\ ~Packs!Colliding(s, k)
            BY <1>4, <1>11, <1>14, <2>5 DEF PackInv
        <3>2. ~Packs!Overlap(p, k)
            BY <1>14, <2>1, <2>2, <2>3, <3>1 DEF Packs!Colliding, Packs!Serving
        <3> QED
            BY <1>5, <2>1, <2>2, <2>3, <3>1, <3>2, OverlapBothWays
    <2> QED
        BY <2>4, <2>5
<1>15. Apart'
    <2>1. \A j, l : Packs!Overlap(j, l)' <=> Packs!Overlap(j, l)
        BY DEF Packs!Overlap
    <2> QED
        BY <1>13, <1>14, <2>1 DEF Apart
<1> QED
    BY <1>8, <1>9, <1>10, <1>12, <1>15 DEF PackInv

LEMMA PackNext ==
    ASSUME PackInv, Packs!Next
    PROVE  PackInv'
BY PackDrafted, PackReads, PackCommits DEF Packs!Next

----------------------------------------------------------------------------
(* FactorSets                                                               *)

(* The sets in an order in which each leads to an earlier one               *)
Order(f) ==
    /\ f \in [DOMAIN sets -> Nat]
    /\ \A m, n \in DOMAIN sets : f[m] = f[n] => m = n
    /\ \A n \in DOMAIN sets : f[n] < Len(sets)
    /\ \A n \in DOMAIN sets : sets[n].by # 0 => f[sets[n].by] < f[n]

(* What is in force leads nowhere, what is superseded leads somewhere, and  *)
(* the way ends.                                                            *)
SetLinks ==
    /\ \A n \in DOMAIN sets : sets[n].by # 0 =>
         sets[n].by \in DOMAIN sets /\ sets[sets[n].by].status # "draft"
    /\ crossings = 0 =>
         /\ \A n \in DOMAIN sets : sets[n].status = "superseded" <=> sets[n].by # 0
         /\ \E f : Order(f)

Step(n) == IF sets[n].by = 0 THEN n ELSE sets[n].by

(* The way from n, of m steps                                               *)
Way(n, m, g) == g = [k \in 0 .. m |-> IF k = 0 THEN n ELSE Step(g[k - 1])]

LEMMA WayThere ==
    ASSUME NEW n, NEW m \in Nat
    PROVE  \E g : Way(n, m, g)
<1> DEFINE S == {k \in Nat : \E g : Way(n, k, g)}
<1>1. 0 \in S
    <2>1. PICK g : g = [k \in 0 .. 0 |-> n]
        OBVIOUS
    <2>2. Way(n, 0, g)
        BY <2>1 DEF Way
    <2> QED
        BY <2>2
<1>2. ASSUME NEW k \in Nat, k \in S PROVE k + 1 \in S
    <2>1. PICK g : Way(n, k, g)
        BY <1>2
    <2>2. PICK h : h = [i \in 0 .. k + 1 |-> IF i = k + 1 THEN Step(g[k]) ELSE g[i]]
        OBVIOUS
    <2>3. ASSUME NEW i \in 0 .. k + 1
          PROVE  h[i] = IF i = 0 THEN n ELSE Step(h[i - 1])
        <3>1. CASE i = k + 1
            BY <2>2, <3>1
        <3>2. CASE i # k + 1
            <4>1. i \in 0 .. k /\ h[i] = g[i] /\ g[i] = IF i = 0 THEN n ELSE Step(g[i - 1])
                BY <2>1, <2>2, <3>2 DEF Way
            <4>2. i # 0 => i - 1 \in 0 .. k + 1 /\ i - 1 # k + 1 /\ h[i - 1] = g[i - 1]
                BY <2>2, <4>1
            <4> QED
                BY <4>1, <4>2
        <3> QED
            BY <3>1, <3>2
    <2>4. Way(n, k + 1, h)
        BY <2>2, <2>3 DEF Way
    <2> QED
        BY <2>4
<1> HIDE DEF S
<1>3. Nat \subseteq S
    BY <1>1, <1>2, NaturalInduction
<1> QED
    BY <1>3 DEF S

LEMMA SuccessorAfter ==
    ASSUME NEW n, Len(sets) \in Nat
    PROVE  \E g : Way(n, Len(sets), g) /\ Factors!Successor(n) = g[Len(sets)]
<1>1. PICK m \in Nat : m = Len(sets)
    OBVIOUS
<1>2. PICK h : Way(n, m, h)
    BY WayThere
<1>3. Factors!Successor(n) = (CHOOSE g : Way(n, m, g))[m]
    BY <1>1 DEF Factors!Successor, Way, Step
<1>4. Way(n, m, CHOOSE g : Way(n, m, g))
    BY <1>2
<1> QED
    BY <1>1, <1>3, <1>4

(* Each step of the way comes earlier, so that it ends in time.             *)
LEMMA WayEnds ==
    ASSUME Len(sets) \in Nat, DOMAIN sets = 1 .. Len(sets), SetLinks, crossings = 0,
           NEW n \in DOMAIN sets, sets[n].status # "draft", NEW g, Way(n, Len(sets), g)
    PROVE  /\ g[Len(sets)] \in DOMAIN sets /\ sets[g[Len(sets)]].status # "draft"
           /\ sets[g[Len(sets)]].by = 0
<1>1. PICK f : Order(f)
    BY DEF SetLinks
<1> DEFINE good(k) == /\ g[k] \in DOMAIN sets /\ sets[g[k]].status # "draft"
                      /\ sets[g[k]].by = 0 \/ f[g[k]] < Len(sets) - k
           S == {k \in Nat : k <= Len(sets) => good(k)}
<1>2. 0 \in S
    <2>1. g[0] = n
        BY DEF Way
    <2> QED
        BY <1>1, <2>1 DEF Order
<1>3. ASSUME NEW k \in Nat, k \in S PROVE k + 1 \in S
    <2> SUFFICES ASSUME k + 1 <= Len(sets) PROVE good(k + 1)
        OBVIOUS
    <2>1. good(k)
        BY <1>3
    <2>2. g[k + 1] = Step(g[k])
        BY DEF Way
    <2>3. PICK x : x = g[k]
        OBVIOUS
    <2>4. CASE sets[x].by = 0
        BY <2>1, <2>2, <2>3, <2>4 DEF Step
    <2>5. CASE sets[x].by # 0
        <3>1. PICK y : y = sets[x].by
            OBVIOUS
        <3>2. x \in DOMAIN sets /\ y \in DOMAIN sets /\ sets[y].status # "draft"
            BY <2>1, <2>3, <2>5, <3>1 DEF SetLinks
        <3>3. f[y] < f[x] /\ f[x] < Len(sets) - k /\ f[x] \in Nat /\ f[y] \in Nat
            BY <1>1, <2>1, <2>3, <2>5, <3>1, <3>2 DEF Order
        <3>4. f[y] < Len(sets) - (k + 1)
            BY <3>3
        <3> QED
            BY <2>2, <2>3, <2>5, <3>1, <3>2, <3>4 DEF Step
    <2> QED
        BY <2>4, <2>5
<1> HIDE DEF S
<1>4. Nat \subseteq S
    BY <1>2, <1>3, NaturalInduction
<1>5. good(Len(sets))
    BY <1>4 DEF S
<1>6. g[Len(sets)] \in DOMAIN sets => f[g[Len(sets)]] \in Nat
    BY <1>1 DEF Order
<1> QED
    BY <1>5, <1>6

(* What a request in flight has loaded, and what of it stays true.          *)
FactorHolds(q) ==
    /\ q.op \in {"import", "approve", "supersede", "resolve"}
    /\ q.op = "import" =>
         q.source \in Sources /\ q.principal \in Importers /\ q.existing \subseteq DOMAIN sets
    /\ q.op = "approve" =>
         /\ q.set \in DOMAIN sets /\ q.loaded \in Factors!SetRows /\ q.loaded.status = "draft"
         /\ \E p \in Importers : q.changed = [status |-> "approved", approver |-> p]
    /\ q.op = "supersede" =>
         /\ q.set \in DOMAIN sets /\ sets[q.set].status # "draft"
         /\ q.loaded \in Factors!SetRows /\ q.loaded.status = "approved"
         /\ crossings = 0 => q.loaded.by = 0
         /\ \E r \in DOMAIN sets \ {q.set} :
              q.changed = [status |-> "superseded", by |-> r] /\ sets[r].status # "draft"
    /\ q.op = "resolve" =>
         q.set = 0 \/ (q.set \in DOMAIN sets /\ sets[q.set].status # "draft")

FactorRequests ==
    /\ DOMAIN request = Sessions
    /\ \A s \in Sessions : request[s] # None => FactorHolds(request[s])

Resolved == \A n \in DOMAIN records : records[n] # 0 => sets[records[n]].status # "draft"

FactorInv ==
    /\ Factors!TypeOK /\ crossings \in Nat /\ SetLinks /\ Resolved /\ FactorRequests

(* A set stays, and is no draft again.                                      *)
FactorGrows ==
    /\ DOMAIN sets \subseteq DOMAIN sets'
    /\ \A n \in DOMAIN sets : sets[n].status # "draft" => sets'[n].status # "draft"
    /\ crossings' = 0 => crossings = 0

LEMMA FactorKeepsEnds ==
    ASSUME FactorInv
    PROVE  Factors!SupersessionEnds
<1> SUFFICES ASSUME crossings = 0, NEW n \in DOMAIN sets, sets[n].status # "draft"
             PROVE  sets[Factors!Successor(n)].status = "approved"
    <2>1. \A r \in DOMAIN records : records[r] # 0 =>
            records[r] \in DOMAIN sets /\ sets[records[r]].status # "draft"
        BY DEF FactorInv, Factors!TypeOK, Resolved
    <2> QED
        BY <2>1 DEF Factors!SupersessionEnds
<1>1. sets \in Seq(Factors!SetRows)
    BY DEF FactorInv, Factors!TypeOK
<1>2. Len(sets) \in Nat /\ DOMAIN sets = 1 .. Len(sets)
    BY <1>1
<1>3. PICK g : Way(n, Len(sets), g) /\ Factors!Successor(n) = g[Len(sets)]
    BY <1>2, SuccessorAfter
<1>4. /\ g[Len(sets)] \in DOMAIN sets /\ sets[g[Len(sets)]].status # "draft"
      /\ sets[g[Len(sets)]].by = 0
    BY <1>2, <1>3, WayEnds DEF FactorInv
<1>5. sets[g[Len(sets)]].status \in {"draft", "approved", "superseded"}
    <2>1. PICK x : x = g[Len(sets)]
        OBVIOUS
    <2>2. x \in DOMAIN sets
        BY <1>4, <2>1
    <2>3. sets[x] \in Factors!SetRows
        BY <1>1, <2>2
    <2> QED
        BY <2>1, <2>3 DEF Factors!SetRows
<1>6. sets[g[Len(sets)]].status # "superseded"
    BY <1>4 DEF FactorInv, SetLinks
<1> QED
    BY <1>3, <1>4, <1>5, <1>6

LEMMA FactorInit == Factors!Init => FactorInv
<1> SUFFICES ASSUME Factors!Init PROVE FactorInv
    OBVIOUS
<1> USE DEF Factors!Init, Factors!InitRequests
<1>1. Factors!TypeOK /\ Resolved /\ FactorRequests
    BY DEF Factors!TypeOK, Resolved, FactorRequests
<1>2. Order(<<>>)
    BY DEF Order
<1>3. SetLinks
    BY <1>2 DEF SetLinks
<1> QED
    BY <1>1, <1>3 DEF FactorInv

LEMMA FactorRequestsKept ==
    ASSUME FactorRequests, FactorGrows, NEW s \in Sessions, NEW r,
           request' = [request EXCEPT ![s] = r], r = None \/ FactorHolds(r)
    PROVE  FactorRequests'
<1>1. \A q : FactorHolds(q) => FactorHolds(q)'
    BY DEF FactorHolds, FactorGrows
<1>2. DOMAIN request' = Sessions /\ request'[s] = r
      /\ \A t \in Sessions \ {s} : request'[t] = request[t]
    BY RequestChanges DEF FactorRequests
<1>3. ASSUME NEW t \in Sessions, request'[t] # None PROVE FactorHolds(request[t])'
    <2>1. PICK q : q = request'[t]
        OBVIOUS
    <2>2. FactorHolds(q)'
        BY <1>1, <1>2, <1>3, <2>1 DEF FactorRequests
    <2> QED
        BY <2>1, <2>2 DEF FactorHolds
<1> QED
    BY <1>2, <1>3 DEF FactorRequests

LEMMA FactorStays ==
    ASSUME FactorInv, UNCHANGED <<sets, import_jobs, crossings>>
    PROVE  FactorGrows /\ SetLinks'
<1>1. FactorGrows
    BY DEF FactorGrows
<1>2. \A f : Order(f) => Order(f)'
    BY DEF Order
<1>3. SetLinks'
    BY <1>2 DEF FactorInv, SetLinks
<1> QED
    BY <1>1, <1>3

LEMMA FactorReadKeeps ==
    ASSUME FactorInv, UNCHANGED setVars, NEW s \in Sessions, NEW r,
           request' = [request EXCEPT ![s] = r], r = None \/ FactorHolds(r)
    PROVE  FactorInv'
<1>1. FactorGrows /\ SetLinks'
    BY FactorStays DEF setVars
<1>2. FactorRequests'
    BY <1>1, FactorRequestsKept DEF FactorInv
<1> QED
    BY <1>1, <1>2 DEF FactorInv, setVars, Factors!TypeOK, Resolved

LEMMA FactorSame == FactorInv /\ UNCHANGED <<requests, setVars>> => FactorInv'
<1> SUFFICES ASSUME FactorInv, UNCHANGED <<requests, setVars>> PROVE FactorInv'
    OBVIOUS
<1>1. FactorGrows /\ SetLinks'
    BY FactorStays DEF setVars
<1>2. FactorRequests'
    <2>1. \A q : FactorHolds(q) => FactorHolds(q)'
        BY <1>1 DEF FactorHolds, FactorGrows
    <2>2. ASSUME NEW t \in Sessions, request'[t] # None PROVE FactorHolds(request[t])'
        <3>1. PICK q : q = request'[t]
            OBVIOUS
        <3>2. FactorHolds(q)'
            BY <2>1, <2>2, <3>1 DEF FactorInv, FactorRequests, requests
        <3> QED
            BY <3>1, <3>2 DEF FactorHolds
    <2> QED
        BY <2>2 DEF FactorInv, FactorRequests, requests
<1> QED
    BY <1>1, <1>2 DEF FactorInv, setVars, Factors!TypeOK, Resolved

LEMMA FactorReads ==
    ASSUME FactorInv, NEW s \in Sessions,
           \/ \E source \in Sources, p \in Importers : Factors!LoadImport(s, source, p)
           \/ \E n \in DOMAIN sets :
                 \/ \E p \in Importers : Factors!LoadApprove(s, n, p)
                 \/ \E r \in DOMAIN sets : Factors!LoadSupersede(s, n, r)
           \/ Factors!LoadResolve(s) \/ Factors!Abandon(s)
    PROVE  FactorInv'
<1> USE DEF Factors!Receive, Factors!rows, setVars
<1>1. ASSUME NEW source \in Sources, NEW p \in Importers, Factors!LoadImport(s, source, p)
      PROVE  FactorInv'
    <2>1. PICK r : r = [op |-> "import", source |-> source, principal |-> p,
                        existing |-> Factors!SetsOf(source)]
        OBVIOUS
    <2>2. FactorHolds(r)
        BY <2>1 DEF FactorHolds, Factors!SetsOf
    <2> QED
        BY <1>1, <2>1, <2>2, FactorReadKeeps DEF Factors!LoadImport
<1>2. \A n \in DOMAIN sets : sets[n] \in Factors!SetRows
    BY DEF FactorInv, Factors!TypeOK
<1>3. ASSUME NEW n \in DOMAIN sets, NEW p \in Importers, Factors!LoadApprove(s, n, p)
      PROVE  FactorInv'
    <2>1. PICK r : r = [op |-> "approve", set |-> n, loaded |-> sets[n],
                        changed |-> [status |-> "approved", approver |-> p]]
        OBVIOUS
    <2>2. FactorHolds(r)
        BY <1>2, <1>3, <2>1 DEF FactorHolds, Factors!LoadApprove
    <2> QED
        BY <1>3, <2>1, <2>2, FactorReadKeeps DEF Factors!LoadApprove
<1>4. ASSUME NEW n \in DOMAIN sets, NEW m \in DOMAIN sets, Factors!LoadSupersede(s, n, m)
      PROVE  FactorInv'
    <2>1. PICK r : r = [op |-> "supersede", set |-> n, loaded |-> sets[n],
                        changed |-> [status |-> "superseded", by |-> m]]
        OBVIOUS
    <2>2. /\ n # m /\ sets[n].status = "approved" /\ sets[m].status = "approved"
          /\ crossings = 0 => sets[n].by = 0
        BY <1>2, <1>4 DEF Factors!LoadSupersede, Factors!Replaces, FactorInv, SetLinks
    <2>3. FactorHolds(r)
        BY <1>2, <2>1, <2>2 DEF FactorHolds
    <2> QED
        BY <1>4, <2>1, <2>3, FactorReadKeeps DEF Factors!LoadSupersede
<1>5. ASSUME Factors!LoadResolve(s) PROVE FactorInv'
    <2>1. PICK n \in Factors!Approved \union {0} :
            request' = [request EXCEPT ![s] = [op |-> "resolve", set |-> n]]
        BY <1>5 DEF Factors!LoadResolve
    <2>2. PICK r : r = [op |-> "resolve", set |-> n]
        OBVIOUS
    <2>3. FactorHolds(r)
        BY <2>1, <2>2 DEF FactorHolds, Factors!Approved
    <2> QED
        BY <1>5, <2>1, <2>2, <2>3, FactorReadKeeps DEF Factors!LoadResolve
<1>6. ASSUME Factors!Abandon(s) PROVE FactorInv'
    BY <1>6, FactorReadKeeps DEF Factors!Abandon, Factors!Fail, Factors!Done
<1> QED
    BY <1>1, <1>3, <1>4, <1>5, <1>6

(* The jobs and resolutions that are recorded, and the set an import adds.  *)
LEMMA FactorsImported ==
    ASSUME FactorInv, NEW s \in Sessions,
           \/ Factors!CommitDuplicate(s) \/ Factors!CommitFaulty(s)
           \/ Factors!CommitImport(s) \/ Factors!CommitResolve(s)
    PROVE  FactorInv'
<1>1. PICK q : q = request[s]
    OBVIOUS
<1>2. /\ sets \in Seq(Factors!SetRows) /\ import_jobs \in Seq(Factors!JobRows)
      /\ records \in Seq(Nat)
    BY DEF FactorInv, Factors!TypeOK
<1>3. ASSUME Factors!CommitDuplicate(s) \/ Factors!CommitFaulty(s) PROVE FactorInv'
    <2>1. /\ q.source \in Sources /\ q.existing \subseteq DOMAIN sets
          /\ request' = [request EXCEPT ![s] = None]
          /\ UNCHANGED <<sets, records, crossings>>
        BY <1>1, <1>3 DEF FactorInv, FactorRequests, FactorHolds, Factors!CommitDuplicate,
                          Factors!CommitFaulty, Factors!Serving, Factors!Done
    <2>2. PICK x : /\ x \in Factors!JobRows /\ x.set \in 0 .. Len(sets)
                   /\ import_jobs' = Append(import_jobs, x)
        <3>1. CASE Factors!CommitDuplicate(s)
            <4>1. PICK n \in q.existing :
                    import_jobs' = Append(import_jobs, Factors!Job("duplicate", q.source, n))
                BY <1>1, <3>1 DEF Factors!CommitDuplicate
            <4>2. n \in DOMAIN sets /\ n \in 0 .. Len(sets)
                BY <1>2, <2>1, <4>1
            <4> QED
                BY <2>1, <4>1, <4>2 DEF Factors!Job, Factors!JobRows
        <3>2. CASE Factors!CommitFaulty(s)
            <4>1. import_jobs' = Append(import_jobs, Factors!Job("failed", q.source, 0))
                BY <1>1, <3>2 DEF Factors!CommitFaulty
            <4>2. 0 \in 0 .. Len(sets)
                BY <1>2
            <4> QED
                BY <2>1, <4>1, <4>2 DEF Factors!Job, Factors!JobRows
        <3> QED
            BY <1>3, <3>1, <3>2
    <2>3. /\ import_jobs' \in Seq(Factors!JobRows)
          /\ \A j \in DOMAIN import_jobs' : import_jobs'[j].set \in 0 .. Len(sets)
        BY <1>2, <2>2 DEF FactorInv, Factors!TypeOK
    <2>4. FactorGrows /\ SetLinks'
        <3>1. FactorGrows
            BY <2>1 DEF FactorGrows
        <3>2. \A f : Order(f) => Order(f)'
            BY <2>1 DEF Order
        <3> QED
            BY <2>1, <3>1, <3>2 DEF FactorInv, SetLinks
    <2>5. FactorRequests'
        BY <2>1, <2>4, FactorRequestsKept DEF FactorInv
    <2> QED
        BY <2>1, <2>3, <2>4, <2>5 DEF FactorInv, Factors!TypeOK, Resolved
<1>4. ASSUME Factors!CommitResolve(s) PROVE FactorInv'
    <2>1. /\ q.set = 0 \/ (q.set \in DOMAIN sets /\ sets[q.set].status # "draft")
          /\ records' = Append(records, q.set)
          /\ request' = [request EXCEPT ![s] = None]
          /\ UNCHANGED <<sets, import_jobs, crossings>>
        BY <1>1, <1>4 DEF FactorInv, FactorRequests, FactorHolds, Factors!CommitResolve,
                          Factors!Serving, Factors!Done
    <2>2. q.set \in Nat /\ q.set \in 0 .. Len(sets)
        BY <1>2, <2>1
    <2>3. /\ records' \in Seq(Nat)
          /\ \A r \in DOMAIN records' :
               /\ records'[r] \in 0 .. Len(sets)
               /\ records'[r] # 0 => sets[records'[r]].status # "draft"
        BY <1>2, <2>1, <2>2 DEF FactorInv, Factors!TypeOK, Resolved
    <2>4. FactorGrows /\ SetLinks'
        BY <2>1, FactorStays
    <2>5. FactorRequests'
        BY <2>1, <2>4, FactorRequestsKept DEF FactorInv
    <2> QED
        BY <2>1, <2>3, <2>4, <2>5 DEF FactorInv, Factors!TypeOK, Resolved
<1>5. ASSUME Factors!CommitImport(s) PROVE FactorInv'
    <2>1. PICK row, x :
            /\ row = [source |-> q.source, importer |-> q.principal, status |-> "draft",
                      approver |-> None, by |-> 0]
            /\ x = Factors!Job("completed", q.source, Len(sets) + 1)
        OBVIOUS
    <2>2. /\ q.source \in Sources /\ q.principal \in Importers
          /\ sets' = Append(sets, row) /\ import_jobs' = Append(import_jobs, x)
          /\ request' = [request EXCEPT ![s] = None]
          /\ UNCHANGED <<records, crossings>>
        BY <1>1, <1>5, <2>1 DEF FactorInv, FactorRequests, FactorHolds, Factors!CommitImport,
                                Factors!Serving, Factors!Done
    <2>3. PICK last \in Nat : last = Len(sets) + 1
        BY <1>2
    <2>4. /\ row \in Factors!SetRows /\ row.by = 0 /\ row.status = "draft"
          /\ x \in Factors!JobRows /\ x.set = last
        BY <1>2, <2>1, <2>2, <2>3 DEF Factors!SetRows, Factors!Job, Factors!JobRows
    <2>5. /\ sets' \in Seq(Factors!SetRows) /\ Len(sets') = last
          /\ DOMAIN sets' = DOMAIN sets \union {last} /\ last \notin DOMAIN sets
          /\ sets'[last] = row /\ \A n \in DOMAIN sets : sets'[n] = sets[n]
        BY <1>2, <2>2, <2>3, <2>4
    <2>6. FactorGrows
        BY <2>2, <2>5 DEF FactorGrows
    <2>7. SetLinks'
        <3>1. ASSUME NEW f, Order(f) PROVE \E h : Order(h)'
            <4>1. PICK h : h = [n \in DOMAIN sets' |-> IF n = last THEN Len(sets) ELSE f[n]]
                OBVIOUS
            <4>2. \A n \in DOMAIN sets : h[n] = f[n] /\ f[n] \in Nat /\ f[n] < Len(sets)
                BY <2>5, <3>1, <4>1 DEF Order
            <4>3. h[last] = Len(sets) /\ Len(sets) \in Nat
                BY <1>2, <2>5, <4>1
            <4>4. h \in [DOMAIN sets' -> Nat]
                BY <2>5, <4>1, <4>2, <4>3
            <4>5. \A m, n \in DOMAIN sets' : h[m] = h[n] => m = n
                BY <2>5, <3>1, <4>2, <4>3 DEF Order
            <4>6. \A n \in DOMAIN sets' : h[n] < Len(sets')
                BY <2>3, <2>5, <4>2, <4>3
            <4>7. \A n \in DOMAIN sets' : sets'[n].by # 0 => h[sets'[n].by] < h[n]
                <5>1. \A n \in DOMAIN sets : sets[n].by # 0 => sets[n].by \in DOMAIN sets
                    BY DEF FactorInv, SetLinks
                <5> QED
                    BY <2>4, <2>5, <3>1, <4>2, <5>1 DEF Order
            <4> QED
                BY <4>4, <4>5, <4>6, <4>7 DEF Order
        <3>2. \A n \in DOMAIN sets' : sets'[n].by # 0 =>
                sets'[n].by \in DOMAIN sets' /\ sets'[sets'[n].by].status # "draft"
            BY <2>4, <2>5 DEF FactorInv, SetLinks
        <3>3. crossings = 0 =>
                \A n \in DOMAIN sets' : sets'[n].status = "superseded" <=> sets'[n].by # 0
            BY <2>4, <2>5 DEF FactorInv, SetLinks
        <3> QED
            BY <2>2, <3>1, <3>2, <3>3 DEF FactorInv, SetLinks
    <2>8. FactorRequests'
        BY <2>2, <2>6, FactorRequestsKept DEF FactorInv
    <2>9. /\ import_jobs' \in Seq(Factors!JobRows)
          /\ \A j \in DOMAIN import_jobs' : import_jobs'[j].set \in 0 .. last
        BY <1>2, <2>2, <2>3, <2>4 DEF FactorInv, Factors!TypeOK
    <2>10. /\ \A n \in DOMAIN sets' : sets'[n].by <= last
           /\ \A r \in DOMAIN records : records[r] \in 0 .. last
        <3>1. ASSUME NEW n \in DOMAIN sets PROVE sets[n].by \in Nat /\ sets[n].by <= Len(sets)
            <4>1. sets[n] \in Factors!SetRows
                BY <1>2
            <4> QED
                BY <4>1 DEF FactorInv, Factors!TypeOK, Factors!SetRows
        <3>2. ASSUME NEW n \in DOMAIN sets' PROVE sets'[n].by <= last
            BY <1>2, <2>3, <2>4, <2>5, <3>1
        <3>3. \A r \in DOMAIN records : records[r] \in 0 .. last
            BY <1>2, <2>3 DEF FactorInv, Factors!TypeOK
        <3> QED
            BY <3>2, <3>3
    <2>11. Resolved'
        BY <1>2, <2>2, <2>5 DEF FactorInv, Factors!TypeOK, Resolved
    <2> QED
        BY <1>2, <2>2, <2>5, <2>7, <2>8, <2>9, <2>10, <2>11 DEF FactorInv, Factors!TypeOK
<1> QED
    BY <1>3, <1>4, <1>5

(* An order in which a set that leads nowhere comes first.                  *)
LEMMA OrderFromEnd ==
    ASSUME NEW f, Order(f), NEW r \in DOMAIN sets, sets[r].by = 0, Len(sets) \in Nat,
           \A m \in DOMAIN sets : sets[m].by # 0 => sets[m].by \in DOMAIN sets
    PROVE  \E h : Order(h) /\ \A m \in DOMAIN sets \ {r} : h[r] < h[m]
<1>1. PICK h : h = [m \in DOMAIN sets |-> IF m = r THEN 0
                                          ELSE IF f[m] < f[r] THEN f[m] + 1 ELSE f[m]]
    OBVIOUS
<1>2. \A m \in DOMAIN sets : f[m] \in Nat /\ f[m] < Len(sets)
    BY DEF Order
<1>3. \A m \in DOMAIN sets \ {r} :
        /\ f[m] # f[r]
        /\ \/ f[m] < f[r] /\ h[m] = f[m] + 1
           \/ f[m] > f[r] /\ h[m] = f[m]
    BY <1>1, <1>2 DEF Order
<1>4. h[r] = 0
    BY <1>1
<1>5. h \in [DOMAIN sets -> Nat]
    BY <1>1, <1>2
<1>6. \A m, n \in DOMAIN sets \ {r} : f[m] < f[n] => h[m] < h[n]
    BY <1>2, <1>3
<1>7. \A m \in DOMAIN sets \ {r} : h[r] < h[m] /\ h[m] < Len(sets)
    BY <1>2, <1>3, <1>4
<1>8. \A m, n \in DOMAIN sets : h[m] = h[n] => m = n
    <2>1. ASSUME NEW m \in DOMAIN sets \ {r}, NEW n \in DOMAIN sets \ {r}, h[m] = h[n]
          PROVE  m = n
        <3>1. ~(f[m] < f[n]) /\ ~(f[n] < f[m])
            BY <1>5, <1>6, <2>1
        <3>2. f[m] = f[n]
            BY <1>2, <3>1
        <3> QED
            BY <3>2 DEF Order
    <2> QED
        BY <1>5, <1>7, <2>1
<1>9. \A m \in DOMAIN sets : h[m] < Len(sets)
    BY <1>2, <1>4, <1>7
<1>10. ASSUME NEW m \in DOMAIN sets, sets[m].by # 0 PROVE h[sets[m].by] < h[m]
    <2>1. PICK n : n = sets[m].by
        OBVIOUS
    <2>2. m # r /\ n \in DOMAIN sets /\ f[n] < f[m]
        BY <1>10, <2>1 DEF Order
    <2>3. CASE n = r
        BY <1>7, <2>1, <2>2, <2>3
    <2>4. CASE n # r
        BY <1>6, <2>1, <2>2, <2>4
    <2> QED
        BY <2>3, <2>4
<1> QED
    BY <1>5, <1>7, <1>8, <1>9, <1>10 DEF Order

LEMMA SetTransitions ==
    ASSUME FactorInv, NEW s \in Sessions, Factors!CommitStatus(s)
    PROVE  FactorInv'
<1>1. PICK q, n : q = request[s] /\ n = q.set
    OBVIOUS
<1>2. FactorHolds(q) /\ q.op \in {"approve", "supersede"}
    BY <1>1 DEF FactorInv, FactorRequests, Factors!CommitStatus
<1>3. /\ n \in DOMAIN sets /\ sets \in Seq(Factors!SetRows)
      /\ q.loaded \in Factors!SetRows /\ sets[n] \in Factors!SetRows
    BY <1>1, <1>2 DEF FactorHolds, FactorInv, Factors!TypeOK
<1>4. PICK row, after : row = sets[n] /\ after = Factors!Update(row, q.loaded, q.changed)
    OBVIOUS
<1>5. /\ sets' = [sets EXCEPT ![n] = after]
      /\ crossings' = IF sets[IF q.op = "supersede" THEN q.changed.by ELSE n].status = "superseded"
                      THEN crossings + 1 ELSE crossings
      /\ request' = [request EXCEPT ![s] = None]
      /\ UNCHANGED <<import_jobs, records>>
    BY <1>1, <1>4 DEF Factors!CommitStatus, Factors!Done
<1>6. /\ DOMAIN sets' = DOMAIN sets /\ sets'[n] = after
      /\ \A m \in DOMAIN sets \ {n} : sets'[m] = sets[m]
    BY <1>3, <1>5
<1>7. crossings' \in Nat /\ (crossings' = 0 => crossings = 0)
    BY <1>5 DEF FactorInv
<1>8. CASE q.op = "approve"
    <2>1. PICK p \in Importers : q.changed = [status |-> "approved", approver |-> p]
        BY <1>2, <1>8 DEF FactorHolds
    <2>2. q.loaded.status = "draft"
        BY <1>2, <1>8 DEF FactorHolds
    <2>3. /\ after \in Factors!SetRows /\ after.by = row.by /\ after.status = "approved"
        BY <1>3, <1>4, <2>1, <2>2 DEF Factors!Update, Factors!SetRows
    <2>4. crossings' = 0 => row.status # "superseded"
        BY <1>4, <1>5, <1>8 DEF FactorInv
    <2>5. \A m \in DOMAIN sets : sets'[m].by = sets[m].by
        BY <1>4, <1>6, <2>3
    <2>6. \A f : Order(f) => Order(f)'
        <3>1. Len(sets') = Len(sets)
            BY <1>3, <1>5
        <3> QED
            BY <1>6, <2>5, <3>1 DEF Order
    <2>7. SetLinks'
        <3>1. \A m \in DOMAIN sets' : sets'[m].by # 0 =>
                sets'[m].by \in DOMAIN sets' /\ sets'[sets'[m].by].status # "draft"
            BY <1>6, <2>3, <2>5 DEF FactorInv, SetLinks
        <3>2. ASSUME crossings' = 0, NEW m \in DOMAIN sets'
              PROVE  sets'[m].status = "superseded" <=> sets'[m].by # 0
            <4>1. crossings = 0 /\ (sets[m].status = "superseded" <=> sets[m].by # 0)
                BY <1>6, <1>7, <3>2 DEF FactorInv, SetLinks
            <4> QED
                BY <1>4, <1>6, <2>3, <2>4, <3>2, <4>1
        <3> QED
            BY <1>7, <2>6, <3>1, <3>2 DEF FactorInv, SetLinks
    <2>8. /\ sets' \in Seq(Factors!SetRows) /\ Len(sets') = Len(sets)
          /\ \A m \in DOMAIN sets : sets[m].status # "draft" => sets'[m].status # "draft"
        BY <1>3, <1>4, <1>5, <1>6, <2>3
    <2>9. FactorGrows
        BY <1>6, <1>7, <2>8 DEF FactorGrows
    <2>10. FactorRequests'
        BY <1>5, <2>9, FactorRequestsKept DEF FactorInv
    <2> QED
        BY <1>5, <1>6, <1>7, <2>5, <2>7, <2>8, <2>10 DEF FactorInv, Factors!TypeOK, Resolved
<1>9. CASE q.op = "supersede"
    <2>1. PICK r \in DOMAIN sets \ {n} :
            q.changed = [status |-> "superseded", by |-> r] /\ sets[r].status # "draft"
        BY <1>1, <1>2, <1>9 DEF FactorHolds
    <2>2. /\ q.loaded.status = "approved" /\ row.status # "draft"
          /\ crossings = 0 => q.loaded.by = 0
        BY <1>1, <1>2, <1>4, <1>9 DEF FactorHolds
    <2>3. r \in Nat /\ r # 0 /\ r <= Len(sets)
        BY <1>3, <2>1
    <2>4. /\ after \in Factors!SetRows /\ after.by \in {row.by, r}
          /\ after.status = "superseded" /\ (crossings = 0 => after.by = r)
        BY <1>3, <1>4, <2>1, <2>2, <2>3 DEF Factors!Update, Factors!SetRows
    <2>5. \A m \in DOMAIN sets : sets[m].by # 0 =>
            sets[m].by \in DOMAIN sets /\ sets[sets[m].by].status # "draft"
        BY DEF FactorInv, SetLinks
    <2>6. \A m \in DOMAIN sets : sets[m].status # "draft" => sets'[m].status # "draft"
        BY <1>6, <2>4
    <2>7. \A m \in DOMAIN sets' : sets'[m].by # 0 =>
            sets'[m].by \in DOMAIN sets' /\ sets'[sets'[m].by].status # "draft"
        <3>1. after.by # 0 => after.by \in DOMAIN sets /\ sets[after.by].status # "draft"
            BY <1>3, <1>4, <2>1, <2>4, <2>5
        <3> QED
            BY <1>6, <2>5, <2>6, <3>1
    <2>8. ASSUME crossings' = 0 PROVE sets[r].by = 0 /\ crossings = 0
        <3>1. sets[r].status # "superseded" /\ crossings = 0
            BY <1>5, <1>7, <1>9, <2>1, <2>8 DEF FactorInv
        <3> QED
            BY <2>1, <3>1 DEF FactorInv, SetLinks
    <2>9. Len(sets') = Len(sets) /\ Len(sets) \in Nat
        BY <1>3, <1>5
    <2>10. ASSUME crossings' = 0 PROVE \E h : Order(h)'
        <3>1. PICK f : Order(f)
            BY <2>8, <2>10 DEF FactorInv, SetLinks
        <3>2. PICK h : Order(h) /\ \A m \in DOMAIN sets \ {r} : h[r] < h[m]
            BY <2>1, <2>5, <2>8, <2>9, <2>10, <3>1, OrderFromEnd
        <3>3. \A m \in DOMAIN sets' : sets'[m].by # 0 => h[sets'[m].by] < h[m]
            BY <1>3, <1>6, <2>1, <2>4, <2>8, <2>10, <3>2 DEF Order
        <3> QED
            BY <1>6, <2>9, <3>2, <3>3 DEF Order
    <2>11. ASSUME crossings' = 0, NEW m \in DOMAIN sets'
           PROVE  sets'[m].status = "superseded" <=> sets'[m].by # 0
        BY <1>6, <2>3, <2>4, <2>8, <2>11 DEF FactorInv, SetLinks
    <2>12. SetLinks'
        BY <2>7, <2>10, <2>11 DEF SetLinks
    <2>13. sets' \in Seq(Factors!SetRows)
        BY <1>3, <1>5, <2>4
    <2>14. \A m \in DOMAIN sets' : sets'[m].by <= Len(sets')
        BY <1>3, <1>4, <1>6, <2>3, <2>4, <2>9 DEF FactorInv, Factors!TypeOK
    <2>15. FactorGrows
        BY <1>6, <1>7, <2>6 DEF FactorGrows
    <2>16. FactorRequests'
        BY <1>5, <2>15, FactorRequestsKept DEF FactorInv
    <2>17. Resolved'
        <3>1. \A m \in DOMAIN records : records[m] # 0 => records[m] \in DOMAIN sets
            BY <1>3 DEF FactorInv, Factors!TypeOK
        <3> QED
            BY <1>5, <2>6, <3>1 DEF FactorInv, Resolved
    <2> QED
        BY <1>5, <1>7, <2>9, <2>12, <2>13, <2>14, <2>16, <2>17 DEF FactorInv, Factors!TypeOK
<1> QED
    BY <1>2, <1>8, <1>9

LEMMA FactorNext ==
    ASSUME FactorInv, Factors!Next
    PROVE  FactorInv'
BY FactorReads, FactorsImported, SetTransitions DEF Factors!Next

----------------------------------------------------------------------------
(* Accounts, memberships and sessions: the tables, and what each of them    *)
(* has in the others                                                        *)
UserTable ==
    /\ DOMAIN user = Users
    /\ \A u \in Users : user[u] # None => user[u] \in Accounts!UserRows

MemberTable ==
    /\ member \in [Accounts!Memberships -> BOOLEAN \union {None}]
    /\ \A m \in Accounts!Memberships :
         member[m] # None => user[m[2]] # None /\ m[1] \in tenants

(* A session that was exchanged is revoked and leads to one that descends   *)
(* from it.                                                                 *)
Exchanged(i) ==
    LET p == session[i].parent IN
    p # 0 => /\ p \in DOMAIN session /\ session[p].revoked
             /\ session[p].next \in DOMAIN session
             /\ session[session[p].next].parent = p
             /\ session[p].user = session[i].user /\ session[p].tenant = session[i].tenant

SessionTable ==
    /\ session \in Seq(Accounts!SessionRows)
    /\ \A i \in DOMAIN session :
         /\ user[session[i].user] # None /\ Exchanged(i)
         /\ session[i].parent <= Len(session) /\ session[i].next <= Len(session)

ChallengeTable ==
    /\ challenge \in Seq(Accounts!ChallengeRows)
    /\ \A c \in DOMAIN challenge : user[challenge[c].user] # None

ResetTable ==
    /\ reset \in Seq(Accounts!ResetRows)
    /\ \A n \in DOMAIN reset : user[reset[n].member[2]] # None

InvitationTable ==
    /\ invitation \in Seq(Accounts!InvitationRows)
    /\ \A n \in DOMAIN invitation :
         /\ invitation[n].member[1] \in tenants
         /\ invitation[n].status = "accepted" =>
              /\ user[invitation[n].member[2]] # None
              /\ member[invitation[n].member] # None

RoleTable ==
    /\ DOMAIN role = Accounts!Memberships /\ DOMAIN written = Accounts!Memberships
    /\ \A m \in Accounts!Memberships : written[m].times \in Nat
    /\ \A m \in Accounts!Memberships \ overlapped : Accounts!Names(m) = written[m].names

(* What a unit of work changes of an account                                *)
AccountChange(c) ==
    \/ \E n \in Nat, l \in {None, "locked", "past"} : c = [failed |-> n, locked |-> l]
    \/ \E n \in Nat : c = [codes |-> n]
    \/ \E n \in Nat : c = [version |-> n]
    \/ \E n \in Nat, k \in Nat, x \in BOOLEAN, v \in Nat :
         c = [version |-> v, mfa |-> x, secret |-> n, pending |-> FALSE, codes |-> k]

(* What a request in flight has loaded, and what of it stays true           *)
WorkHolds(q) ==
    /\ user[q.member[2]] # None /\ q.loaded \in Accounts!UserRows /\ AccountChange(q.changed)
    /\ q.used \in {0} \union DOMAIN challenge /\ q.attempts \in Nat /\ q.done \in BOOLEAN
    /\ q.reset \in {0} \union DOMAIN reset /\ q.parent \in Nat
    /\ q.parent # 0 =>
         /\ q.issues = "session" /\ q.parent \in DOMAIN session /\ q.parent \in q.revoked
         /\ session[q.parent].user = q.member[2] /\ session[q.parent].tenant = q.member[1]

(* As long as nobody else has written the roles, the DELETE saw all of them.*)
WriteHolds(q) ==
    /\ DOMAIN q = {"op", "member", "names", "invitation", "loaded", "joined", "revoked",
                   "times", "deleted", "seen", "first"}
    /\ q.times \in Nat /\ q.times <= written[q.member].times
    /\ q.deleted /\ q.times = written[q.member].times => q.seen = role[q.member]
    /\ q.joined = TRUE => member[q.member] # None
    /\ q.loaded # None => q.loaded \in Accounts!UserRows /\ user[q.member[2]] # None
    /\ q.op = "accept" =>
         /\ q.member[1] \in tenants
         /\ q.invitation \in DOMAIN invitation /\ invitation[q.invitation].member = q.member
    /\ q.op = "roles" => member[q.member] # None

AccountHolds(q) ==
    /\ q.op \in {"account", "invite", "accept", "roles", "status"}
    /\ q.member \in Accounts!Memberships
    /\ q.op = "account" => WorkHolds(q)
    /\ q.op = "invite" => q.member[1] \in tenants /\ q.names \in RoleSets
    /\ q.op \in {"accept", "roles"} => WriteHolds(q)
    /\ q.op = "status" =>
         member[q.member] # None /\ q.loaded \in Accounts!UserRows /\ q.active \in BOOLEAN

InFlight == {request[s] : s \in Sessions} \ {None}

AccountRequests == DOMAIN request = Sessions /\ \A q \in InFlight : AccountHolds(q)

AccountInv ==
    /\ UserTable /\ MemberTable /\ SessionTable /\ ChallengeTable /\ ResetTable
    /\ InvitationTable /\ RoleTable /\ AccountRequests

(* Nothing is taken away, and roles change only with another stamp.         *)
RowsStay ==
    /\ tenants \subseteq tenants'
    /\ \A u \in Users : user[u] # None => user'[u] # None
    /\ \A m \in Accounts!Memberships : member[m] # None => member'[m] # None

SequencesStay ==
    /\ DOMAIN session \subseteq DOMAIN session'
    /\ \A i \in DOMAIN session :
         session'[i].user = session[i].user /\ session'[i].tenant = session[i].tenant
    /\ DOMAIN challenge \subseteq DOMAIN challenge' /\ DOMAIN reset \subseteq DOMAIN reset'
    /\ DOMAIN invitation \subseteq DOMAIN invitation'
    /\ \A n \in DOMAIN invitation : invitation'[n].member = invitation[n].member

StampsStay ==
    \A m \in Accounts!Memberships :
      /\ written'[m].times \in Nat /\ written[m].times <= written'[m].times
      /\ written'[m].times = written[m].times => role'[m] = role[m]

AccountGrows == RowsStay /\ SequencesStay /\ StampsStay

LEMMA AccountKeeps ==
    AccountInv => /\ Accounts!TypeOK /\ Accounts!RolesAsWritten
                  /\ Accounts!AcceptedWhole /\ Accounts!ExchangedOnce
<1> SUFFICES ASSUME AccountInv
             PROVE  /\ Accounts!TypeOK /\ Accounts!RolesAsWritten
                    /\ Accounts!AcceptedWhole /\ Accounts!ExchangedOnce
    OBVIOUS
<1> USE DEF AccountInv
<1>1. Accounts!TypeOK
    BY DEF UserTable, MemberTable, SessionTable, ChallengeTable, ResetTable, InvitationTable,
           Accounts!TypeOK
<1>2. Accounts!RolesAsWritten
    BY DEF RoleTable, Accounts!RolesAsWritten
<1>3. Accounts!AcceptedWhole
    BY DEF InvitationTable, Accounts!AcceptedWhole
<1>4. Accounts!ExchangedOnce
    BY DEF SessionTable, Exchanged, Accounts!ExchangedOnce
<1> QED
    BY <1>1, <1>2, <1>3, <1>4

LEMMA WorkStays ==
    ASSUME AccountGrows, NEW q, q.member \in Accounts!Memberships, WorkHolds(q)
    PROVE  WorkHolds(q)'
<1>1. q.member[2] \in Users
    BY DEF Accounts!Memberships
<1>2. user'[q.member[2]] # None
    BY <1>1 DEF WorkHolds, AccountGrows, RowsStay
<1>3. AccountChange(q.changed)'
    BY DEF WorkHolds, AccountChange
<1> QED
    BY <1>2, <1>3 DEF WorkHolds, AccountGrows, SequencesStay

LEMMA WriteStays ==
    ASSUME AccountGrows, RoleTable, NEW q, q.member \in Accounts!Memberships, WriteHolds(q)
    PROVE  WriteHolds(q)'
<1>1. q.member[2] \in Users
    BY DEF Accounts!Memberships
<1>2. PICK m : m = q.member
    OBVIOUS
<1>3. /\ written'[m].times \in Nat /\ written[m].times \in Nat
      /\ written[m].times <= written'[m].times
      /\ written'[m].times = written[m].times => role'[m] = role[m]
    BY <1>2 DEF AccountGrows, StampsStay, RoleTable
<1>4. /\ q.times <= written'[m].times
      /\ q.deleted /\ q.times = written'[m].times => q.seen = role'[m]
    <2>1. q.times \in Nat /\ q.times <= written[m].times
        BY <1>2 DEF WriteHolds
    <2>2. q.times = written'[m].times => written'[m].times = written[m].times
        BY <1>3, <2>1
    <2>3. q.deleted /\ q.times = written[m].times => q.seen = role[m]
        BY <1>2 DEF WriteHolds
    <2>4. q.times <= written'[m].times
        BY <1>3, <2>1
    <2> QED
        BY <1>3, <2>2, <2>3, <2>4
<1>5. user[q.member[2]] # None => user'[q.member[2]] # None
    BY <1>1 DEF AccountGrows, RowsStay
<1> QED
    BY <1>2, <1>4, <1>5 DEF WriteHolds, AccountGrows, RowsStay, SequencesStay

LEMMA AccountStays ==
    ASSUME AccountGrows, RoleTable, NEW q, AccountHolds(q)
    PROVE  AccountHolds(q)'
<1>1. q.op = "account" => WorkHolds(q)'
    BY WorkStays DEF AccountHolds
<1>2. q.op \in {"accept", "roles"} => WriteHolds(q)'
    BY WriteStays DEF AccountHolds
<1> QED
    BY <1>1, <1>2 DEF AccountHolds, AccountGrows, RowsStay

LEMMA AccountRequestsKept ==
    ASSUME AccountRequests, RoleTable, AccountGrows, NEW s \in Sessions, NEW r,
           request' = [request EXCEPT ![s] = r], r = None \/ AccountHolds(r)
    PROVE  AccountRequests'
<1>1. DOMAIN request' = Sessions /\ request'[s] = r
      /\ \A t \in Sessions \ {s} : request'[t] = request[t]
    BY RequestChanges DEF AccountRequests
<1>2. InFlight' \subseteq InFlight \union {r}
    BY <1>1 DEF InFlight
<1>3. ASSUME NEW q \in InFlight' PROVE AccountHolds(q)'
    <2>1. AccountHolds(q)
        BY <1>2 DEF AccountRequests, InFlight
    <2> QED
        BY <2>1, AccountStays
<1> QED
    BY <1>1, <1>3 DEF AccountRequests

LEMMA AccountRequestsSame ==
    ASSUME AccountRequests, RoleTable, AccountGrows, request' = request
    PROVE  AccountRequests'
<1>1. InFlight' = InFlight
    BY DEF InFlight
<1>2. \A q \in InFlight' : AccountHolds(q)'
    BY <1>1, AccountStays DEF AccountRequests
<1> QED
    BY <1>2 DEF AccountRequests

(* A table that is left alone stays right while the others only gain rows.  *)
LEMMA TablesStay ==
    ASSUME AccountInv, RowsStay
    PROVE  /\ UNCHANGED member => MemberTable'
           /\ UNCHANGED session => SessionTable'
           /\ UNCHANGED challenge => ChallengeTable'
           /\ UNCHANGED reset => ResetTable'
           /\ UNCHANGED invitation => InvitationTable'
           /\ UNCHANGED <<role, written, overlapped>> => RoleTable'
<1> USE DEF AccountInv, RowsStay
<1>1. ASSUME UNCHANGED member PROVE MemberTable'
    <2>1. \A m \in Accounts!Memberships : m[2] \in Users
        BY DEF Accounts!Memberships
    <2> QED
        BY <1>1, <2>1 DEF MemberTable
<1>2. ASSUME UNCHANGED session PROVE SessionTable'
    <2>1. \A i \in DOMAIN session : session[i] \in Accounts!SessionRows
        BY DEF SessionTable
    <2>2. \A i \in DOMAIN session : session[i].user \in Users
        BY <2>1 DEF Accounts!SessionRows
    <2> QED
        BY <1>2, <2>2 DEF SessionTable, Exchanged
<1>3. ASSUME UNCHANGED challenge PROVE ChallengeTable'
    <2>1. \A c \in DOMAIN challenge : challenge[c] \in Accounts!ChallengeRows
        BY DEF ChallengeTable
    <2>2. \A c \in DOMAIN challenge : challenge[c].user \in Users
        BY <2>1 DEF Accounts!ChallengeRows
    <2> QED
        BY <1>3, <2>2 DEF ChallengeTable
<1>4. ASSUME UNCHANGED reset PROVE ResetTable'
    <2>1. \A n \in DOMAIN reset : reset[n] \in Accounts!ResetRows
        BY DEF ResetTable
    <2>2. \A n \in DOMAIN reset : reset[n].member[2] \in Users
        BY <2>1 DEF Accounts!ResetRows, Accounts!Memberships
    <2> QED
        BY <1>4, <2>2 DEF ResetTable
<1>5. ASSUME UNCHANGED invitation PROVE InvitationTable'
    <2>1. \A n \in DOMAIN invitation : invitation[n] \in Accounts!InvitationRows
        BY DEF InvitationTable
    <2>2. \A n \in DOMAIN invitation :
            invitation[n].member \in Accounts!Memberships /\ invitation[n].member[2] \in Users
        BY <2>1 DEF Accounts!InvitationRows, Accounts!Memberships
    <2> QED
        BY <1>5, <2>2 DEF InvitationTable
<1>6. ASSUME UNCHANGED <<role, written, overlapped>> PROVE RoleTable'
    BY <1>6 DEF RoleTable, Accounts!Names
<1> QED
    BY <1>1, <1>2, <1>3, <1>4, <1>5, <1>6

LEMMA AccountReadKeeps ==
    ASSUME AccountInv, UNCHANGED identityVars, NEW s \in Sessions, NEW r,
           request' = [request EXCEPT ![s] = r], r = None \/ AccountHolds(r)
    PROVE  AccountInv'
<1>1. RowsStay
    BY DEF identityVars, RowsStay
<1>2. StampsStay
    BY DEF identityVars, StampsStay, AccountInv, RoleTable
<1>3. SequencesStay
    BY DEF identityVars, SequencesStay
<1>4. AccountRequests'
    BY <1>1, <1>2, <1>3, AccountRequestsKept DEF AccountInv, AccountGrows
<1>5. UserTable'
    BY DEF AccountInv, UserTable, identityVars
<1> QED
    BY <1>1, <1>4, <1>5, TablesStay DEF AccountInv, identityVars

LEMMA AccountSame == AccountInv /\ UNCHANGED <<requests, identityVars>> => AccountInv'
<1> SUFFICES ASSUME AccountInv, UNCHANGED <<requests, identityVars>> PROVE AccountInv'
    OBVIOUS
<1>1. RowsStay
    BY DEF identityVars, RowsStay
<1>2. StampsStay
    BY DEF identityVars, StampsStay, AccountInv, RoleTable
<1>3. SequencesStay
    BY DEF identityVars, SequencesStay
<1>4. AccountRequests'
    BY <1>1, <1>2, <1>3, AccountRequestsSame DEF AccountInv, AccountGrows, requests
<1>5. UserTable'
    BY DEF AccountInv, UserTable, identityVars
<1> QED
    BY <1>1, <1>4, <1>5, TablesStay DEF AccountInv, identityVars

LEMMA NotNone ==
    /\ \A x \in Accounts!UserRows : x # None
    /\ \A x \in BOOLEAN : x # None
BY NoneAssumption DEF NoneAssumption

LEMMA AccountInit == Accounts!Init => AccountInv
<1> SUFFICES ASSUME Accounts!Init PROVE AccountInv
    OBVIOUS
<1>1. AccountRequests
    BY DEF Accounts!Init, Accounts!InitRequests, AccountRequests, InFlight
<1>2. PICK initial \in {Accounts!NewUser, Accounts!Enrolled} :
        user = [u \in Users |-> IF \E m \in Members : m[2] = u THEN initial ELSE None]
    BY DEF Accounts!Init
<1>3. initial \in Accounts!UserRows /\ initial # None
    <2>1. Accounts!NewUser \in Accounts!UserRows
        BY DEF Accounts!NewUser, Accounts!UserRows
    <2>2. \A row \in Accounts!UserRows :
            [row EXCEPT !.version = 2, !.mfa = TRUE, !.secret = 2, !.codes = RecoveryCodes]
              \in Accounts!UserRows
        BY IdentityAssumption DEF IdentityAssumption, Accounts!UserRows
    <2>3. Accounts!Enrolled \in Accounts!UserRows
        BY <2>1, <2>2 DEF Accounts!Enrolled
    <2> QED
        BY <2>1, <2>3, NotNone
<1>4. UserTable
    BY <1>2, <1>3 DEF UserTable
<1>5. Members \subseteq Accounts!Memberships
    BY IdentityAssumption DEF IdentityAssumption, Accounts!Memberships
<1>6. MemberTable
    <2>1. /\ member = [m \in Accounts!Memberships |-> IF m \in Members THEN TRUE ELSE None]
          /\ tenants = {m[1] : m \in Members}
        BY DEF Accounts!Init
    <2>2. \A m \in Accounts!Memberships : m[2] \in Users
        BY DEF Accounts!Memberships
    <2> QED
        BY <1>2, <1>3, <2>1, <2>2, NotNone DEF MemberTable
<1>7. SessionTable
    <2>1. PICK n : n = Accounts!Cardinality(Members)
        OBVIOUS
    <2>2. n \in Nat
        <3>1. n = Cardinality(Members)
            BY <2>1 DEF Accounts!Cardinality, Cardinality
        <3> QED
            BY <3>1, FS_CardinalityType, IdentityAssumption DEF IdentityAssumption
    <2>3. /\ session \in [1 .. n -> [user : Users, tenant : Tenants, version : {1, 2},
                                     parent : {0}, next : {0}, revoked : {FALSE}]]
          /\ {<<session[i].tenant, session[i].user>> : i \in DOMAIN session} = Members
        BY <2>1 DEF Accounts!Init
    <2>4. ASSUME NEW i \in 1 .. n
          PROVE  /\ session[i] \in Accounts!SessionRows /\ session[i].user \in Users
                 /\ session[i].parent = 0 /\ session[i].next = 0
        <3>1. PICK row : row = session[i]
            OBVIOUS
        <3>2. row \in [user : Users, tenant : Tenants, version : {1, 2},
                       parent : {0}, next : {0}, revoked : {FALSE}]
            BY <2>3, <3>1
        <3>3. PICK u \in Users, t \in Tenants, v \in {1, 2} :
                row = [user |-> u, tenant |-> t, version |-> v,
                       parent |-> 0, next |-> 0, revoked |-> FALSE]
            BY <3>2
        <3>4. row \in Accounts!SessionRows
            BY <3>3 DEF Accounts!SessionRows
        <3> QED
            BY <3>1, <3>3, <3>4
    <2>5. session \in Seq(Accounts!SessionRows) /\ DOMAIN session = 1 .. n /\ Len(session) \in Nat
        <3>1. session \in [1 .. n -> Accounts!SessionRows]
            BY <2>3, <2>4
        <3>2. session \in Seq(Accounts!SessionRows)
            BY <2>2, <3>1, SeqDef
        <3> QED
            BY <2>3, <3>2
    <2>6. ASSUME NEW i \in 1 .. n PROVE user[session[i].user] # None
        <3>1. PICK m \in Members : m = <<session[i].tenant, session[i].user>>
            BY <2>3, <2>5, <2>6
        <3> QED
            BY <1>2, <1>3, <2>4, <2>6, <3>1
    <2> QED
        BY <2>4, <2>5, <2>6 DEF SessionTable, Exchanged
<1>8. ChallengeTable /\ ResetTable /\ InvitationTable
    BY DEF Accounts!Init, ChallengeTable, ResetTable, InvitationTable
<1>9. RoleTable
    BY DEF Accounts!Init, RoleTable, Accounts!Names
<1> QED
    BY <1>1, <1>4, <1>6, <1>7, <1>8, <1>9 DEF AccountInv

(* A handler has loaded an account.                                         *)
LEMMA WorkBegins ==
    ASSUME AccountInv, NEW s \in Sessions, NEW m \in Accounts!Memberships, user[m[2]] # None,
           NEW changed, AccountChange(changed), NEW r, Accounts!Begin(s, r),
           r.op = "account", r.member = m, r.loaded = user[m[2]], r.changed = changed,
           r.used \in {0} \union DOMAIN challenge, r.attempts \in Nat, r.done \in BOOLEAN,
           r.reset \in {0} \union DOMAIN reset,
           \/ r.parent = 0
           \/ /\ r.parent \in DOMAIN session /\ r.parent \in r.revoked /\ r.issues = "session"
              /\ session[r.parent].user = m[2] /\ session[r.parent].tenant = m[1]
    PROVE  AccountInv'
<1>1. m[2] \in Users
    BY DEF Accounts!Memberships
<1>2. r.loaded \in Accounts!UserRows
    BY <1>1 DEF AccountInv, UserTable
<1>3. r.parent \in Nat
    <2>1. DOMAIN session \subseteq Nat
        BY DEF AccountInv, SessionTable
    <2> QED
        BY <2>1
<1>4. WorkHolds(r)
    BY <1>2, <1>3 DEF WorkHolds
<1>5. AccountHolds(r)
    BY <1>4 DEF AccountHolds
<1>6. request' = [request EXCEPT ![s] = r] /\ UNCHANGED identityVars
    BY DEF Accounts!Begin, Accounts!Receive, Accounts!rows, Accounts!accounts, identityVars
<1> QED
    BY <1>5, <1>6, AccountReadKeeps

LEMMA AccountOf ==
    ASSUME AccountInv, NEW m \in Accounts!Memberships, member[m] # None
    PROVE  user[m[2]] # None /\ user[m[2]] \in Accounts!UserRows /\ m[1] \in tenants
BY DEF AccountInv, MemberTable, UserTable, Accounts!Memberships

LEMMA ActiveAccount ==
    ASSUME AccountInv, NEW m \in Accounts!Memberships, Accounts!Active(m)
    PROVE  user[m[2]] # None /\ user[m[2]] \in Accounts!UserRows
<1>1. member[m] # None
    BY NotNone DEF Accounts!Active
<1> QED
    BY <1>1, AccountOf

LEMMA LoginsBegin ==
    ASSUME AccountInv, NEW s \in Sessions, NEW m \in Accounts!Memberships,
           \/ \E over \in BOOLEAN : Accounts!LoadLoginFails(s, m, over)
           \/ Accounts!LoadLogin(s, m) \/ Accounts!LoadUnlock(s, m)
    PROVE  AccountInv'
<1>1. user[m[2]] # None /\ user[m[2]] \in Accounts!UserRows
    <2>1. user[m[2]] # None
        BY AccountOf DEF Accounts!LoadLoginFails, Accounts!LoadLogin, Accounts!LoadUnlock
    <2> QED
        BY <2>1 DEF AccountInv, UserTable, Accounts!Memberships
<1>2. PICK u : u = user[m[2]]
    OBVIOUS
<1>3. u.failed \in Nat /\ u.locked \in {None, "locked", "past"}
    BY <1>1, <1>2 DEF Accounts!UserRows
<1>4. ASSUME NEW over \in BOOLEAN, Accounts!LoadLoginFails(s, m, over) PROVE AccountInv'
    <2>1. PICK failed : failed = 1 + IF over THEN 0 ELSE u.failed
        OBVIOUS
    <2>2. PICK locked : locked = IF failed >= LockThreshold THEN "locked" ELSE u.locked
        OBVIOUS
    <2>3. PICK changed : changed = [failed |-> failed, locked |-> locked]
        OBVIOUS
    <2>4. Accounts!Begin(s, Accounts!Work(m, changed))
        BY <1>2, <1>4, <2>1, <2>2, <2>3 DEF Accounts!LoadLoginFails
    <2>5. failed \in Nat
        BY <1>3, <2>1
    <2>6. locked \in {None, "locked", "past"}
        BY <1>3, <2>2
    <2>7. AccountChange(changed)
        BY <2>3, <2>5, <2>6 DEF AccountChange
    <2> QED
        BY <1>1, <2>4, <2>7, WorkBegins DEF Accounts!Work
<1>5. AccountChange([failed |-> 0, locked |-> None])
    BY DEF AccountChange
<1>6. ASSUME Accounts!LoadLogin(s, m) PROVE AccountInv'
    <2>1. PICK issues : Accounts!Begin(s, [Accounts!Work(m, [failed |-> 0, locked |-> None])
                                             EXCEPT !.issues = issues])
        BY <1>6 DEF Accounts!LoadLogin
    <2> QED
        BY <1>1, <1>5, <2>1, WorkBegins DEF Accounts!Work
<1>7. ASSUME Accounts!LoadUnlock(s, m) PROVE AccountInv'
    BY <1>1, <1>5, <1>7, WorkBegins DEF Accounts!LoadUnlock, Accounts!Work
<1> QED
    BY <1>4, <1>6, <1>7

LEMMA CodesVerified ==
    ASSUME AccountInv, NEW s \in Sessions, NEW c \in DOMAIN challenge,
           NEW by \in {"totp", "recovery", "wrong"}, Accounts!LoadVerify(s, c, by)
    PROVE  AccountInv'
<1>1. PICK m, u : m = <<challenge[c].tenant, challenge[c].user>> /\ u = user[m[2]]
    OBVIOUS
<1>2. challenge[c] \in Accounts!ChallengeRows /\ user[challenge[c].user] # None
    BY DEF AccountInv, ChallengeTable
<1>3. /\ m \in Accounts!Memberships /\ user[m[2]] # None /\ m[2] \in Users
      /\ challenge[c].attempts \in Nat
    BY <1>1, <1>2 DEF Accounts!ChallengeRows, Accounts!Memberships
<1>4. u.codes \in Nat
    <2>1. u \in Accounts!UserRows
        BY <1>1, <1>3 DEF AccountInv, UserTable
    <2> QED
        BY <2>1 DEF Accounts!UserRows
<1>5. PICK codes, attempts, valid, done, issues, r :
        /\ codes = u.codes - IF by = "recovery" THEN 1 ELSE 0
        /\ attempts = challenge[c].attempts + 1
        /\ valid = (by # "wrong" /\ Accounts!Active(m))
        /\ done = (valid \/ attempts >= MaxAttempts)
        /\ issues = IF valid THEN "session" ELSE "nothing"
        /\ r = [Accounts!Work(m, [codes |-> codes]) EXCEPT
                  !.issues = issues, !.used = c, !.attempts = attempts, !.done = done]
    OBVIOUS
<1>6. Accounts!Begin(s, r) /\ (by = "recovery" => u.codes > 0)
    BY <1>1, <1>5 DEF Accounts!LoadVerify
<1>7. codes \in Nat /\ attempts \in Nat /\ done \in BOOLEAN
    BY <1>3, <1>4, <1>5, <1>6
<1>8. AccountChange([codes |-> codes])
    BY <1>7 DEF AccountChange
<1>9. /\ r.op = "account" /\ r.member = m /\ r.loaded = user[m[2]]
      /\ r.changed = [codes |-> codes] /\ r.used = c /\ r.attempts = attempts
      /\ r.done = done /\ r.reset = 0 /\ r.parent = 0
    BY <1>5 DEF Accounts!Work
<1> QED
    BY <1>3, <1>6, <1>7, <1>8, <1>9, WorkBegins

LEMMA RotationsBegin ==
    ASSUME AccountInv, NEW s \in Sessions, NEW i \in DOMAIN session, Accounts!LoadRotate(s, i)
    PROVE  AccountInv'
<1>1. PICK m, n, changed : /\ m = <<session[i].tenant, session[i].user>>
                           /\ n = user[m[2]].version /\ changed = [version |-> n]
    OBVIOUS
<1>2. session[i] \in Accounts!SessionRows /\ user[session[i].user] # None
    BY DEF AccountInv, SessionTable
<1>3. /\ m \in Accounts!Memberships /\ user[m[2]] # None /\ m[2] \in Users
      /\ session[i].user = m[2] /\ session[i].tenant = m[1]
    BY <1>1, <1>2 DEF Accounts!SessionRows, Accounts!Memberships
<1>4. AccountChange(changed)
    <2>1. user[m[2]] \in Accounts!UserRows
        BY <1>3 DEF AccountInv, UserTable
    <2>2. n \in Nat
        BY <1>1, <2>1 DEF Accounts!UserRows
    <2> QED
        BY <1>1, <2>2 DEF AccountChange
<1>5. CASE \E x : Accounts!Begin(s, [Accounts!Work(m, changed) EXCEPT !.revoked = x])
    <2>1. PICK r, x : Accounts!Begin(s, r) /\ r = [Accounts!Work(m, changed) EXCEPT !.revoked = x]
        BY <1>5
    <2> QED
        BY <1>3, <1>4, <2>1, WorkBegins DEF Accounts!Work
<1>6. CASE Accounts!Begin(s, [Accounts!Work(m, changed) EXCEPT
                                !.revoked = Accounts!Retired(i), !.issues = "session", !.parent = i])
    <2>1. PICK r : /\ Accounts!Begin(s, r)
                   /\ r = [Accounts!Work(m, changed) EXCEPT
                             !.revoked = Accounts!Retired(i), !.issues = "session", !.parent = i]
        BY <1>6
    <2>2. /\ r.op = "account" /\ r.member = m /\ r.loaded = user[m[2]] /\ r.changed = changed
          /\ r.used = 0 /\ r.attempts = 0 /\ r.done \in BOOLEAN /\ r.reset = 0
          /\ r.parent = i /\ r.issues = "session" /\ r.revoked = Accounts!Retired(i)
        BY <2>1 DEF Accounts!Work
    <2>3. r.parent \in DOMAIN session /\ r.parent \in r.revoked
        BY <2>2 DEF Accounts!Retired
    <2>4. session[r.parent].user = m[2] /\ session[r.parent].tenant = m[1]
        BY <1>3, <2>2
    <2>5. /\ r.used \in {0} \union DOMAIN challenge /\ r.attempts \in Nat /\ r.done \in BOOLEAN
          /\ r.reset \in {0} \union DOMAIN reset
        BY <2>2
    <2> QED
        BY <1>3, <1>4, <2>1, <2>2, <2>3, <2>4, <2>5, WorkBegins
<1> QED
    BY <1>1, <1>5, <1>6 DEF Accounts!LoadRotate

LEMMA CredentialsBegin ==
    ASSUME AccountInv, NEW s \in Sessions,
           \/ \E m \in Accounts!Memberships :
                Accounts!LoadPassword(s, m) \/ Accounts!LoadConfirm(s, m) \/ Accounts!LoadDisable(s, m)
           \/ \E n \in DOMAIN reset : Accounts!LoadReset(s, n)
    PROVE  AccountInv'
<1>1. ASSUME NEW m \in Accounts!Memberships, user[m[2]] # None
      PROVE  Accounts!Bumped(m) \in Nat
    <2>1. user[m[2]] \in Accounts!UserRows
        BY <1>1 DEF AccountInv, UserTable, Accounts!Memberships
    <2> QED
        BY <2>1 DEF Accounts!UserRows, Accounts!Bumped
<1>2. ASSUME NEW m \in Accounts!Memberships, user[m[2]] # None, NEW changed, AccountChange(changed),
             NEW x, NEW n \in {0} \union DOMAIN reset,
             Accounts!Begin(s, [Accounts!Work(m, changed) EXCEPT !.revoked = x, !.reset = n])
      PROVE  AccountInv'
    <2>1. PICK r : /\ Accounts!Begin(s, r)
                   /\ r = [Accounts!Work(m, changed) EXCEPT !.revoked = x, !.reset = n]
        BY <1>2
    <2> QED
        BY <1>2, <2>1, WorkBegins DEF Accounts!Work
<1>3. ASSUME NEW m \in Accounts!Memberships, user[m[2]] # None, NEW changed, AccountChange(changed),
             NEW x, Accounts!Begin(s, [Accounts!Work(m, changed) EXCEPT !.revoked = x])
      PROVE  AccountInv'
    <2>1. PICK r : /\ Accounts!Begin(s, r)
                   /\ r = [Accounts!Work(m, changed) EXCEPT !.revoked = x]
        BY <1>3
    <2> QED
        BY <1>3, <2>1, WorkBegins DEF Accounts!Work
<1>4. ASSUME NEW m \in Accounts!Memberships, Accounts!LoadPassword(s, m) PROVE AccountInv'
    <2>1. user[m[2]] # None
        BY <1>4, ActiveAccount DEF Accounts!LoadPassword, Accounts!Principal
    <2>2. PICK changed : changed = [version |-> Accounts!Bumped(m)]
        OBVIOUS
    <2>3. AccountChange(changed)
        BY <1>1, <2>1, <2>2 DEF AccountChange
    <2> QED
        BY <1>3, <1>4, <2>1, <2>2, <2>3 DEF Accounts!LoadPassword
<1>5. ASSUME NEW n \in DOMAIN reset, Accounts!LoadReset(s, n) PROVE AccountInv'
    <2>1. PICK m : m = reset[n].member
        OBVIOUS
    <2>2. reset[n] \in Accounts!ResetRows /\ user[m[2]] # None
        BY <2>1 DEF AccountInv, ResetTable
    <2>3. m \in Accounts!Memberships
        BY <2>1, <2>2 DEF Accounts!ResetRows
    <2>4. PICK changed : changed = [version |-> Accounts!Bumped(m)]
        OBVIOUS
    <2>5. AccountChange(changed)
        BY <1>1, <2>2, <2>3, <2>4 DEF AccountChange
    <2> QED
        BY <1>2, <1>5, <2>1, <2>2, <2>3, <2>4, <2>5 DEF Accounts!LoadReset
<1>6. ASSUME NEW m \in Accounts!Memberships, Accounts!LoadConfirm(s, m) PROVE AccountInv'
    <2>1. user[m[2]] # None
        BY <1>6, ActiveAccount DEF Accounts!LoadConfirm, Accounts!Principal
    <2>2. PICK v, changed : /\ v = Accounts!Bumped(m)
                            /\ changed = [version |-> v, mfa |-> TRUE, secret |-> v,
                                          pending |-> FALSE, codes |-> RecoveryCodes]
        OBVIOUS
    <2>3. AccountChange(changed)
        <3>1. v \in Nat /\ RecoveryCodes \in Nat /\ TRUE \in BOOLEAN
            BY <1>1, <2>1, <2>2, IdentityAssumption DEF IdentityAssumption
        <3> QED
            BY <2>2, <3>1 DEF AccountChange
    <2> QED
        BY <1>3, <1>6, <2>1, <2>2, <2>3 DEF Accounts!LoadConfirm
<1>7. ASSUME NEW m \in Accounts!Memberships, Accounts!LoadDisable(s, m) PROVE AccountInv'
    <2>1. user[m[2]] # None
        BY <1>7, ActiveAccount DEF Accounts!LoadDisable, Accounts!Principal
    <2>2. PICK v, changed : /\ v = Accounts!Bumped(m)
                            /\ changed = [version |-> v, mfa |-> FALSE, secret |-> 0,
                                          pending |-> FALSE, codes |-> 0]
        OBVIOUS
    <2>3. AccountChange(changed)
        <3>1. v \in Nat /\ 0 \in Nat /\ FALSE \in BOOLEAN
            BY <1>1, <2>1, <2>2
        <3> QED
            BY <2>2, <3>1 DEF AccountChange
    <2> QED
        BY <1>3, <1>7, <2>1, <2>2, <2>3 DEF Accounts!LoadDisable
<1> QED
    BY <1>4, <1>5, <1>6, <1>7

LEMMA ChangesBegin ==
    ASSUME AccountInv, NEW s \in Sessions,
           \/ \E m \in Accounts!Memberships :
                \/ \E names \in RoleSets, own \in BOOLEAN :
                     Accounts!LoadInvite(s, m, names) \/ Accounts!LoadRoles(s, m, names, own)
                \/ \E active \in BOOLEAN : Accounts!LoadStatus(s, m, active)
           \/ \E n \in DOMAIN invitation : Accounts!LoadAccept(s, n)
    PROVE  AccountInv'
<1>1. ASSUME NEW r, AccountHolds(r), Accounts!Begin(s, r) PROVE AccountInv'
    BY <1>1, AccountReadKeeps
    DEF Accounts!Begin, Accounts!Receive, Accounts!rows, Accounts!accounts, identityVars
<1>2. ASSUME NEW m \in Accounts!Memberships, NEW op \in {"accept", "roles"}, NEW names, NEW n,
             op = "roles" => member[m] # None,
             op = "accept" => /\ n \in DOMAIN invitation /\ invitation[n].member = m
                              /\ m[1] \in tenants,
             Accounts!Begin(s, Accounts!Writing(m, op, names, n))
      PROVE  AccountInv'
    <2>1. PICK r : r = Accounts!Writing(m, op, names, n)
        OBVIOUS
    <2>2. /\ r.op = op /\ r.member = m /\ r.invitation = n /\ r.loaded = user[m[2]]
          /\ r.joined = member[m] /\ r.times = written[m].times /\ r.deleted = FALSE
        BY <2>1 DEF Accounts!Writing
    <2>3. r.times \in Nat /\ r.times <= written[m].times
        BY <2>2 DEF AccountInv, RoleTable
    <2>4. r.loaded # None => r.loaded \in Accounts!UserRows
        BY <2>2 DEF AccountInv, UserTable, Accounts!Memberships
    <2>5. r.joined = TRUE => member[m] # None
        BY <2>2, NotNone
    <2>6. DOMAIN r = {"op", "member", "names", "invitation", "loaded", "joined", "revoked",
                      "times", "deleted", "seen", "first"}
        BY <2>1 DEF Accounts!Writing
    <2>7. WriteHolds(r)
        BY <1>2, <2>2, <2>3, <2>4, <2>5, <2>6 DEF WriteHolds
    <2>8. AccountHolds(r)
        BY <2>2, <2>7 DEF AccountHolds
    <2> QED
        BY <1>1, <1>2, <2>1, <2>8
<1>3. ASSUME NEW m \in Accounts!Memberships, NEW names \in RoleSets, Accounts!LoadInvite(s, m, names)
      PROVE  AccountInv'
    <2>1. PICK r : r = [op |-> "invite", member |-> m, names |-> names]
        OBVIOUS
    <2>2. AccountHolds(r)
        BY <1>3, <2>1 DEF AccountHolds, Accounts!LoadInvite
    <2> QED
        BY <1>1, <1>3, <2>1, <2>2 DEF Accounts!LoadInvite
<1>4. ASSUME NEW m \in Accounts!Memberships, NEW names \in RoleSets, NEW own \in BOOLEAN,
             Accounts!LoadRoles(s, m, names, own)
      PROVE  AccountInv'
    BY <1>2, <1>4 DEF Accounts!LoadRoles
<1>5. ASSUME NEW m \in Accounts!Memberships, NEW active \in BOOLEAN, Accounts!LoadStatus(s, m, active)
      PROVE  AccountInv'
    <2>1. PICK x, r : /\ r = [op |-> "status", member |-> m, active |-> active, joined |-> member[m],
                              loaded |-> user[m[2]], revoked |-> x]
                      /\ Accounts!Begin(s, r)
        BY <1>5 DEF Accounts!LoadStatus
    <2>2. member[m] # None /\ user[m[2]] \in Accounts!UserRows
        BY <1>5, AccountOf DEF Accounts!LoadStatus
    <2>3. AccountHolds(r)
        BY <2>1, <2>2 DEF AccountHolds
    <2> QED
        BY <1>1, <2>1, <2>3
<1>6. ASSUME NEW n \in DOMAIN invitation, Accounts!LoadAccept(s, n) PROVE AccountInv'
    <2>1. PICK m : m = invitation[n].member
        OBVIOUS
    <2>2. invitation[n] \in Accounts!InvitationRows /\ m[1] \in tenants
        BY <2>1 DEF AccountInv, InvitationTable
    <2>3. m \in Accounts!Memberships
        BY <2>1, <2>2 DEF Accounts!InvitationRows
    <2> QED
        BY <1>2, <1>6, <2>1, <2>2, <2>3 DEF Accounts!LoadAccept
<1> QED
    BY <1>3, <1>4, <1>5, <1>6

(* The DELETE sees the roles there are.                                     *)
LEMMA RolesDeleted ==
    ASSUME AccountInv, NEW s \in Sessions, Accounts!DeleteRoles(s)
    PROVE  AccountInv'
<1>1. PICK q, m : q = request[s] /\ m = q.member
    OBVIOUS
<1>2. q # None /\ AccountHolds(q) /\ q.op \in {"accept", "roles"}
    BY <1>1 DEF Accounts!DeleteRoles, AccountInv, AccountRequests, InFlight
<1>3. PICK x, f, r : /\ r = [q EXCEPT !.deleted = TRUE, !.seen = role[m], !.revoked = x, !.first = f]
                     /\ Accounts!Continue(s, r)
    BY <1>1 DEF Accounts!DeleteRoles
<1>4. WriteHolds(q)
    BY <1>2 DEF AccountHolds
<1>5. DOMAIN q = {"op", "member", "names", "invitation", "loaded", "joined", "revoked",
                  "times", "deleted", "seen", "first"}
    BY <1>4 DEF WriteHolds
<1>6. /\ r.op = q.op /\ r.member = m /\ r.invitation = q.invitation /\ r.loaded = q.loaded
      /\ r.joined = q.joined /\ r.times = q.times /\ r.seen = role[m]
      /\ DOMAIN r = DOMAIN q
    BY <1>1, <1>3, <1>5
<1>7. WriteHolds(r)
    BY <1>1, <1>4, <1>5, <1>6 DEF WriteHolds
<1>8. AccountHolds(r)
    BY <1>1, <1>2, <1>6, <1>7 DEF AccountHolds
<1> QED
    BY <1>3, <1>8, AccountReadKeeps
    DEF Accounts!DeleteRoles, Accounts!Continue, Accounts!rows, Accounts!accounts, identityVars

LEMMA AccountAbandoned ==
    ASSUME AccountInv, NEW s \in Sessions, Accounts!Abandon(s)
    PROVE  AccountInv'
BY AccountReadKeeps DEF Accounts!Abandon, Accounts!Fail, Accounts!Done, Accounts!rows,
                        Accounts!accounts, identityVars

(* One account changes, or is created.                                      *)
LEMMA UserChanges ==
    ASSUME UserTable, NEW u \in Users, NEW row \in Accounts!UserRows,
           user' = [user EXCEPT ![u] = row]
    PROVE  UserTable' /\ (\A v \in Users : user[v] # None => user'[v] # None) /\ user'[u] # None
<1>1. row # None
    BY NotNone
<1>2. /\ DOMAIN user' = Users /\ user'[u] = row
      /\ \A v \in Users \ {u} : user'[v] = user[v]
    BY DEF UserTable
<1> QED
    BY <1>1, <1>2 DEF UserTable

LEMMA UserUpdated ==
    ASSUME NEW row \in Accounts!UserRows, NEW loaded, NEW c, AccountChange(c)
    PROVE  Accounts!Update(row, loaded, c) \in Accounts!UserRows
<1> USE DEF Accounts!Update, Accounts!UserRows
<1>1. CASE \E n \in Nat, l \in {None, "locked", "past"} : c = [failed |-> n, locked |-> l]
    BY <1>1
<1>2. CASE \E n \in Nat : c = [codes |-> n]
    BY <1>2
<1>3. CASE \E n \in Nat : c = [version |-> n]
    BY <1>3
<1>4. CASE \E n \in Nat, k \in Nat, x \in BOOLEAN, v \in Nat :
             c = [version |-> v, mfa |-> x, secret |-> n, pending |-> FALSE, codes |-> k]
    <2>1. PICK n \in Nat, k \in Nat, x \in BOOLEAN, v \in Nat :
            c = [version |-> v, mfa |-> x, secret |-> n, pending |-> FALSE, codes |-> k]
        BY <1>4
    <2>2. PICK after : after = Accounts!Update(row, loaded, c)
        OBVIOUS
    <2>3. DOMAIN c = {"version", "mfa", "secret", "pending", "codes"}
          /\ DOMAIN row = {"version", "failed", "locked", "mfa", "secret", "pending", "codes"}
        BY <2>1
    <2>4. \A a \in DOMAIN row : after[a] = row[a] \/ (a \in DOMAIN c /\ after[a] = c[a])
        BY <2>2
    <2>5. after = [a \in DOMAIN row |-> after[a]]
        BY <2>2
    <2>6. /\ after["version"] \in Nat /\ after["failed"] \in Nat
          /\ after["locked"] \in {None, "locked", "past"}
          /\ after["secret"] \in Nat /\ after["codes"] \in Nat
        BY <2>1, <2>3, <2>4
    <2>7. after["mfa"] \in BOOLEAN /\ after["pending"] \in BOOLEAN
        <3>1. c["mfa"] \in BOOLEAN /\ c["pending"] \in BOOLEAN
            BY <2>1
        <3>2. row["mfa"] \in BOOLEAN /\ row["pending"] \in BOOLEAN
            OBVIOUS
        <3> QED
            BY <2>3, <2>4, <3>1, <3>2
    <2>8. after \in Accounts!UserRows
        BY <2>3, <2>5, <2>6, <2>7
    <2> QED
        BY <2>2, <2>8
<1> QED
    BY <1>1, <1>2, <1>3, <1>4 DEF AccountChange

(* Sessions are revoked, and stay linked as they are.                       *)
LEMMA SessionsRevoked ==
    ASSUME SessionTable,
           \A u \in Users : user[u] # None => user'[u] # None,
           DOMAIN session' = DOMAIN session, session' = [i \in DOMAIN session |-> session'[i]],
           \A i \in DOMAIN session :
             session'[i] = session[i] \/ session'[i] = [session[i] EXCEPT !.revoked = TRUE]
    PROVE  /\ SessionTable' /\ Len(session') = Len(session)
           /\ \A i \in DOMAIN session :
                session'[i].user = session[i].user /\ session'[i].tenant = session[i].tenant
<1>1. session \in Seq(Accounts!SessionRows)
    BY DEF SessionTable
<1>2. \A i \in DOMAIN session : session[i] \in Accounts!SessionRows
    BY <1>1
<1>3. ASSUME NEW i \in DOMAIN session
      PROVE  /\ session'[i] \in Accounts!SessionRows
             /\ session'[i].user = session[i].user /\ session'[i].tenant = session[i].tenant
             /\ session'[i].parent = session[i].parent /\ session'[i].next = session[i].next
             /\ session[i].revoked => session'[i].revoked
             /\ session[i].user \in Users
    <2>1. PICK row, now : row = session[i] /\ now = session'[i]
        OBVIOUS
    <2>2. row \in Accounts!SessionRows
        BY <1>2, <2>1
    <2>3. CASE now = row
        BY <2>1, <2>2, <2>3 DEF Accounts!SessionRows
    <2>4. CASE now = [row EXCEPT !.revoked = TRUE]
        <3>1. /\ now \in Accounts!SessionRows /\ now.revoked = TRUE
              /\ now.user = row.user /\ now.tenant = row.tenant
              /\ now.parent = row.parent /\ now.next = row.next /\ row.user \in Users
            BY <2>2, <2>4 DEF Accounts!SessionRows
        <3> QED
            BY <2>1, <3>1
    <2> QED
        BY <2>1, <2>3, <2>4
<1>4. session' \in Seq(Accounts!SessionRows) /\ Len(session') = Len(session)
    <2>1. PICK n : n = Len(session)
        OBVIOUS
    <2>2. n \in Nat /\ DOMAIN session = 1 .. n
        BY <1>1, <2>1
    <2>3. session' \in [1 .. n -> Accounts!SessionRows]
        BY <1>3, <2>2
    <2>4. session' \in Seq(Accounts!SessionRows)
        BY <2>2, <2>3, SeqDef
    <2>5. Len(session') = n
        BY <2>2, <2>3, <2>4
    <2> QED
        BY <2>1, <2>4, <2>5
<1>5. ASSUME NEW i \in DOMAIN session
      PROVE  /\ user'[session'[i].user] # None /\ Exchanged(i)'
             /\ session'[i].parent <= Len(session') /\ session'[i].next <= Len(session')
    <2>1. Exchanged(i) /\ user[session[i].user] # None
          /\ session[i].parent <= Len(session) /\ session[i].next <= Len(session)
        BY DEF SessionTable
    <2>2. Exchanged(i)'
        BY <1>3, <2>1 DEF Exchanged
    <2> QED
        BY <1>3, <1>4, <2>1, <2>2
<1> QED
    BY <1>3, <1>4, <1>5 DEF SessionTable

LEMMA RevokedRows ==
    ASSUME NEW R, NEW row \in Accounts!SessionRows, NEW i
    PROVE  \/ [row EXCEPT !.revoked = @ \/ i \in R] = row
           \/ [row EXCEPT !.revoked = @ \/ i \in R] = [row EXCEPT !.revoked = TRUE]
<1>1. CASE row.revoked \/ i \in R
    BY <1>1
<1>2. CASE ~row.revoked /\ i \notin R
    <2>1. row.revoked = FALSE
        BY <1>2 DEF Accounts!SessionRows
    <2> QED
        BY <1>2, <2>1 DEF Accounts!SessionRows
<1> QED
    BY <1>1, <1>2

LEMMA UserChangesAtOnce ==
    ASSUME AccountInv, NEW u \in Users, NEW row \in Accounts!UserRows,
           user' = [user EXCEPT ![u] = row],
           UNCHANGED <<tenants, member, role, invitation, written, overlapped,
                       session, challenge, reset, request>>
    PROVE  AccountInv'
<1>1. UserTable' /\ RowsStay
    BY UserChanges DEF AccountInv, RowsStay
<1>2. StampsStay /\ SequencesStay
    BY DEF StampsStay, SequencesStay, AccountInv, RoleTable
<1>3. AccountRequests'
    BY <1>1, <1>2, AccountRequestsSame DEF AccountInv, AccountGrows
<1> QED
    BY <1>1, <1>3, TablesStay DEF AccountInv

LEMMA UsersAtOnce ==
    ASSUME AccountInv,
           \/ \E u \in Users : Accounts!LockEnds(u)
           \/ \E m \in Accounts!Memberships : Accounts!Enroll(m)
    PROVE  AccountInv'
<1>1. ASSUME NEW u \in Users, Accounts!LockEnds(u) PROVE AccountInv'
    <2>1. user[u] \in Accounts!UserRows
        BY <1>1 DEF Accounts!LockEnds, AccountInv, UserTable
    <2>2. PICK row : row = [user[u] EXCEPT !.locked = "past"]
        OBVIOUS
    <2>3. row \in Accounts!UserRows
        BY <2>1, <2>2 DEF Accounts!UserRows
    <2>4. user' = [user EXCEPT ![u] = row]
        BY <1>1, <2>2 DEF Accounts!LockEnds
    <2> QED
        BY <1>1, <2>3, <2>4, UserChangesAtOnce DEF Accounts!LockEnds, Accounts!requests
<1>2. ASSUME NEW m \in Accounts!Memberships, Accounts!Enroll(m) PROVE AccountInv'
    <2>1. PICK u : u = m[2]
        OBVIOUS
    <2>2. u \in Users /\ user[u] \in Accounts!UserRows
        BY <1>2, <2>1, ActiveAccount DEF Accounts!Enroll, Accounts!Principal, Accounts!Memberships
    <2>3. PICK row : row = [user[u] EXCEPT !.pending = TRUE]
        OBVIOUS
    <2>4. row \in Accounts!UserRows
        BY <2>2, <2>3 DEF Accounts!UserRows
    <2>5. user' = [user EXCEPT ![u] = row]
        BY <1>2, <2>1, <2>3 DEF Accounts!Enroll
    <2> QED
        BY <1>2, <2>2, <2>4, <2>5, UserChangesAtOnce DEF Accounts!Enroll, Accounts!ServeAtOnce
<1> QED
    BY <1>1, <1>2

LEMMA LoggedOut ==
    ASSUME AccountInv, NEW i \in DOMAIN session, Accounts!Logout(i)
    PROVE  AccountInv'
<1>1. /\ session' = [session EXCEPT ![i] = [session[i] EXCEPT !.revoked = TRUE]]
      /\ UNCHANGED <<tenants, user, member, role, invitation, written, overlapped,
                     challenge, reset, request>>
    BY DEF Accounts!Logout, Accounts!ServeAtOnce, Accounts!accounts
<1>2. /\ DOMAIN session' = DOMAIN session /\ session' = [j \in DOMAIN session |-> session'[j]]
      /\ \A j \in DOMAIN session :
           session'[j] = session[j] \/ session'[j] = [session[j] EXCEPT !.revoked = TRUE]
    BY <1>1
<1>3. RowsStay
    BY <1>1 DEF RowsStay
<1>4. SessionTable' /\ SequencesStay
    BY <1>1, <1>2, <1>3, SessionsRevoked DEF AccountInv, RowsStay, SequencesStay
<1>5. StampsStay
    BY <1>1 DEF StampsStay, AccountInv, RoleTable
<1>6. AccountRequests'
    BY <1>1, <1>3, <1>4, <1>5, AccountRequestsSame DEF AccountInv, AccountGrows
<1>7. UserTable'
    BY <1>1 DEF AccountInv, UserTable
<1> QED
    BY <1>1, <1>3, <1>4, <1>6, <1>7, TablesStay DEF AccountInv

(* An invitation is added, or its status changes.                           *)
LEMMA InvitationAdded ==
    ASSUME AccountInv, RowsStay, NEW m \in Accounts!Memberships, m[1] \in tenants',
           NEW names \in RoleSets \union {{"tenant_admin"}},
           invitation' = Accounts!Invited(m, names)
    PROVE  /\ InvitationTable' /\ DOMAIN invitation \subseteq DOMAIN invitation'
           /\ \A n \in DOMAIN invitation : invitation'[n].member = invitation[n].member
<1>1. PICK row : row = [member |-> m, names |-> names, status |-> "pending"]
    OBVIOUS
<1>2. row \in Accounts!InvitationRows /\ row.member = m /\ row.status = "pending"
    BY <1>1 DEF Accounts!InvitationRows
<1>3. invitation \in Seq(Accounts!InvitationRows) /\ invitation' = Append(invitation, row)
    BY <1>1 DEF AccountInv, InvitationTable, Accounts!Invited
<1>4. /\ invitation' \in Seq(Accounts!InvitationRows)
      /\ DOMAIN invitation' = DOMAIN invitation \union {Len(invitation) + 1}
      /\ invitation'[Len(invitation) + 1] = row
      /\ \A n \in DOMAIN invitation : invitation'[n] = invitation[n]
    BY <1>2, <1>3
<1>5. ASSUME NEW n \in DOMAIN invitation
      PROVE  /\ invitation[n].member[1] \in tenants'
             /\ invitation[n].status = "accepted" =>
                  user'[invitation[n].member[2]] # None /\ member'[invitation[n].member] # None
    <2>1. invitation[n] \in Accounts!InvitationRows
        BY <1>3
    <2>2. invitation[n].member \in Accounts!Memberships /\ invitation[n].member[2] \in Users
        BY <2>1 DEF Accounts!InvitationRows, Accounts!Memberships
    <2> QED
        BY <2>2 DEF AccountInv, InvitationTable, RowsStay
<1> QED
    BY <1>2, <1>4, <1>5 DEF InvitationTable

LEMMA InvitationMoves ==
    ASSUME AccountInv, RowsStay, NEW n \in DOMAIN invitation,
           NEW x \in {"pending", "lapsed", "accepted"},
           x = "accepted" => /\ user'[invitation[n].member[2]] # None
                             /\ member'[invitation[n].member] # None,
           invitation' = [invitation EXCEPT ![n].status = x]
    PROVE  /\ InvitationTable' /\ DOMAIN invitation \subseteq DOMAIN invitation'
           /\ \A k \in DOMAIN invitation : invitation'[k].member = invitation[k].member
<1>1. PICK row, now : row = invitation[n] /\ now = [row EXCEPT !.status = x]
    OBVIOUS
<1>2. invitation \in Seq(Accounts!InvitationRows)
    BY DEF AccountInv, InvitationTable
<1>3. row \in Accounts!InvitationRows
    BY <1>1, <1>2
<1>4. now \in Accounts!InvitationRows /\ now.member = row.member /\ now.status = x
    BY <1>1, <1>3 DEF Accounts!InvitationRows
<1>5. invitation' = [invitation EXCEPT ![n] = now]
    BY <1>1
<1>6. /\ invitation' \in Seq(Accounts!InvitationRows) /\ DOMAIN invitation' = DOMAIN invitation
      /\ invitation'[n] = now
      /\ \A k \in DOMAIN invitation \ {n} : invitation'[k] = invitation[k]
    BY <1>2, <1>4, <1>5
<1>7. ASSUME NEW k \in DOMAIN invitation
      PROVE  /\ invitation[k].member[1] \in tenants'
             /\ invitation[k].status = "accepted" =>
                  user'[invitation[k].member[2]] # None /\ member'[invitation[k].member] # None
    <2>1. invitation[k] \in Accounts!InvitationRows
        BY <1>2
    <2>2. invitation[k].member \in Accounts!Memberships /\ invitation[k].member[2] \in Users
        BY <2>1 DEF Accounts!InvitationRows, Accounts!Memberships
    <2> QED
        BY <2>2 DEF AccountInv, InvitationTable, RowsStay
<1>8. ASSUME NEW k \in DOMAIN invitation'
      PROVE  /\ invitation'[k].member[1] \in tenants'
             /\ invitation'[k].status = "accepted" =>
                  user'[invitation'[k].member[2]] # None /\ member'[invitation'[k].member] # None
    <2>1. CASE k = n
        BY <1>1, <1>4, <1>6, <1>7, <2>1
    <2>2. CASE k # n
        BY <1>6, <1>7, <2>2
    <2> QED
        BY <2>1, <2>2
<1> QED
    BY <1>1, <1>4, <1>6, <1>8 DEF InvitationTable

LEMMA ResetRequested ==
    ASSUME AccountInv, NEW m \in Accounts!Memberships, Accounts!RequestReset(m)
    PROVE  AccountInv'
<1>1. PICK row : row = [member |-> m, used |-> FALSE]
    OBVIOUS
<1>2. /\ reset' = Append(reset, row)
      /\ UNCHANGED <<tenants, user, member, role, invitation, written, overlapped,
                     session, challenge, request>>
    BY <1>1 DEF Accounts!RequestReset, Accounts!ServeAtOnce, Accounts!accounts
<1>3. row \in Accounts!ResetRows /\ row.member = m /\ reset \in Seq(Accounts!ResetRows)
    BY <1>1 DEF Accounts!ResetRows, AccountInv, ResetTable
<1>4. /\ reset' \in Seq(Accounts!ResetRows) /\ DOMAIN reset' = DOMAIN reset \union {Len(reset) + 1}
      /\ reset'[Len(reset) + 1] = row /\ \A n \in DOMAIN reset : reset'[n] = reset[n]
    BY <1>2, <1>3
<1>5. user[m[2]] # None
    BY ActiveAccount DEF Accounts!RequestReset
<1>6. ResetTable'
    BY <1>2, <1>3, <1>4, <1>5 DEF AccountInv, ResetTable
<1>7. RowsStay
    BY <1>2 DEF RowsStay
<1>8. StampsStay
    BY <1>2 DEF StampsStay, AccountInv, RoleTable
<1>9. SequencesStay
    BY <1>2, <1>4 DEF SequencesStay
<1>10. AccountRequests'
    BY <1>2, <1>7, <1>8, <1>9, AccountRequestsSame DEF AccountInv, AccountGrows
<1>11. UserTable'
    BY <1>2 DEF AccountInv, UserTable
<1> QED
    BY <1>2, <1>6, <1>7, <1>10, <1>11, TablesStay DEF AccountInv

LEMMA InvitationsAtOnce ==
    ASSUME AccountInv,
           \/ \E m \in Accounts!Memberships : Accounts!Onboard(m)
           \/ \E n \in DOMAIN invitation : Accounts!Lapse(n) \/ Accounts!Resend(n)
    PROVE  AccountInv'
<1>1. UNCHANGED <<user, member, role, written, overlapped, session, challenge, reset, request>>
    BY DEF Accounts!Onboard, Accounts!Lapse, Accounts!Resend, Accounts!ServeAtOnce,
           Accounts!requests
<1>2. RowsStay
    BY DEF RowsStay, Accounts!Onboard, Accounts!Lapse, Accounts!Resend
<1>3. /\ InvitationTable' /\ DOMAIN invitation \subseteq DOMAIN invitation'
      /\ \A n \in DOMAIN invitation : invitation'[n].member = invitation[n].member
    <2>1. ASSUME NEW m \in Accounts!Memberships, Accounts!Onboard(m)
          PROVE  m[1] \in tenants' /\ invitation' = Accounts!Invited(m, {"tenant_admin"})
        BY <2>1 DEF Accounts!Onboard
    <2>2. ASSUME NEW n \in DOMAIN invitation, Accounts!Lapse(n) \/ Accounts!Resend(n)
          PROVE  \E x \in {"pending", "lapsed"} : invitation' = [invitation EXCEPT ![n].status = x]
        BY <2>2 DEF Accounts!Lapse, Accounts!Resend
    <2>3. CASE \E m \in Accounts!Memberships : Accounts!Onboard(m)
        BY <1>2, <2>1, <2>3, InvitationAdded
    <2>4. CASE \E n \in DOMAIN invitation : Accounts!Lapse(n) \/ Accounts!Resend(n)
        BY <1>2, <2>2, <2>4, InvitationMoves
    <2> QED
        BY <2>3, <2>4
<1>4. StampsStay
    BY <1>1 DEF StampsStay, AccountInv, RoleTable
<1>5. SequencesStay
    BY <1>1, <1>3 DEF SequencesStay
<1>6. AccountRequests'
    BY <1>1, <1>2, <1>4, <1>5, AccountRequestsSame DEF AccountInv, AccountGrows
<1>7. UserTable'
    BY <1>1 DEF AccountInv, UserTable
<1> QED
    BY <1>1, <1>2, <1>3, <1>6, <1>7, TablesStay DEF AccountInv

LEMMA InviteCommits ==
    ASSUME AccountInv, NEW s \in Sessions, Accounts!CommitInvite(s)
    PROVE  AccountInv'
<1>1. PICK q : q = request[s]
    OBVIOUS
<1>2. q # None /\ AccountHolds(q) /\ q.op = "invite"
    BY <1>1 DEF Accounts!CommitInvite, Accounts!Serving, AccountInv, AccountRequests, InFlight
<1>3. /\ invitation' = Accounts!Invited(q.member, q.names)
      /\ request' = [request EXCEPT ![s] = None]
      /\ UNCHANGED <<tenants, user, member, role, written, overlapped, session, challenge, reset>>
    BY <1>1 DEF Accounts!CommitInvite, Accounts!Done
<1>4. RowsStay
    BY <1>3 DEF RowsStay
<1>5. /\ q.member \in Accounts!Memberships /\ q.member[1] \in tenants'
      /\ q.names \in RoleSets \union {{"tenant_admin"}}
    BY <1>2, <1>3 DEF AccountHolds
<1>6. /\ InvitationTable' /\ DOMAIN invitation \subseteq DOMAIN invitation'
      /\ \A n \in DOMAIN invitation : invitation'[n].member = invitation[n].member
    BY <1>3, <1>4, <1>5, InvitationAdded
<1>7. StampsStay
    BY <1>3 DEF StampsStay, AccountInv, RoleTable
<1>8. SequencesStay
    BY <1>3, <1>6 DEF SequencesStay
<1>9. AccountRequests'
    BY <1>3, <1>4, <1>7, <1>8, AccountRequestsKept DEF AccountInv, AccountGrows
<1>10. UserTable'
    BY <1>3 DEF AccountInv, UserTable
<1> QED
    BY <1>3, <1>4, <1>6, <1>9, <1>10, TablesStay DEF AccountInv

LEMMA SessionsRevokedBy ==
    ASSUME SessionTable, NEW R,
           \A u \in Users : user[u] # None => user'[u] # None,
           session' = [i \in DOMAIN session |-> [session[i] EXCEPT !.revoked = @ \/ i \in R]]
    PROVE  /\ SessionTable' /\ DOMAIN session' = DOMAIN session
           /\ \A i \in DOMAIN session :
                session'[i].user = session[i].user /\ session'[i].tenant = session[i].tenant
<1>1. \A i \in DOMAIN session : session[i] \in Accounts!SessionRows
    BY DEF SessionTable
<1>2. ASSUME NEW i \in DOMAIN session
      PROVE  session'[i] = session[i] \/ session'[i] = [session[i] EXCEPT !.revoked = TRUE]
    <2>1. PICK row : row = session[i]
        OBVIOUS
    <2>2. session'[i] = [row EXCEPT !.revoked = @ \/ i \in R] /\ row \in Accounts!SessionRows
        BY <1>1, <2>1
    <2> QED
        BY <2>1, <2>2, RevokedRows
<1>3. DOMAIN session' = DOMAIN session /\ session' = [i \in DOMAIN session |-> session'[i]]
    OBVIOUS
<1> QED
    BY <1>2, <1>3, SessionsRevoked

(* The version of an account goes up from the one that was loaded.          *)
LEMMA VersionRaised ==
    ASSUME NEW row \in Accounts!UserRows, NEW loaded \in Accounts!UserRows
    PROVE  Accounts!Update(row, loaded, [version |-> loaded.version + 1]) \in Accounts!UserRows
<1>1. loaded.version + 1 \in Nat
    BY DEF Accounts!UserRows
<1>2. AccountChange([version |-> loaded.version + 1])
    BY <1>1 DEF AccountChange
<1> QED
    BY <1>2, UserUpdated

LEMMA StatusCommits ==
    ASSUME AccountInv, NEW s \in Sessions, Accounts!CommitStatus(s)
    PROVE  AccountInv'
<1>1. PICK q, m : q = request[s] /\ m = q.member
    OBVIOUS
<1>2. /\ q # None /\ m \in Accounts!Memberships /\ member[m] # None
      /\ q.loaded \in Accounts!UserRows /\ q.active \in BOOLEAN
    BY <1>1 DEF Accounts!CommitStatus, Accounts!Serving, AccountInv, AccountRequests, InFlight,
                AccountHolds
<1>3. PICK u, row : /\ u = m[2]
                    /\ row = Accounts!Update(user[u], q.loaded, [version |-> q.loaded.version + 1])
    OBVIOUS
<1>4. /\ member' = [member EXCEPT ![m] = IF q.active = q.joined THEN member[m] ELSE q.active]
      /\ user' = [user EXCEPT ![u] = row]
      /\ session' = [i \in DOMAIN session |-> [session[i] EXCEPT !.revoked = @ \/ i \in q.revoked]]
      /\ request' = [request EXCEPT ![s] = None]
      /\ UNCHANGED <<tenants, role, invitation, written, overlapped, challenge, reset>>
    BY <1>1, <1>3 DEF Accounts!CommitStatus, Accounts!Done
<1>5. u \in Users /\ row \in Accounts!UserRows
    <2>1. user[u] \in Accounts!UserRows
        BY <1>2, <1>3, AccountOf
    <2> QED
        BY <1>2, <1>3, <2>1, VersionRaised DEF Accounts!Memberships
<1>6. UserTable' /\ \A v \in Users : user[v] # None => user'[v] # None
    BY <1>4, <1>5, UserChanges DEF AccountInv
<1>7. member \in [Accounts!Memberships -> BOOLEAN \union {None}]
    BY DEF AccountInv, MemberTable
<1>8. /\ member' \in [Accounts!Memberships -> BOOLEAN \union {None}]
      /\ member'[m] # None /\ \A k \in Accounts!Memberships \ {m} : member'[k] = member[k]
    <2>1. PICK x : x = IF q.active = q.joined THEN member[m] ELSE q.active
        OBVIOUS
    <2>2. x \in BOOLEAN \union {None} /\ x # None
        BY <1>2, <1>7, <2>1, NotNone
    <2> QED
        BY <1>2, <1>4, <1>7, <2>1, <2>2
<1>9. RowsStay
    BY <1>4, <1>6, <1>8 DEF RowsStay
<1>10. MemberTable'
    <2>1. \A k \in Accounts!Memberships : k[2] \in Users
        BY DEF Accounts!Memberships
    <2> QED
        BY <1>2, <1>4, <1>6, <1>8, <2>1 DEF AccountInv, MemberTable
<1>11. /\ SessionTable' /\ DOMAIN session' = DOMAIN session
       /\ \A i \in DOMAIN session :
            session'[i].user = session[i].user /\ session'[i].tenant = session[i].tenant
    BY <1>4, <1>6, SessionsRevokedBy DEF AccountInv
<1>12. StampsStay
    BY <1>4 DEF StampsStay, AccountInv, RoleTable
<1>13. SequencesStay
    BY <1>4, <1>11 DEF SequencesStay
<1>14. AccountRequests'
    BY <1>4, <1>9, <1>12, <1>13, AccountRequestsKept DEF AccountInv, AccountGrows
<1> QED
    BY <1>4, <1>6, <1>9, <1>10, <1>11, <1>14, TablesStay DEF AccountInv

(* The roles are the ones of this request, if nobody else wrote them since  *)
(* the request looked.                                                      *)
LEMMA RolesReplaced ==
    ASSUME RoleTable, NEW q, NEW m \in Accounts!Memberships, m = q.member, WriteHolds(q), q.deleted,
           role' = [role EXCEPT ![m] = Accounts!Remaining(m, q.seen)
                                         \union (q.names \X {written[m].times + 1})],
           written' = [written EXCEPT ![m] = [names |-> q.names, times |-> @.times + 1]],
           overlapped' = IF q.times = written[m].times THEN overlapped ELSE overlapped \union {m}
    PROVE  RoleTable' /\ StampsStay
<1>1. PICK t : t = written[m].times + 1
    OBVIOUS
<1>2. written[m].times \in Nat /\ t \in Nat /\ written[m].times < t
    BY <1>1 DEF RoleTable
<1>3. /\ DOMAIN role' = Accounts!Memberships /\ DOMAIN written' = Accounts!Memberships
      /\ role'[m] = Accounts!Remaining(m, q.seen) \union (q.names \X {t})
      /\ written'[m] = [names |-> q.names, times |-> t]
      /\ \A k \in Accounts!Memberships \ {m} : role'[k] = role[k] /\ written'[k] = written[k]
    BY <1>1 DEF RoleTable
<1>4. ASSUME m \notin overlapped' PROVE Accounts!Names(m)' = q.names
    <2>1. q.times = written[m].times
        BY <1>4
    <2>2. Accounts!Remaining(m, q.seen) = {}
        BY <2>1 DEF WriteHolds, Accounts!Remaining
    <2>3. role'[m] = q.names \X {t}
        BY <1>3, <2>2
    <2>4. {r[1] : r \in q.names \X {t}} = q.names
        <3>1. ASSUME NEW x \in q.names PROVE x \in {r[1] : r \in q.names \X {t}}
            <4>1. <<x, t>> \in q.names \X {t} /\ <<x, t>>[1] = x
                OBVIOUS
            <4> QED
                BY <4>1
        <3>2. \A r \in q.names \X {t} : r[1] \in q.names
            OBVIOUS
        <3> QED
            BY <3>1, <3>2
    <2> QED
        BY <2>3, <2>4 DEF Accounts!Names
<1>5. ASSUME NEW k \in Accounts!Memberships \ overlapped' PROVE Accounts!Names(k)' = written'[k].names
    <2>1. CASE k = m
        BY <1>3, <1>4, <1>5, <2>1
    <2>2. CASE k # m
        <3>1. k \notin overlapped
            BY <1>5
        <3> QED
            BY <1>3, <1>5, <2>2, <3>1 DEF RoleTable, Accounts!Names
    <2> QED
        BY <2>1, <2>2
<1>6. \A k \in Accounts!Memberships :
        /\ written'[k].times \in Nat /\ written[k].times <= written'[k].times
        /\ written'[k].times = written[k].times => role'[k] = role[k]
    <2>1. ASSUME NEW k \in Accounts!Memberships \ {m}
          PROVE  written'[k].times \in Nat /\ written[k].times <= written'[k].times
                 /\ role'[k] = role[k]
        BY <1>3, <2>1 DEF RoleTable
    <2>2. /\ written'[m].times \in Nat /\ written[m].times <= written'[m].times
          /\ written'[m].times # written[m].times
        BY <1>2, <1>3
    <2> QED
        BY <2>1, <2>2
<1> QED
    BY <1>3, <1>5, <1>6 DEF RoleTable, StampsStay

LEMMA RolesCommit ==
    ASSUME AccountInv, NEW s \in Sessions, Accounts!CommitRoles(s)
    PROVE  AccountInv'
<1>1. PICK q, m : q = request[s] /\ m = q.member
    OBVIOUS
<1>2. /\ q # None /\ q.op \in {"accept", "roles"} /\ q.deleted
      /\ m \in Accounts!Memberships /\ WriteHolds(q)
    BY <1>1 DEF Accounts!CommitRoles, AccountInv, AccountRequests, InFlight, AccountHolds
<1>3. PICK u, row : /\ u = m[2]
                    /\ row = IF q.loaded = None THEN Accounts!NewUser
                             ELSE Accounts!Update(user[u], q.loaded,
                                                  [version |-> q.loaded.version + 1])
    OBVIOUS
<1>4. /\ role' = [role EXCEPT ![m] = Accounts!Remaining(m, q.seen)
                                       \union (q.names \X {written[m].times + 1})]
      /\ written' = [written EXCEPT ![m] = [names |-> q.names, times |-> @.times + 1]]
      /\ overlapped' = IF q.times = written[m].times THEN overlapped ELSE overlapped \union {m}
      /\ user' = [user EXCEPT ![u] = row]
      /\ request' = [request EXCEPT ![s] = None]
      /\ UNCHANGED <<tenants, challenge, reset>>
    BY <1>1, <1>3 DEF Accounts!CommitRoles, Accounts!Done
<1>5. /\ q.op = "accept" =>
           /\ member' = [member EXCEPT ![m] = IF q.joined = TRUE THEN member[m] ELSE TRUE]
           /\ invitation' = [invitation EXCEPT ![q.invitation].status = "accepted"]
           /\ UNCHANGED session
      /\ q.op = "roles" =>
           /\ session' = [i \in DOMAIN session |->
                            [session[i] EXCEPT !.revoked = @ \/ i \in q.revoked]]
           /\ UNCHANGED <<member, invitation>>
    <2>1. CASE q.op = "accept"
        BY <1>1, <2>1 DEF Accounts!CommitRoles
    <2>2. CASE q.op = "roles"
        BY <1>1, <2>2 DEF Accounts!CommitRoles
    <2> QED
        BY <1>2, <2>1, <2>2
<1>6. RoleTable' /\ StampsStay
    BY <1>1, <1>2, <1>4, RolesReplaced DEF AccountInv
<1>7. u \in Users /\ row \in Accounts!UserRows
    <2>1. u \in Users
        BY <1>2, <1>3 DEF Accounts!Memberships
    <2>2. CASE q.loaded = None
        <3>1. Accounts!NewUser \in Accounts!UserRows
            BY DEF Accounts!NewUser, Accounts!UserRows
        <3> QED
            BY <1>3, <2>1, <2>2, <3>1
    <2>3. CASE q.loaded # None
        <3>1. q.loaded \in Accounts!UserRows /\ user[u] # None
            BY <1>1, <1>2, <1>3, <2>3 DEF WriteHolds
        <3>2. user[u] \in Accounts!UserRows
            BY <2>1, <3>1 DEF AccountInv, UserTable
        <3> QED
            BY <1>3, <2>1, <2>3, <3>1, <3>2, VersionRaised
    <2> QED
        BY <2>1, <2>2, <2>3
<1>8. UserTable' /\ (\A v \in Users : user[v] # None => user'[v] # None) /\ user'[u] # None
    BY <1>4, <1>7, UserChanges DEF AccountInv
<1>9. member \in [Accounts!Memberships -> BOOLEAN \union {None}]
    BY DEF AccountInv, MemberTable
<1>10. /\ member' \in [Accounts!Memberships -> BOOLEAN \union {None}]
       /\ member'[m] # None /\ \A k \in Accounts!Memberships \ {m} : member'[k] = member[k]
       /\ m[1] \in tenants
    <2>1. CASE q.op = "accept"
        <3>1. PICK x : x = IF q.joined = TRUE THEN member[m] ELSE TRUE
            OBVIOUS
        <3>2. x \in BOOLEAN \union {None} /\ x # None
            BY <1>1, <1>2, <1>9, <3>1, NotNone DEF WriteHolds
        <3> QED
            BY <1>1, <1>2, <1>5, <1>9, <2>1, <3>1, <3>2 DEF WriteHolds
    <2>2. CASE q.op = "roles"
        <3>1. member[m] # None /\ member' = member
            BY <1>1, <1>2, <1>5, <2>2 DEF WriteHolds
        <3> QED
            BY <1>2, <1>9, <3>1, AccountOf
    <2> QED
        BY <1>2, <2>1, <2>2
<1>11. RowsStay
    BY <1>4, <1>8, <1>10 DEF RowsStay
<1>12. MemberTable'
    <2>1. \A k \in Accounts!Memberships : k[2] \in Users
        BY DEF Accounts!Memberships
    <2> QED
        BY <1>2, <1>3, <1>4, <1>8, <1>10, <2>1 DEF AccountInv, MemberTable
<1>13. /\ SessionTable' /\ DOMAIN session' = DOMAIN session
       /\ \A i \in DOMAIN session :
            session'[i].user = session[i].user /\ session'[i].tenant = session[i].tenant
    <2>1. CASE q.op = "accept"
        BY <1>5, <1>11, <2>1, TablesStay
    <2>2. CASE q.op = "roles"
        BY <1>5, <1>8, <2>2, SessionsRevokedBy DEF AccountInv
    <2> QED
        BY <1>2, <2>1, <2>2
<1>14. /\ InvitationTable' /\ DOMAIN invitation \subseteq DOMAIN invitation'
       /\ \A n \in DOMAIN invitation : invitation'[n].member = invitation[n].member
    <2>1. CASE q.op = "accept"
        <3>1. q.invitation \in DOMAIN invitation /\ invitation[q.invitation].member = m
            BY <1>1, <1>2, <2>1 DEF WriteHolds
        <3> QED
            BY <1>3, <1>5, <1>8, <1>10, <1>11, <2>1, <3>1, InvitationMoves
    <2>2. CASE q.op = "roles"
        BY <1>5, <1>11, <2>2, TablesStay
    <2> QED
        BY <1>2, <2>1, <2>2
<1>15. SequencesStay
    BY <1>4, <1>13, <1>14 DEF SequencesStay
<1>16. AccountRequests'
    BY <1>4, <1>6, <1>11, <1>15, AccountRequestsKept DEF AccountInv, AccountGrows
<1> QED
    BY <1>4, <1>6, <1>8, <1>11, <1>12, <1>13, <1>14, <1>16, TablesStay DEF AccountInv

(* What an exchange of session p leaves of the sessions                     *)
Kept(R, p, kept) ==
    \A i \in DOMAIN session :
      /\ kept[i].user = session[i].user /\ kept[i].tenant = session[i].tenant
      /\ kept[i].parent = session[i].parent
      /\ kept[i].next = IF i = p THEN Len(session) + 1 ELSE session[i].next
      /\ session[i].revoked \/ i \in R => kept[i].revoked

KeptOf(R, p) ==
    [i \in DOMAIN session |->
       [session[i] EXCEPT !.revoked = @ \/ i \in R,
                          !.next = IF i = p THEN Len(session) + 1 ELSE @]]

LEMMA SessionsKept ==
    ASSUME SessionTable, NEW R, NEW p, NEW kept,
           kept = KeptOf(R, p)
    PROVE  kept \in Seq(Accounts!SessionRows) /\ Len(kept) = Len(session) /\ Kept(R, p, kept)
<1>1. PICK n : n = Len(session)
    OBVIOUS
<1>2. n \in Nat /\ DOMAIN session = 1 .. n /\ session \in Seq(Accounts!SessionRows)
    BY <1>1 DEF SessionTable
<1>3. \A i \in DOMAIN session : session[i] \in Accounts!SessionRows
    BY DEF SessionTable
<1>4. ASSUME NEW i \in DOMAIN session
      PROVE  /\ kept[i] \in Accounts!SessionRows
             /\ kept[i].user = session[i].user /\ kept[i].tenant = session[i].tenant
             /\ kept[i].parent = session[i].parent
             /\ kept[i].next = IF i = p THEN n + 1 ELSE session[i].next
             /\ session[i].revoked \/ i \in R => kept[i].revoked
    <2>1. PICK row, b, x : /\ row = session[i] /\ b = (row.revoked \/ i \in R)
                           /\ x = IF i = p THEN n + 1 ELSE row.next
        OBVIOUS
    <2>2. row \in Accounts!SessionRows
        BY <1>3, <2>1
    <2>3. b \in BOOLEAN
        BY <2>1
    <2>4. x \in Nat
        <3>1. row.next \in Nat
            BY <2>2 DEF Accounts!SessionRows
        <3> QED
            BY <1>2, <2>1, <3>1
    <2>5. PICK now : now = kept[i]
        OBVIOUS
    <2>6. now = [row EXCEPT !.revoked = b, !.next = x]
        BY <1>1, <2>1, <2>5 DEF KeptOf
    <2>7. /\ now \in Accounts!SessionRows
          /\ now.user = row.user /\ now.tenant = row.tenant
          /\ now.parent = row.parent /\ now.next = x
          /\ b => now.revoked
        <3>1. /\ now \in Accounts!SessionRows
              /\ now.user = row.user /\ now.tenant = row.tenant
              /\ now.parent = row.parent /\ now.next = x
            BY <2>2, <2>3, <2>4, <2>6 DEF Accounts!SessionRows
        <3>2. b => now.revoked
            BY <2>2, <2>6 DEF Accounts!SessionRows
        <3> QED
            BY <3>1, <3>2
    <2>8. session[i].revoked \/ i \in R => kept[i].revoked
        BY <2>1, <2>5, <2>7
    <2> QED
        BY <2>1, <2>5, <2>7, <2>8
<1>5. Kept(R, p, kept)
    BY <1>1, <1>4 DEF Kept
<1>6. kept \in [1 .. n -> Accounts!SessionRows]
    <2>1. kept = [i \in 1 .. n |-> kept[i]]
        BY <1>2 DEF KeptOf
    <2> QED
        BY <1>2, <1>4, <2>1
<1>7. kept \in Seq(Accounts!SessionRows) /\ Len(kept) = n
    <2>1. kept \in Seq(Accounts!SessionRows)
        BY <1>2, <1>6, SeqDef
    <2> QED
        BY <1>2, <1>6, <2>1
<1> QED
    BY <1>1, <1>5, <1>7

(* A session is exchanged for one that descends from it, or opened.         *)
LEMMA SessionIssued ==
    ASSUME SessionTable, NEW R, NEW issued \in Accounts!SessionRows, NEW p \in Nat,
           \A u \in Users : user[u] # None => user'[u] # None,
           user'[issued.user] # None, issued.parent = p, issued.next = 0,
           p # 0 => /\ p \in DOMAIN session /\ p \in R
                    /\ session[p].user = issued.user /\ session[p].tenant = issued.tenant,
           NEW kept \in Seq(Accounts!SessionRows), Len(kept) = Len(session), Kept(R, p, kept),
           session' = Append(kept, issued)
    PROVE  /\ SessionTable' /\ DOMAIN session \subseteq DOMAIN session'
           /\ \A i \in DOMAIN session :
                session'[i].user = session[i].user /\ session'[i].tenant = session[i].tenant
<1>1. PICK n : n = Len(session)
    OBVIOUS
<1>2. /\ n \in Nat /\ DOMAIN session = 1 .. n
      /\ \A i \in 1 .. n : session[i] \in Accounts!SessionRows
    <2>1. \A i \in DOMAIN session : session[i] \in Accounts!SessionRows
        BY DEF SessionTable
    <2> QED
        BY <1>1, <2>1 DEF SessionTable
<1>3. ASSUME NEW i \in 1 .. n
      PROVE  /\ session[i].user \in Users
             /\ kept[i].user = session[i].user /\ kept[i].tenant = session[i].tenant
             /\ kept[i].parent = session[i].parent
             /\ kept[i].next = IF i = p THEN n + 1 ELSE session[i].next
    BY <1>1, <1>2 DEF Kept, Accounts!SessionRows
<1>4. \A i \in 1 .. n : session[i].revoked \/ i \in R => kept[i].revoked
    BY <1>2 DEF Kept
<1>5. /\ session' \in Seq(Accounts!SessionRows) /\ Len(session') = n + 1
      /\ DOMAIN session' = 1 .. (n + 1)
      /\ session'[n + 1] = issued /\ \A i \in 1 .. n : session'[i] = kept[i]
    BY <1>1, <1>2
<1>6. /\ 1 .. (n + 1) = (1 .. n) \union {n + 1} /\ n + 1 \notin 1 .. n
      /\ p # 0 => p \in 1 .. n /\ p # n + 1
    BY <1>2
<1>7. ASSUME NEW i \in 1 .. n
      PROVE  /\ user[session[i].user] # None /\ Exchanged(i)
             /\ session[i].parent \in Nat /\ session[i].parent <= n
             /\ session[i].next \in Nat /\ session[i].next <= n
    BY <1>1, <1>2 DEF SessionTable, Accounts!SessionRows
<1>8. ASSUME NEW i \in 1 .. n PROVE Exchanged(i)'
    <2>1. PICK k : k = session[i].parent
        OBVIOUS
    <2>2. session'[i].parent = k /\ session'[i].user = session[i].user
          /\ session'[i].tenant = session[i].tenant
        BY <1>3, <1>5, <2>1
    <2>3. CASE k = 0
        BY <2>2, <2>3 DEF Exchanged
    <2>4. CASE k # 0
        <3>1. /\ k \in 1 .. n /\ session[k].revoked /\ session[k].next \in 1 .. n
              /\ session[session[k].next].parent = k
              /\ session[k].user = session[i].user /\ session[k].tenant = session[i].tenant
            BY <1>2, <1>7, <2>1, <2>4 DEF Exchanged
        <3>2. /\ session'[k].user = session'[i].user
              /\ session'[k].tenant = session'[i].tenant
              /\ session'[k].next = IF k = p THEN n + 1 ELSE session[k].next
            <4>1. PICK row : row = kept[k]
                OBVIOUS
            <4>2. /\ row.user = session[k].user /\ row.tenant = session[k].tenant
                  /\ row.next = IF k = p THEN n + 1 ELSE session[k].next
                BY <1>3, <3>1, <4>1
            <4>3. session'[k] = row
                BY <1>5, <3>1, <4>1
            <4> QED
                BY <2>2, <3>1, <4>2, <4>3
        <3>4. session'[k].revoked
            BY <1>4, <1>5, <3>1
        <3>3. session'[k].next \in 1 .. (n + 1) /\ session'[session'[k].next].parent = k
            <4>1. CASE k = p
                BY <1>5, <1>6, <3>2, <4>1
            <4>2. CASE k # p
                BY <1>3, <1>5, <1>6, <3>1, <3>2, <4>2
            <4> QED
                BY <4>1, <4>2
        <3> QED
            BY <1>5, <1>6, <2>2, <3>1, <3>2, <3>3, <3>4 DEF Exchanged
    <2> QED
        BY <2>3, <2>4
<1>9. Exchanged(n + 1)'
    <2>1. CASE p = 0
        BY <1>5, <2>1 DEF Exchanged
    <2>2. CASE p # 0
        <3>1. /\ p \in 1 .. n /\ session'[p].revoked /\ session'[p].next = n + 1
              /\ session'[p].user = issued.user /\ session'[p].tenant = issued.tenant
            BY <1>3, <1>4, <1>5, <1>6, <2>2
        <3> QED
            BY <1>5, <1>6, <3>1 DEF Exchanged
    <2> QED
        BY <2>1, <2>2
<1>10. ASSUME NEW i \in 1 .. (n + 1)
       PROVE  /\ user'[session'[i].user] # None /\ Exchanged(i)'
              /\ session'[i].parent <= n + 1 /\ session'[i].next <= n + 1
    <2>1. CASE i \in 1 .. n
        <3>1. user'[session'[i].user] # None /\ Exchanged(i)'
            BY <1>3, <1>5, <1>7, <1>8, <2>1
        <3>2. session'[i].parent = session[i].parent
              /\ session'[i].next = IF i = p THEN n + 1 ELSE session[i].next
            BY <1>3, <1>5, <2>1
        <3> QED
            BY <1>2, <1>7, <2>1, <3>1, <3>2
    <2>2. CASE i = n + 1
        <3>1. p <= n + 1
            BY <1>2, <1>6
        <3> QED
            BY <1>2, <1>5, <1>9, <2>2, <3>1
    <2> QED
        BY <1>6, <2>1, <2>2
<1> QED
    BY <1>2, <1>3, <1>5, <1>6, <1>10 DEF SessionTable

(* A unit of work that issues no session has no session to exchange.        *)
LEMMA NothingExchanged ==
    ASSUME SessionTable, NEW R, session' = KeptOf(R, 0)
    PROVE  session' = [i \in DOMAIN session |-> [session[i] EXCEPT !.revoked = @ \/ i \in R]]
<1>1. \A i \in DOMAIN session : session[i] \in Accounts!SessionRows /\ i # 0
    BY DEF SessionTable
<1>2. ASSUME NEW i \in DOMAIN session
      PROVE  session'[i] = [session[i] EXCEPT !.revoked = @ \/ i \in R]
    <2>1. PICK row, b : row = session[i] /\ b = (row.revoked \/ i \in R)
        OBVIOUS
    <2>2. row \in Accounts!SessionRows /\ i # 0
        BY <1>1, <2>1
    <2>3. session'[i] = [row EXCEPT !.revoked = b, !.next = row.next]
        BY <2>1, <2>2 DEF KeptOf
    <2>4. [row EXCEPT !.revoked = b, !.next = row.next] = [row EXCEPT !.revoked = b]
        BY <2>2 DEF Accounts!SessionRows
    <2> QED
        BY <2>1, <2>3, <2>4
<1> QED
    BY <1>2 DEF KeptOf

LEMMA Appended ==
    ASSUME NEW S, NEW seq \in Seq(S), NEW x \in S
    PROVE  /\ Append(seq, x) \in Seq(S)
           /\ DOMAIN Append(seq, x) = DOMAIN seq \union {Len(seq) + 1}
           /\ Append(seq, x)[Len(seq) + 1] = x
           /\ \A i \in DOMAIN seq : Append(seq, x)[i] = seq[i]
OBVIOUS

(* The challenge that was answered, and the one that is issued              *)
Answered(q) ==
    IF q.used = 0 THEN challenge
    ELSE [challenge EXCEPT ![q.used].attempts = q.attempts, ![q.used].done = @ \/ q.done]

LEMMA ChallengesCommit ==
    ASSUME AccountInv, RowsStay, NEW q, WorkHolds(q), q.member \in Accounts!Memberships,
           NEW old, old = Answered(q),
           NEW row, row = [user |-> q.member[2], tenant |-> q.member[1],
                           attempts |-> 0, done |-> FALSE],
           challenge' = IF q.issues = "challenge" THEN Append(old, row) ELSE old
    PROVE  ChallengeTable' /\ DOMAIN challenge \subseteq DOMAIN challenge'
<1>1. /\ challenge \in Seq(Accounts!ChallengeRows)
      /\ \A c \in DOMAIN challenge : challenge[c] \in Accounts!ChallengeRows
    BY DEF AccountInv, ChallengeTable
<1>2. \A c \in DOMAIN challenge : challenge[c].user \in Users
    BY <1>1 DEF Accounts!ChallengeRows
<1>3. \A c \in DOMAIN challenge : user'[challenge[c].user] # None
    BY <1>2 DEF AccountInv, ChallengeTable, RowsStay
<1>4. /\ old \in Seq(Accounts!ChallengeRows) /\ DOMAIN old = DOMAIN challenge
      /\ \A c \in DOMAIN challenge : old[c].user = challenge[c].user
    <2>1. CASE q.used = 0
        BY <1>1, <2>1 DEF Answered
    <2>2. CASE q.used # 0
        <3>1. PICK c, before, done, now :
                /\ c = q.used /\ before = challenge[c] /\ done = (before.done \/ q.done)
                /\ now = [before EXCEPT !.attempts = q.attempts, !.done = done]
            OBVIOUS
        <3>2. c \in DOMAIN challenge /\ before \in Accounts!ChallengeRows /\ q.attempts \in Nat
            BY <1>1, <2>2, <3>1 DEF WorkHolds
        <3>3. done \in BOOLEAN
            BY <3>1
        <3>4. now \in Accounts!ChallengeRows /\ now.user = before.user
            BY <3>1, <3>2, <3>3 DEF Accounts!ChallengeRows
        <3>5. old = [challenge EXCEPT ![c] = now]
            BY <2>2, <3>1, <3>2 DEF Answered
        <3> QED
            BY <1>1, <3>1, <3>2, <3>4, <3>5
    <2> QED
        BY <2>1, <2>2
<1>5. /\ row \in Accounts!ChallengeRows /\ row.user \in Users /\ user'[row.user] # None
    <2>1. row.user \in Users /\ row.tenant \in Tenants /\ row.user = q.member[2]
        BY DEF Accounts!Memberships
    <2>2. row \in Accounts!ChallengeRows
        BY <2>1 DEF Accounts!ChallengeRows
    <2> QED
        BY <2>1, <2>2 DEF WorkHolds, RowsStay
<1>6. CASE q.issues # "challenge"
    BY <1>3, <1>4, <1>6 DEF ChallengeTable
<1>7. CASE q.issues = "challenge"
    <2>1. /\ challenge' \in Seq(Accounts!ChallengeRows)
          /\ DOMAIN challenge' = DOMAIN old \union {Len(old) + 1}
          /\ challenge'[Len(old) + 1] = row /\ \A c \in DOMAIN old : challenge'[c] = old[c]
        <3>1. old \in Seq(Accounts!ChallengeRows) /\ row \in Accounts!ChallengeRows
            BY <1>4, <1>5
        <3>2. challenge' = Append(old, row)
            BY <1>7
        <3> QED
            BY <3>1, <3>2, Appended
    <2>2. ASSUME NEW c \in DOMAIN challenge' PROVE user'[challenge'[c].user] # None
        <3>1. CASE c \in DOMAIN old
            BY <1>3, <1>4, <2>1, <3>1
        <3>2. CASE c = Len(old) + 1
            BY <1>5, <2>1, <3>2
        <3> QED
            BY <2>1, <3>1, <3>2
    <2>3. DOMAIN challenge \subseteq DOMAIN challenge'
        BY <1>4, <2>1
    <2> QED
        BY <2>1, <2>2, <2>3 DEF ChallengeTable
<1> QED
    BY <1>6, <1>7

LEMMA ResetsCommit ==
    ASSUME AccountInv, RowsStay, NEW q, WorkHolds(q),
           reset' = IF q.reset = 0 THEN reset ELSE [reset EXCEPT ![q.reset].used = TRUE]
    PROVE  ResetTable' /\ DOMAIN reset \subseteq DOMAIN reset'
<1>1. CASE q.reset = 0
    BY <1>1, TablesStay
<1>2. CASE q.reset # 0
    <2>1. /\ reset \in Seq(Accounts!ResetRows)
          /\ \A n \in DOMAIN reset : reset[n] \in Accounts!ResetRows
        BY DEF AccountInv, ResetTable
    <2>2. \A n \in DOMAIN reset : reset[n].member[2] \in Users
        BY <2>1 DEF Accounts!ResetRows, Accounts!Memberships
    <2>3. \A n \in DOMAIN reset : user'[reset[n].member[2]] # None
        BY <2>2 DEF AccountInv, ResetTable, RowsStay
    <2>4. PICK k, row, now : /\ k = q.reset /\ row = reset[k] /\ now = [row EXCEPT !.used = TRUE]
        OBVIOUS
    <2>5. k \in DOMAIN reset /\ row \in Accounts!ResetRows
        BY <1>2, <2>1, <2>4 DEF WorkHolds
    <2>6. now \in Accounts!ResetRows /\ now.member = row.member
        BY <2>4, <2>5 DEF Accounts!ResetRows
    <2>7. reset' = [reset EXCEPT ![k] = now]
        BY <1>2, <2>4
    <2>8. /\ reset' \in Seq(Accounts!ResetRows) /\ DOMAIN reset' = DOMAIN reset
          /\ \A n \in DOMAIN reset : reset'[n].member = reset[n].member
        BY <2>1, <2>4, <2>5, <2>6, <2>7
    <2> QED
        BY <2>3, <2>8 DEF ResetTable
<1> QED
    BY <1>1, <1>2

LEMMA AccountCommits ==
    ASSUME AccountInv, NEW s \in Sessions, Accounts!CommitAccount(s)
    PROVE  AccountInv'
<1>1. PICK q, m, u : q = request[s] /\ m = q.member /\ u = m[2]
    OBVIOUS
<1>2. q # None /\ m \in Accounts!Memberships /\ WorkHolds(q)
    BY <1>1 DEF Accounts!CommitAccount, Accounts!Serving, AccountInv, AccountRequests, InFlight,
                AccountHolds
<1>3. PICK row, issued, kept, old, asked :
        /\ row = Accounts!Update(user[u], q.loaded, q.changed)
        /\ issued = [user |-> u, tenant |-> m[1], version |-> q.loaded.version,
                     parent |-> q.parent, next |-> 0, revoked |-> FALSE]
        /\ kept = KeptOf(q.revoked, q.parent)
        /\ old = Answered(q)
        /\ asked = [user |-> u, tenant |-> m[1], attempts |-> 0, done |-> FALSE]
    OBVIOUS
<1>4. /\ user' = [user EXCEPT ![u] = row]
      /\ session' = IF q.issues = "session" THEN Append(kept, issued) ELSE kept
      /\ challenge' = IF q.issues = "challenge" THEN Append(old, asked) ELSE old
      /\ reset' = IF q.reset = 0 THEN reset ELSE [reset EXCEPT ![q.reset].used = TRUE]
      /\ request' = [request EXCEPT ![s] = None]
      /\ UNCHANGED <<tenants, member, role, invitation, written, overlapped>>
    <2>1. /\ user' = [user EXCEPT ![u] = row]
          /\ reset' = IF q.reset = 0 THEN reset ELSE [reset EXCEPT ![q.reset].used = TRUE]
          /\ request' = [request EXCEPT ![s] = None]
          /\ UNCHANGED <<tenants, member, role, invitation, written, overlapped>>
        BY <1>1, <1>3 DEF Accounts!CommitAccount, Accounts!Done
    <2>2. session' = IF q.issues = "session" THEN Append(kept, issued) ELSE kept
        BY <1>1, <1>3 DEF Accounts!CommitAccount, KeptOf
    <2>3. challenge' = IF q.issues = "challenge" THEN Append(old, asked) ELSE old
        <3>1. challenge' = IF request[s].issues = "challenge"
                           THEN Append(Answered(request[s]),
                                       [user |-> request[s].member[2],
                                        tenant |-> request[s].member[1],
                                        attempts |-> 0, done |-> FALSE])
                           ELSE Answered(request[s])
            BY DEF Accounts!CommitAccount, Answered
        <3> QED
            BY <1>1, <1>3, <3>1
    <2> QED
        BY <2>1, <2>2, <2>3
<1>5. u \in Users /\ m[1] \in Tenants /\ row \in Accounts!UserRows
    <2>1. u \in Users /\ m[1] \in Tenants
        BY <1>1, <1>2 DEF Accounts!Memberships
    <2>2. user[u] \in Accounts!UserRows
        BY <1>1, <1>2, <2>1 DEF WorkHolds, AccountInv, UserTable
    <2>3. AccountChange(q.changed)
        BY <1>2 DEF WorkHolds
    <2> QED
        BY <1>3, <2>1, <2>2, <2>3, UserUpdated
<1>6. UserTable' /\ (\A v \in Users : user[v] # None => user'[v] # None) /\ user'[u] # None
    BY <1>4, <1>5, UserChanges DEF AccountInv
<1>7. RowsStay
    BY <1>4, <1>6 DEF RowsStay
<1>8. ChallengeTable' /\ DOMAIN challenge \subseteq DOMAIN challenge'
    <2>1. WorkHolds(q) /\ q.member \in Accounts!Memberships
          /\ asked = [user |-> q.member[2], tenant |-> q.member[1], attempts |-> 0, done |-> FALSE]
        BY <1>1, <1>2, <1>3
    <2>2. old = Answered(q)
        BY <1>3
    <2>3. challenge' = IF q.issues = "challenge" THEN Append(old, asked) ELSE old
        BY <1>4
    <2> QED
        BY <1>7, <2>1, <2>2, <2>3, ChallengesCommit
<1>9. ResetTable' /\ DOMAIN reset \subseteq DOMAIN reset'
    BY <1>2, <1>4, <1>7, ResetsCommit
<1>10. /\ SessionTable' /\ DOMAIN session \subseteq DOMAIN session'
       /\ \A i \in DOMAIN session :
            session'[i].user = session[i].user /\ session'[i].tenant = session[i].tenant
    <2>1. CASE q.issues = "session"
        <3>1. q.parent \in Nat /\ q.loaded.version \in Nat
            BY <1>2 DEF WorkHolds, Accounts!UserRows
        <3>2. issued \in Accounts!SessionRows /\ issued.user = u /\ issued.tenant = m[1]
              /\ issued.parent = q.parent /\ issued.next = 0
            BY <1>3, <1>5, <3>1 DEF Accounts!SessionRows
        <3>3. kept \in Seq(Accounts!SessionRows) /\ Len(kept) = Len(session)
              /\ Kept(q.revoked, q.parent, kept)
            BY <1>3, SessionsKept DEF AccountInv
        <3>4. q.parent # 0 => /\ q.parent \in DOMAIN session /\ q.parent \in q.revoked
                              /\ session[q.parent].user = issued.user
                              /\ session[q.parent].tenant = issued.tenant
            BY <1>1, <1>2, <3>2 DEF WorkHolds
        <3>5. session' = Append(kept, issued)
            BY <1>4, <2>1
        <3> QED
            BY <1>6, <3>1, <3>2, <3>3, <3>4, <3>5, SessionIssued DEF AccountInv
    <2>2. CASE q.issues # "session"
        <3>1. q.parent = 0
            BY <1>2, <2>2 DEF WorkHolds
        <3>2. session' = KeptOf(q.revoked, 0)
            BY <1>3, <1>4, <2>2, <3>1
        <3>3. session' = [i \in DOMAIN session |->
                            [session[i] EXCEPT !.revoked = @ \/ i \in q.revoked]]
            BY <3>2, NothingExchanged DEF AccountInv
        <3> QED
            BY <1>6, <3>3, SessionsRevokedBy DEF AccountInv
    <2> QED
        BY <2>1, <2>2
<1>11. StampsStay
    BY <1>4 DEF StampsStay, AccountInv, RoleTable
<1>12. SequencesStay
    BY <1>4, <1>8, <1>9, <1>10 DEF SequencesStay
<1>13. AccountRequests'
    BY <1>4, <1>7, <1>11, <1>12, AccountRequestsKept DEF AccountInv, AccountGrows
<1> QED
    BY <1>4, <1>6, <1>7, <1>8, <1>9, <1>10, <1>13, TablesStay DEF AccountInv

LEMMA AccountNext ==
    ASSUME AccountInv, Accounts!Next
    PROVE  AccountInv'
BY AccountCommits, RolesCommit, StatusCommits, InviteCommits, RolesDeleted, AccountAbandoned,
   InvitationsAtOnce, ResetRequested, LoggedOut, UsersAtOnce, ChangesBegin, CredentialsBegin,
   RotationsBegin, CodesVerified, LoginsBegin
DEF Accounts!Next

----------------------------------------------------------------------------
(* Migrations: the component runs alone, with the invariant that            *)
(* MigrationControlProofs proves of it.                                     *)
MigrationProofs == INSTANCE MigrationControlProofs

LEMMA MigrationInit == Migrations!Init => MigrationProofs!IInv
<1> SUFFICES ASSUME Migrations!Init PROVE MigrationProofs!IInv
    OBVIOUS
<1>1. MigrationProofs!Init
    BY DEF Migrations!Init, MigrationProofs!Init
<1> QED
    BY <1>1, MigrationAssumption, MigrationProofs!Initially DEF MigrationAssumption

LEMMA MigrationStep == Migrations!Next => MigrationProofs!Next
<1> USE DEF Migrations!At, MigrationProofs!At, Migrations!Goto, MigrationProofs!Goto,
            Migrations!Target, MigrationProofs!Target, Migrations!Running, MigrationProofs!Running,
            Migrations!Connected, MigrationProofs!Connected,
            Migrations!Unlocked, MigrationProofs!Unlocked
<1>1. ASSUME NEW r, Migrations!Allowed(r) PROVE MigrationProofs!Allowed(r)
    BY <1>1 DEF Migrations!Allowed, MigrationProofs!Allowed
<1>2. ASSUME NEW r, MigrationProofs!Allowed(r) PROVE Migrations!Allowed(r)
    BY <1>2 DEF Migrations!Allowed, MigrationProofs!Allowed
<1>3. ASSUME NEW j \in Jobs, NEW r \in Requested, Migrations!Validate(j, r)
      PROVE  MigrationProofs!Validate(j, r)
    BY <1>1, <1>2, <1>3 DEF Migrations!Validate, MigrationProofs!Validate
<1>4. ASSUME NEW j \in Jobs,
             Migrations!TryLock(j) \/ Migrations!GiveUp(j) \/ Migrations!Start(j)
               \/ Migrations!Begin(j) \/ Migrations!CommitUpgrade(j) \/ Migrations!RollBack(j)
      PROVE  MigrationProofs!TryLock(j) \/ MigrationProofs!GiveUp(j) \/ MigrationProofs!Start(j)
               \/ MigrationProofs!Begin(j) \/ MigrationProofs!CommitUpgrade(j)
               \/ MigrationProofs!RollBack(j)
    BY <1>4 DEF Migrations!TryLock, MigrationProofs!TryLock,
                Migrations!LockFree, MigrationProofs!LockFree,
                Migrations!GiveUp, MigrationProofs!GiveUp, Migrations!Start, MigrationProofs!Start,
                Migrations!Begin, MigrationProofs!Begin,
                Migrations!CommitUpgrade, MigrationProofs!CommitUpgrade,
                Migrations!RollBack, MigrationProofs!RollBack
<1>5. ASSUME NEW j \in Jobs,
             Migrations!Exit(j) \/ Migrations!Timeout(j) \/ Migrations!Check(j)
               \/ Migrations!Disconnected(j)
      PROVE  MigrationProofs!Exit(j) \/ MigrationProofs!Timeout(j) \/ MigrationProofs!Check(j)
               \/ MigrationProofs!Disconnected(j)
    BY <1>5 DEF Migrations!Exit, MigrationProofs!Exit, Migrations!Timeout, MigrationProofs!Timeout,
                Migrations!Check, MigrationProofs!Check,
                Migrations!Disconnected, MigrationProofs!Disconnected
<1>6. ASSUME NEW j \in Jobs,
             Migrations!Unlock(j) \/ Migrations!Report(j) \/ Migrations!LoseLock(j)
               \/ Migrations!Crash(j)
      PROVE  MigrationProofs!Unlock(j) \/ MigrationProofs!Report(j)
               \/ MigrationProofs!LoseLock(j) \/ MigrationProofs!Crash(j)
    BY <1>6 DEF Migrations!Unlock, MigrationProofs!Unlock,
                Migrations!Reached, MigrationProofs!Reached,
                Migrations!Report, MigrationProofs!Report,
                Migrations!LoseLock, MigrationProofs!LoseLock, Migrations!Crash, MigrationProofs!Crash
<1> QED
    BY <1>3, <1>4, <1>5, <1>6 DEF Migrations!Next, MigrationProofs!Next

LEMMA MigrationNext ==
    ASSUME MigrationProofs!IInv, Migrations!Next
    PROVE  MigrationProofs!IInv'
<1>1. MigrationProofs!Next
    BY MigrationStep
<1> QED
    BY <1>1, MigrationAssumption, NoneAssumption, MigrationProofs!NextKeeps
    DEF MigrationAssumption, NoneAssumption

LEMMA MigrationSame ==
    ASSUME MigrationProofs!IInv, UNCHANGED migrationVars
    PROVE  MigrationProofs!IInv'
<1>1. UNCHANGED MigrationProofs!vars
    BY DEF migrationVars, MigrationProofs!vars
<1> QED
    BY <1>1, MigrationAssumption, NoneAssumption, MigrationProofs!NextKeeps
    DEF MigrationAssumption, NoneAssumption

LEMMA MigrationKeeps == MigrationProofs!IInv => Migrations!OneUpgrade /\ Migrations!ClaimedOnce
<1> SUFFICES ASSUME MigrationProofs!IInv
             PROVE  Migrations!OneUpgrade /\ Migrations!ClaimedOnce
    OBVIOUS
<1>1. Migrations!OneUpgrade
    BY DEF MigrationProofs!IInv, MigrationProofs!Guarded, Migrations!OneUpgrade,
           Migrations!Running, MigrationProofs!Running, MigrationProofs!At
<1>2. MigrationProofs!ClaimedOnce
    BY MigrationProofs!ClaimedOnceHolds
<1> QED
    BY <1>1, <1>2
    DEF Migrations!ClaimedOnce, MigrationProofs!ClaimedOnce,
        Migrations!Claimants, MigrationProofs!Claimants,
        Migrations!Succeeded, MigrationProofs!Succeeded

LEMMA MigrationHistoryInit == Migrations!Init => Migrations!History!Init
BY DEF Migrations!Init, Migrations!History!Init,
       Migrations!Confirmed, Migrations!Reached, Migrations!Claims, Migrations!Succeeded

(* What MigrationControlProofs shows of each step of the jobs               *)
LEMMA MigrationHistoryStep ==
    ASSUME MigrationProofs!IInv, Migrations!Next
    PROVE  Migrations!History!Next \/ UNCHANGED Migrations!History!history
<1>1. MigrationProofs!History!Next \/ UNCHANGED MigrationProofs!History!history
    BY MigrationStep, MigrationAssumption, MigrationProofs!HistoryStep DEF MigrationAssumption
<1>2. MigrationProofs!Claims = Migrations!Claims /\ MigrationProofs!Claims' = Migrations!Claims'
    BY DEF Migrations!Claims, MigrationProofs!Claims,
           Migrations!Succeeded, MigrationProofs!Succeeded
<1>3. /\ MigrationProofs!Confirmed = Migrations!Confirmed
      /\ MigrationProofs!Confirmed' = Migrations!Confirmed'
    BY DEF Migrations!Confirmed, MigrationProofs!Confirmed, Migrations!Reached,
           MigrationProofs!Reached, Migrations!Target, MigrationProofs!Target
<1> QED
    BY <1>1, <1>2, <1>3
    DEF Migrations!History!Next, MigrationProofs!History!Next,
        Migrations!History!Upgrade, MigrationProofs!History!Upgrade,
        Migrations!History!Confirm, MigrationProofs!History!Confirm,
        Migrations!History!Claim, MigrationProofs!History!Claim,
        Migrations!History!history, MigrationProofs!History!history

----------------------------------------------------------------------------
(* The parts side by side: the invariant of the part that runs              *)
IInv ==
    /\ part = "identity" => AccountInv
    /\ part = "methods" => MethodInv
    /\ part = "factors" => FactorInv
    /\ part = "packs" => PackInv
    /\ part = "migrations" => MigrationProofs!IInv

(* The part that runs keeps running.                                        *)
LEMMA PartStays == [Next]_vars => part' = part
BY DEF Next, vars, Rest, AccountsStep, MethodsStep, FactorsStep, PacksStep, MigrationsStep

(* A step is one of the part that runs, or it changes nothing.              *)
LEMMA StepOfPart ==
    ASSUME [Next]_vars
    PROVE  \/ AccountsStep \/ MethodsStep \/ FactorsStep \/ PacksStep \/ MigrationsStep
           \/ UNCHANGED vars
BY DEF Next

LEMMA AccountPart ==
    ASSUME part = "identity" => AccountInv, [Next]_vars
    PROVE  (part = "identity" => AccountInv)'
<1>1. part' = part
    BY PartStays
<1>2. CASE part # "identity"
    BY <1>1, <1>2
<1>3. CASE part = "identity"
    <2>1. Accounts!Next \/ UNCHANGED vars
        BY <1>3, StepOfPart DEF AccountsStep, MethodsStep, FactorsStep, PacksStep, MigrationsStep
    <2>2. UNCHANGED vars => AccountInv'
        BY <1>3, AccountSame DEF vars
    <2> QED
        BY <1>3, <2>1, <2>2, AccountNext
<1> QED
    BY <1>2, <1>3

LEMMA MethodPart ==
    ASSUME part = "methods" => MethodInv, [Next]_vars
    PROVE  (part = "methods" => MethodInv)'
<1>1. part' = part
    BY PartStays
<1>2. CASE part # "methods"
    BY <1>1, <1>2
<1>3. CASE part = "methods"
    <2>1. Methods!Next \/ UNCHANGED vars
        BY <1>3, StepOfPart DEF AccountsStep, MethodsStep, FactorsStep, PacksStep, MigrationsStep
    <2>2. UNCHANGED vars => MethodInv'
        BY <1>3, MethodSame DEF vars
    <2> QED
        BY <1>3, <2>1, <2>2, MethodNext
<1> QED
    BY <1>2, <1>3

LEMMA FactorPart ==
    ASSUME part = "factors" => FactorInv, [Next]_vars
    PROVE  (part = "factors" => FactorInv)'
<1>1. part' = part
    BY PartStays
<1>2. CASE part # "factors"
    BY <1>1, <1>2
<1>3. CASE part = "factors"
    <2>1. Factors!Next \/ UNCHANGED vars
        BY <1>3, StepOfPart DEF AccountsStep, MethodsStep, FactorsStep, PacksStep, MigrationsStep
    <2>2. UNCHANGED vars => FactorInv'
        BY <1>3, FactorSame DEF vars
    <2> QED
        BY <1>3, <2>1, <2>2, FactorNext
<1> QED
    BY <1>2, <1>3

LEMMA PackPart ==
    ASSUME part = "packs" => PackInv, [Next]_vars
    PROVE  (part = "packs" => PackInv)'
<1>1. part' = part
    BY PartStays
<1>2. CASE part # "packs"
    BY <1>1, <1>2
<1>3. CASE part = "packs"
    <2>1. Packs!Next \/ UNCHANGED vars
        BY <1>3, StepOfPart DEF AccountsStep, MethodsStep, FactorsStep, PacksStep, MigrationsStep
    <2>2. UNCHANGED vars => PackInv'
        BY <1>3, PackSame DEF vars
    <2> QED
        BY <1>3, <2>1, <2>2, PackNext
<1> QED
    BY <1>2, <1>3

LEMMA MigrationPart ==
    ASSUME part = "migrations" => MigrationProofs!IInv, [Next]_vars
    PROVE  (part = "migrations" => MigrationProofs!IInv)'
<1>1. part' = part
    BY PartStays
<1>2. CASE part # "migrations"
    BY <1>1, <1>2
<1>3. CASE part = "migrations"
    <2>1. Migrations!Next \/ UNCHANGED vars
        BY <1>3, StepOfPart DEF AccountsStep, MethodsStep, FactorsStep, PacksStep, MigrationsStep
    <2>2. UNCHANGED vars => MigrationProofs!IInv'
        BY <1>3, MigrationSame DEF vars
    <2> QED
        BY <1>3, <2>1, <2>2, MigrationNext
<1> QED
    BY <1>2, <1>3

LEMMA Initially == Init => IInv
<1> SUFFICES ASSUME Init PROVE IInv
    OBVIOUS
<1>1. part = "identity" => AccountInv
    BY AccountInit DEF Init
<1>2. part = "methods" => MethodInv
    BY MethodInit DEF Init
<1>3. part = "factors" => FactorInv
    BY FactorInit DEF Init
<1>4. part = "packs" => PackInv
    BY PackInit DEF Init
<1>5. part = "migrations" => MigrationProofs!IInv
    BY MigrationInit DEF Init
<1> QED
    BY <1>1, <1>2, <1>3, <1>4, <1>5 DEF IInv

LEMMA NextKeeps == IInv /\ [Next]_vars => IInv'
<1> SUFFICES ASSUME IInv, [Next]_vars PROVE IInv'
    OBVIOUS
<1>1. (part = "identity" => AccountInv)'
    BY AccountPart DEF IInv
<1>2. (part = "methods" => MethodInv)'
    BY MethodPart DEF IInv
<1>3. (part = "factors" => FactorInv)'
    BY FactorPart DEF IInv
<1>4. (part = "packs" => PackInv)'
    BY PackPart DEF IInv
<1>5. (part = "migrations" => MigrationProofs!IInv)'
    BY MigrationPart DEF IInv
<1> QED
    BY <1>1, <1>2, <1>3, <1>4, <1>5 DEF IInv

(* The inductive invariant, of every part that runs.                        *)
THEOREM Invariant == Spec => []IInv
BY Initially, NextKeeps, PTL DEF Spec

(* Every part that runs keeps its types.                                    *)
THEOREM TypesKept == Spec => []TypeOK
<1>1. IInv => TypeOK
    BY AccountKeeps DEF IInv, TypeOK, MethodInv, FactorInv, PackInv
<1> QED
    BY <1>1, Invariant, PTL

(* Requests that do not overlap leave a membership with exactly the roles   *)
(* that the last of them wrote (identity.py:393, :487).                     *)
THEOREM RolesReplacedWhole == Spec => []RolesAsWritten
<1>1. IInv => RolesAsWritten
    BY AccountKeeps DEF IInv, RolesAsWritten
<1> QED
    BY <1>1, Invariant, PTL

(* An accepted invitation has its account and its membership, however       *)
(* acceptances, new invitations and failed commits interleave               *)
(* (identity.py:343-404).                                                   *)
THEOREM AcceptancesWhole == Spec => []AcceptedWhole
<1>1. IInv => AcceptedWhole
    BY AccountKeeps DEF IInv, AcceptedWhole
<1> QED
    BY <1>1, Invariant, PTL

(* A refresh session that was exchanged is revoked and leads to one that    *)
(* descends from it, also when it is exchanged twice at the same time       *)
(* (session_auth.py:388-404).                                               *)
THEOREM SessionsLinked == Spec => []ExchangedOnce
<1>1. IInv => ExchangedOnce
    BY AccountKeeps DEF IInv, ExchangedOnce
<1> QED
    BY <1>1, Invariant, PTL

(* Creator, reviewer and approver of a methodology are three people, unless *)
(* two requests changed the version at once (methodologies.py:172, :201).   *)
THEOREM RolesSeparated == Spec => []ThreePeople
<1>1. IInv => ThreePeople
    BY DEF IInv, MethodInv, ThreePeople
<1> QED
    BY <1>1, Invariant, PTL

(* One version of a methodology is in force, and at most one more for each  *)
(* activation that was overtaken (methodologies.py:233-251).                *)
THEOREM ActivationsCounted == Spec => []OneActive
<1>1. IInv => OneActive
    BY DEF IInv, MethodInv, OneActive
<1> QED
    BY <1>1, Invariant, PTL

(* A superseded factor set leads to an approved one, however long the way,  *)
(* unless a supersession or an approval was overtaken by a supersession     *)
(* (emission_factors.py:308-398).                                           *)
THEOREM SupersessionsEnd == Spec => []SupersessionEnds
<1>1. IInv => SupersessionEnds
    BY FactorKeepsEnds DEF IInv, SupersessionEnds
<1> QED
    BY <1>1, Invariant, PTL

(* One approved methodology pack of an owner covers a day, unless two       *)
(* approvals were flushed before either was committed                       *)
(* (methodology_packs.py:166-184).                                          *)
THEOREM PacksDisjoint == Spec => []PeriodsDisjoint
<1>1. IInv => PeriodsDisjoint
    BY PackKeepsApart DEF IInv, PeriodsDisjoint
<1> QED
    BY <1>1, Invariant, PTL

(* Two migrations run at once only if one of their jobs lost its lock, timed*)
(* out or was killed (migration_control.py:164).                            *)
THEOREM UpgradesApart == Spec => []OneUpgrade
<1>1. IInv => OneUpgrade
    BY MigrationKeeps DEF IInv, OneUpgrade
<1> QED
    BY <1>1, Invariant, PTL

(* One job at most reports that it brought the schema to a revision         *)
(* (run_controlled_migrations.py:99-135).                                   *)
THEOREM ClaimsSingle == Spec => []ClaimedOnce
<1>1. IInv => ClaimedOnce
    BY MigrationKeeps DEF IInv, ClaimedOnce
<1> QED
    BY <1>1, Invariant, PTL

(* Whatever jobs, locks and subprocesses are lost, the schema goes up from  *)
(* one reviewed revision to another, a job finds that it has brought it to  *)
(* one that is there and higher than all that others found before, and its  *)
(* evidence, written when others may have gone further, claims what it found*)
(* (run_controlled_migrations.py:99-155).                                   *)
THEOREM HistoriesKept == Spec => HistorySpec
<1>1. Init => (part = "migrations" => Migrations!History!Init)
    BY MigrationHistoryInit DEF Init
<1>2. IInv /\ [Next]_vars =>
        [part = "migrations" =>
           Migrations!History!Next \/ UNCHANGED Migrations!History!history]_vars
    BY MigrationHistoryStep, StepOfPart
    DEF IInv, AccountsStep, MethodsStep, FactorsStep, PacksStep, MigrationsStep
<1> QED
    BY <1>1, <1>2, Invariant, PTL DEF Spec, HistorySpec
=============================================================================
