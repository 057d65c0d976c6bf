------------------------- MODULE ImportedDataProofs -------------------------
(* Proofs about what is imported and reviewed: the parts DataReview and     *)
(* DataIntegration of DataPlatform.                                         *)
EXTENDS DataPlatform, NumberLemmas, FiniteSetTheorems, SequenceTheorems

----------------------------------------------------------------------------
(* Requests                                                                 *)

(* One request moves on, the others stay.                                   *)
LEMMA RequestChanges ==
    ASSUME DOMAIN request = Sessions, NEW s \in Sessions, NEW r,
           request' = [request EXCEPT ![s] = r]
    PROVE  /\ DOMAIN request' = Sessions
           /\ request'[s] = r
           /\ \A t \in Sessions \ {s} : request'[t] = request[t]
OBVIOUS

----------------------------------------------------------------------------
(* DataReview                                                               *)

EmissionRows(e) == [content : Source(e), confirmed : Review!Scopes, class : Review!Classes]

(* A review that has been converted when it was loaded has a result by now. *)
Known(e, loaded) ==
    loaded.result # None => \E r \in Review!Operational : r.emission = e

(* What a request in flight has loaded, and what of it stays true.          *)
ReviewHolds(q) ==
    /\ q.op \in {"upsert", "classify", "sync", "start", "decide", "convert", "converting",
                 "compare", "comparing"}
    /\ q.op = "sync" => q.missing \subseteq Emissions
    /\ q.op # "sync" => q.emission \in Emissions
    /\ q.op = "upsert" => q.content \in Source(q.emission)
    /\ q.op = "classify" => q.changed \in Classifications
    /\ q.op \in {"start", "decide"} =>
         /\ review[q.emission] # None
         /\ \/ \E i \in Inventories : q.changed = [status |-> "in_review", inventory |-> i]
            \/ \E d \in {"approved", "rejected"} : q.changed = [status |-> d]
    /\ q.op \in {"convert", "converting"} =>
         /\ review[q.emission] # None
         /\ Known(q.emission, q.loaded)
         /\ q.loaded.inventory \in Inventories
    /\ q.op = "converting" =>
         /\ q.result.kind = "operational" /\ q.result.emission = q.emission
         /\ q.result.inventory \in Inventories /\ q.result.version \in Review!Version
    /\ q.op \in {"compare", "comparing"} => comparison[q.emission] # None
    /\ q.op = "compare" => q.inventory \in Inventories
    /\ q.op = "comparing" =>
         /\ q.result.kind = "government"
         /\ q.result.inventory \in Inventories /\ q.result.version \in Review!Version

ReviewRequests ==
    /\ DOMAIN request = Sessions
    /\ \A s \in Sessions : request[s] # None => ReviewHolds(request[s])

ReviewTables ==
    /\ DOMAIN emission = Emissions /\ DOMAIN review = Emissions
    /\ DOMAIN comparison = Emissions
    /\ \A e \in Emissions : comparison[e] # None => review[e] # None
    /\ \E n \in Nat : \A r \in run_results : r.version <= n
    /\ \A r \in run_results : r.inventory \in Inventories /\ r.version \in Review!Version
    /\ \A r \in Review!Operational : r.emission \in Emissions

ReviewInv ==
    /\ Review!TypeOK /\ ReviewTables /\ ReviewRequests
    /\ Review!OneConversion /\ Review!ReferencesKept

LEMMA ReviewInit == Review!Init => ReviewInv
<1> SUFFICES ASSUME Review!Init PROVE ReviewInv
    OBVIOUS
<1> USE DEF Review!Init, Review!InitRequests, Review!Operational
<1>1. Review!TypeOK
    BY ReviewAssumption DEF Review!TypeOK, Review!Scopes, Review!Classes, Review!Frozen
<1>2. ReviewTables
    BY DEF ReviewTables
<1>3. ReviewRequests
    BY DEF ReviewRequests
<1>4. Review!OneConversion
    BY DEF Review!OneConversion
<1>5. Review!ReferencesKept
    BY DEF Review!ReferencesKept
<1> QED
    BY <1>1, <1>2, <1>3, <1>4, <1>5 DEF ReviewInv

(* Rows are added to and changed, never taken back.                         *)
ReviewGrows ==
    /\ \A e \in Emissions : /\ review[e] # None => review'[e] # None
                            /\ comparison[e] # None => comparison'[e] # None
    /\ run_results \subseteq run_results'

LEMMA ReviewRequestsKept ==
    ASSUME ReviewRequests, ReviewGrows, NEW s \in Sessions, NEW r,
           request' = [request EXCEPT ![s] = r], r = None \/ ReviewHolds(r)
    PROVE  ReviewRequests'
<1>1. \A q : ReviewHolds(q) => ReviewHolds(q)'
    BY DEF ReviewHolds, ReviewGrows, Known, Review!Operational
<1>2. DOMAIN request' = Sessions /\ request'[s] = r
      /\ \A t \in Sessions \ {s} : request'[t] = request[t]
    BY RequestChanges DEF ReviewRequests
<1>3. ASSUME NEW t \in Sessions, request'[t] # None PROVE ReviewHolds(request[t])'
    <2>1. PICK q : q = request'[t]
        OBVIOUS
    <2>2. ReviewHolds(q)
        BY <1>2, <1>3, <2>1 DEF ReviewRequests
    <2>3. ReviewHolds(q)'
        BY <1>1, <2>2
    <2> QED
        BY <2>1, <2>3 DEF ReviewHolds, Known
<1> QED
    BY <1>2, <1>3 DEF ReviewRequests

LEMMA ReviewRequestsStay ==
    ASSUME ReviewRequests, ReviewGrows, UNCHANGED request
    PROVE  ReviewRequests'
<1>1. ASSUME NEW t \in Sessions, request[t] # None PROVE ReviewHolds(request[t])'
    BY <1>1 DEF ReviewRequests, ReviewHolds, ReviewGrows, Known, Review!Operational
<1> QED
    BY <1>1 DEF ReviewRequests

(* A request that has loaded rows, has read on or is rolled back            *)
LEMMA ReviewReadKeeps ==
    ASSUME ReviewInv, UNCHANGED reviewVars, NEW s \in Sessions, NEW r,
           request' = [request EXCEPT ![s] = r], r = None \/ ReviewHolds(r)
    PROVE  ReviewInv'
<1>1. ReviewRequests'
    BY ReviewRequestsKept DEF ReviewInv, ReviewGrows, reviewVars
<1> QED
    BY <1>1 DEF ReviewInv, reviewVars, Review!TypeOK, ReviewTables, Review!OneConversion,
                Review!ReferencesKept, Review!Operational

(* The next version of an inventory's runs is a version.                    *)
LEMMA NextRunVersion ==
    ASSUME ReviewTables, NEW i \in Inventories
    PROVE  Review!NextVersion(i) \in Review!Version
<1> DEFINE versions == Review!VersionsOf(i)
<1>1. versions \in SUBSET Nat /\ \E b \in Nat : \A n \in versions : n <= b
    BY DEF ReviewTables, Review!VersionsOf, Review!Version
<1>2. CASE versions = {}
    BY <1>2 DEF Review!NextVersion, Review!Version
<1>3. CASE versions # {}
    <2>1. \E m \in versions : \A n \in versions : n <= m
        BY <1>1, <1>3, GreatestNatural
    <2>2. Review!NextVersion(i) = 1 + CHOOSE v \in versions : \A w \in versions : w <= v
        BY <1>3 DEF Review!NextVersion
    <2>3. (CHOOSE v \in versions : \A w \in versions : w <= v) \in Nat
        BY <2>1, <1>1
    <2> QED
        BY <2>2, <2>3 DEF Review!Version
<1> QED
    BY <1>2, <1>3

LEMMA ReviewLoads ==
    ASSUME ReviewInv, NEW s \in Sessions, NEW e \in Emissions,
           \/ \E c \in Source(e) : Review!LoadUpsert(s, e, c)
           \/ \E c \in Classifications : Review!LoadClassify(s, e, c)
           \/ \E i \in Inventories : Review!LoadStart(s, e, i)
           \/ \E d \in {"approved", "rejected"} : Review!LoadDecide(s, e, d)
           \/ Review!LoadConvert(s, e) \/ Review!LoadCompare(s, e)
    PROVE  ReviewInv'
<1> USE DEF Review!Receive, Review!rows, reviewVars
<1>1. ASSUME NEW c \in Source(e), Review!LoadUpsert(s, e, c) PROVE ReviewInv'
    <2>1. PICK r : /\ r = [op |-> "upsert", emission |-> e, content |-> c, loaded |-> emission[e]]
                   /\ request' = [request EXCEPT ![s] = r]
        BY <1>1 DEF Review!LoadUpsert
    <2>2. ReviewHolds(r)
        BY <2>1 DEF ReviewHolds
    <2> QED
        BY <1>1, <2>1, <2>2, ReviewReadKeeps DEF Review!LoadUpsert
<1>2. ASSUME NEW c \in Classifications, Review!LoadClassify(s, e, c) PROVE ReviewInv'
    <2>1. PICK r : /\ r = [op |-> "classify", emission |-> e, loaded |-> emission[e],
                           changed |-> c]
                   /\ request' = [request EXCEPT ![s] = r]
        BY <1>2 DEF Review!LoadClassify
    <2>2. ReviewHolds(r)
        BY <2>1 DEF ReviewHolds
    <2> QED
        BY <1>2, <2>1, <2>2, ReviewReadKeeps DEF Review!LoadClassify
<1>3. ASSUME NEW i \in Inventories, Review!LoadStart(s, e, i) PROVE ReviewInv'
    <2>1. PICK r : /\ r = [op |-> "start", emission |-> e, loaded |-> review[e],
                           changed |-> [status |-> "in_review", inventory |-> i]]
                   /\ request' = [request EXCEPT ![s] = r]
        BY <1>3 DEF Review!LoadStart
    <2>2. ReviewHolds(r)
        BY <1>3, <2>1 DEF ReviewHolds, Review!LoadStart
    <2> QED
        BY <1>3, <2>1, <2>2, ReviewReadKeeps DEF Review!LoadStart
<1>4. ASSUME NEW d \in {"approved", "rejected"}, Review!LoadDecide(s, e, d) PROVE ReviewInv'
    <2>1. PICK r : /\ r = [op |-> "decide", emission |-> e, loaded |-> review[e],
                           changed |-> [status |-> d]]
                   /\ request' = [request EXCEPT ![s] = r]
        BY <1>4 DEF Review!LoadDecide
    <2>2. ReviewHolds(r)
        BY <1>4, <2>1 DEF ReviewHolds, Review!LoadDecide
    <2> QED
        BY <1>4, <2>1, <2>2, ReviewReadKeeps DEF Review!LoadDecide
<1>5. ASSUME Review!LoadConvert(s, e) PROVE ReviewInv'
    <2>1. PICK r : /\ r = [op |-> "convert", emission |-> e, loaded |-> review[e],
                           source |-> emission[e], status |-> status[review[e].inventory]]
                   /\ request' = [request EXCEPT ![s] = r]
        BY <1>5 DEF Review!LoadConvert
    <2>2. review[e] # None /\ review[e].inventory \in Inventories
        BY <1>5 DEF Review!LoadConvert, ReviewInv, Review!TypeOK, Review!ReviewRows
    <2>3. Known(e, review[e])
        BY <2>2 DEF Known, ReviewInv, Review!ReferencesKept
    <2>4. ReviewHolds(r)
        BY <2>1, <2>2, <2>3 DEF ReviewHolds
    <2> QED
        BY <1>5, <2>1, <2>4, ReviewReadKeeps DEF Review!LoadConvert
<1>6. ASSUME Review!LoadCompare(s, e) PROVE ReviewInv'
    <2>1. PICK x \in Review!Operational :
             /\ x.emission = e
             /\ request' = [request EXCEPT ![s] =
                  [op |-> "compare", emission |-> e, loaded |-> comparison[e],
                   source |-> emission[e], inventory |-> x.inventory]]
        BY <1>6 DEF Review!LoadCompare
    <2>2. PICK r : /\ r = [op |-> "compare", emission |-> e, loaded |-> comparison[e],
                           source |-> emission[e], inventory |-> x.inventory]
                   /\ request' = [request EXCEPT ![s] = r]
        BY <2>1
    <2>3. x.inventory \in Inventories
        BY DEF ReviewInv, ReviewTables, Review!Operational
    <2>4. ReviewHolds(r)
        BY <1>6, <2>2, <2>3 DEF ReviewHolds, Review!LoadCompare
    <2> QED
        BY <1>6, <2>2, <2>4, ReviewReadKeeps DEF Review!LoadCompare
<1> QED
    BY <1>1, <1>2, <1>3, <1>4, <1>5, <1>6

LEMMA ReviewReads ==
    ASSUME ReviewInv, NEW s \in Sessions,
           \/ Review!LoadSync(s) \/ Review!CheckConvert(s) \/ Review!CompareRun(s)
           \/ Review!Abandon(s)
    PROVE  ReviewInv'
<1> USE DEF Review!Receive, Review!Continue, Review!Serving, Review!rows, reviewVars
<1>1. ASSUME Review!LoadSync(s) PROVE ReviewInv'
    <2>1. PICK r : /\ r.op = "sync" /\ r.missing \subseteq Emissions
                   /\ request' = [request EXCEPT ![s] = r]
        BY <1>1 DEF Review!LoadSync
    <2>2. ReviewHolds(r)
        BY <2>1 DEF ReviewHolds
    <2> QED
        BY <1>1, <2>1, <2>2, ReviewReadKeeps DEF Review!LoadSync
<1>2. ASSUME Review!CheckConvert(s) PROVE ReviewInv'
    <2>1. PICK q : q = request[s]
        OBVIOUS
    <2>2. ReviewHolds(q) /\ q.op = "convert"
        BY <1>2, <2>1 DEF Review!CheckConvert, ReviewInv, ReviewRequests
    <2>3. q.emission \in Emissions /\ q.loaded.inventory \in Inventories
          /\ review[q.emission] # None /\ Known(q.emission, q.loaded)
        BY <2>2 DEF ReviewHolds
    <2>4. PICK x : x = Review!OperationalResult(q.emission, q.source, q.loaded.inventory)
        OBVIOUS
    <2>5. /\ x.kind = "operational" /\ x.emission = q.emission
          /\ x.inventory \in Inventories /\ x.version \in Review!Version
        BY <2>3, <2>4, NextRunVersion DEF Review!OperationalResult, ReviewInv
    <2>6. PICK r : /\ r = [op |-> "converting", emission |-> q.emission, loaded |-> q.loaded,
                           status |-> q.status, result |-> x]
                   /\ request' = [request EXCEPT ![s] = r]
        BY <1>2, <2>1, <2>4 DEF Review!CheckConvert
    <2>7. ReviewHolds(r)
        BY <2>3, <2>5, <2>6 DEF ReviewHolds
    <2> QED
        BY <1>2, <2>6, <2>7, ReviewReadKeeps DEF Review!CheckConvert
<1>3. ASSUME Review!CompareRun(s) PROVE ReviewInv'
    <2>1. PICK q : q = request[s]
        OBVIOUS
    <2>2. ReviewHolds(q) /\ q.op = "compare"
        BY <1>3, <2>1 DEF Review!CompareRun, ReviewInv, ReviewRequests
    <2>3. q.emission \in Emissions /\ q.inventory \in Inventories
          /\ comparison[q.emission] # None
        BY <2>2 DEF ReviewHolds
    <2>4. PICK x : x = Review!GovernmentResult(q.emission, q.inventory)
        OBVIOUS
    <2>5. /\ x.kind = "government" /\ x.inventory \in Inventories
          /\ x.version \in Review!Version
        BY <2>3, <2>4, NextRunVersion DEF Review!GovernmentResult, ReviewInv
    <2>6. PICK r : /\ r = [op |-> "comparing", emission |-> q.emission, loaded |-> q.loaded,
                           result |-> x]
                   /\ request' = [request EXCEPT ![s] = r]
        BY <1>3, <2>1, <2>4 DEF Review!CompareRun
    <2>7. ReviewHolds(r)
        BY <2>3, <2>5, <2>6 DEF ReviewHolds
    <2> QED
        BY <1>3, <2>6, <2>7, ReviewReadKeeps DEF Review!CompareRun
<1>4. ASSUME Review!Abandon(s) PROVE ReviewInv'
    BY <1>4, ReviewReadKeeps DEF Review!Abandon, Review!Fail, Review!Done
<1> QED
    BY <1>1, <1>2, <1>3, <1>4

(* An emission's row changes, as an import or a reviewer has it.            *)
LEMMA EmissionChanges ==
    ASSUME ReviewInv, NEW s \in Sessions, Review!CommitUpsert(s) \/ Review!CommitClassify(s)
    PROVE  ReviewInv'
<1>1. PICK q : q = request[s]
    OBVIOUS
<1>2. ReviewHolds(q) /\ q.op \in {"upsert", "classify"} /\ q.emission \in Emissions
    BY <1>1 DEF ReviewInv, ReviewRequests, ReviewHolds, Review!CommitUpsert,
                Review!CommitClassify, Review!Serving
<1>3. PICK e \in Emissions : e = q.emission
    BY <1>2
<1>4. PICK row_ : row_ \in EmissionRows(e) /\ emission' = [emission EXCEPT ![e] = row_]
    <2>1. emission[e] \in EmissionRows(e)
        BY DEF ReviewInv, Review!TypeOK, EmissionRows
    <2>2. CASE Review!CommitUpsert(s)
        <3>1. q.content \in Source(e)
            BY <1>1, <1>2, <1>3, <2>2 DEF Review!CommitUpsert, Review!Serving, ReviewHolds
        <3>2. emission' = [emission EXCEPT ![e] = Review!Update(emission[e], q.loaded,
                             [content |-> q.content, class |-> "review_required"])]
            BY <1>1, <1>3, <2>2 DEF Review!CommitUpsert
        <3>3. Review!Update(emission[e], q.loaded,
                            [content |-> q.content, class |-> "review_required"])
                 \in EmissionRows(e)
            BY <2>1, <3>1 DEF Review!Update, EmissionRows, Review!Classes
        <3> QED
            BY <3>2, <3>3
    <2>3. CASE Review!CommitClassify(s)
        <3>1. q.changed \in [confirmed : Review!Scopes, class : Review!Classes]
            BY <1>1, <1>2, <2>3, ReviewAssumption
            DEF Review!CommitClassify, Review!Serving, ReviewHolds
        <3>2. emission' = [emission EXCEPT ![e] =
                             Review!Update(emission[e], q.loaded, q.changed)]
            BY <1>1, <1>3, <2>3 DEF Review!CommitClassify
        <3>3. Review!Update(emission[e], q.loaded, q.changed) \in EmissionRows(e)
            BY <2>1, <3>1 DEF Review!Update, EmissionRows
        <3> QED
            BY <3>2, <3>3
    <2> QED
        BY <2>2, <2>3
<1>5. /\ request' = [request EXCEPT ![s] = None]
      /\ UNCHANGED <<review, comparison, run_results, status>>
    BY DEF Review!CommitUpsert, Review!CommitClassify, Review!Done
<1>6. ReviewRequests'
    BY <1>5, ReviewRequestsKept DEF ReviewGrows, ReviewInv
<1>7. Review!TypeOK'
    BY <1>4, <1>5 DEF ReviewInv, Review!TypeOK, ReviewTables, EmissionRows
<1>8. ReviewTables'
    BY <1>4, <1>5 DEF ReviewInv, ReviewTables, Review!Operational
<1>9. Review!OneConversion' /\ Review!ReferencesKept'
    BY <1>5 DEF ReviewInv, Review!OneConversion, Review!ReferencesKept, Review!Operational
<1> QED
    BY <1>6, <1>7, <1>8, <1>9 DEF ReviewInv

(* A review is created, started or decided: a result it has stays.          *)
LEMMA ReviewChanges ==
    ASSUME ReviewInv, UNCHANGED <<emission, comparison, run_results, status>>,
           ReviewRequests', DOMAIN review' = Emissions,
           \A e \in Emissions :
             \/ review'[e] = review[e]
             \/ /\ review'[e] \in Review!ReviewRows
                /\ review'[e].result = IF review[e] = None THEN None ELSE review[e].result
    PROVE  ReviewInv'
<1>1. \A e \in Emissions : review[e] # None => review'[e] # None
    BY NoneAssumption
<1>2. Review!TypeOK'
    BY DEF ReviewInv, Review!TypeOK
<1>3. ReviewTables'
    BY <1>1 DEF ReviewInv, ReviewTables, Review!Operational
<1>4. Review!OneConversion'
    BY DEF ReviewInv, Review!OneConversion, Review!Operational
<1>5. Review!ReferencesKept'
    BY DEF ReviewInv, ReviewTables, Review!ReferencesKept, Review!Operational
<1> QED
    BY <1>2, <1>3, <1>4, <1>5 DEF ReviewInv

LEMMA ReviewCommits ==
    ASSUME ReviewInv,
           \/ \E e \in Emissions : Review!CreateReview(e)
           \/ \E s \in Sessions : Review!CommitSync(s) \/ Review!CommitReview(s)
    PROVE  ReviewInv'
<1>1. ASSUME NEW e \in Emissions, Review!CreateReview(e) PROVE ReviewInv'
    <2>1. /\ review' = [review EXCEPT ![e] = Review!PendingReview]
          /\ review[e] = None
          /\ UNCHANGED <<emission, comparison, run_results, status, request>>
        BY <1>1 DEF Review!CreateReview, Review!requests
    <2>2. Review!PendingReview \in Review!ReviewRows /\ Review!PendingReview.result = None
        BY DEF Review!PendingReview, Review!ReviewRows
    <2>3. ReviewRequests'
        BY <2>1, <2>2, NoneAssumption, ReviewRequestsStay DEF ReviewGrows, ReviewInv, ReviewTables
    <2> QED
        BY <2>1, <2>2, <2>3, ReviewChanges DEF ReviewInv, ReviewTables
<1>2. ASSUME NEW s \in Sessions, Review!CommitSync(s) PROVE ReviewInv'
    <2>1. PICK missing : missing = request[s].missing
        OBVIOUS
    <2>2. /\ \A e \in missing : review[e] = None
          /\ review' = [e \in Emissions |->
                          IF e \in missing THEN Review!PendingReview ELSE review[e]]
          /\ UNCHANGED <<emission, comparison, run_results, status>>
          /\ request' = [request EXCEPT ![s] = None]
        BY <1>2, <2>1 DEF Review!CommitSync, Review!Done
    <2>3. Review!PendingReview \in Review!ReviewRows /\ Review!PendingReview.result = None
        BY DEF Review!PendingReview, Review!ReviewRows
    <2>4. ReviewRequests'
        BY <2>2, <2>3, NoneAssumption, ReviewRequestsKept DEF ReviewGrows, ReviewInv
    <2> QED
        BY <2>2, <2>3, <2>4, ReviewChanges DEF ReviewInv
<1>3. ASSUME NEW s \in Sessions, Review!CommitReview(s) PROVE ReviewInv'
    <2>1. PICK q : q = request[s]
        OBVIOUS
    <2>2. ReviewHolds(q) /\ q.op \in {"start", "decide"}
        BY <1>3, <2>1 DEF ReviewInv, ReviewRequests, Review!CommitReview, Review!Serving
    <2>3. PICK e \in Emissions : e = q.emission
        BY <2>2 DEF ReviewHolds
    <2>4. review[e] # None /\ review[e] \in Review!ReviewRows
        BY <2>2, <2>3 DEF ReviewHolds, ReviewInv, Review!TypeOK
    <2>5. PICK changed : changed = q.changed
        OBVIOUS
    <2>6. \/ \E i \in Inventories : changed = [status |-> "in_review", inventory |-> i]
          \/ \E d \in {"approved", "rejected"} : changed = [status |-> d]
        BY <2>2, <2>5 DEF ReviewHolds
    <2>7. PICK row_ : row_ = Review!Update(review[e], q.loaded, changed)
        OBVIOUS
    <2>8. row_ \in Review!ReviewRows /\ row_.result = review[e].result
        BY <2>4, <2>6, <2>7 DEF Review!Update, Review!ReviewRows
    <2>9. /\ review' = [review EXCEPT ![e] = row_]
          /\ UNCHANGED <<emission, comparison, run_results, status>>
          /\ request' = [request EXCEPT ![s] = None]
        BY <1>3, <2>1, <2>3, <2>5, <2>7 DEF Review!CommitReview, Review!Done
    <2>10. ReviewRequests'
        BY <2>8, <2>9, NoneAssumption, ReviewRequestsKept DEF ReviewGrows, ReviewInv, ReviewTables
    <2> QED
        BY <2>4, <2>8, <2>9, <2>10, ReviewChanges DEF ReviewInv, ReviewTables
<1> QED
    BY <1>1, <1>2, <1>3

(* A result that was free to be stored                                      *)
LEMMA ResultStored ==
    ASSUME ReviewTables, NEW x, run_results' = run_results \union {x},
           x.inventory \in Inventories, x.version \in Review!Version
    PROVE  /\ \E n \in Nat : \A r \in run_results' : r.version <= n
           /\ \A r \in run_results' : r.inventory \in Inventories /\ r.version \in Review!Version
<1>1. PICK n \in Nat : \A r \in run_results : r.version <= n
    BY DEF ReviewTables
<1>2. \A r \in run_results : r.version \in Nat
    BY DEF ReviewTables, Review!Version
<1>3. x.version \in Nat
    BY DEF Review!Version
<1>4. n + x.version \in Nat /\ \A r \in run_results' : r.version <= n + x.version
    BY <1>1, <1>2, <1>3
<1> QED
    BY <1>4 DEF ReviewTables

(* What the unique constraints refuse would be counted twice; what they let *)
(* pass has not been converted before, so nothing is overwritten.           *)
LEMMA ConversionKeeps ==
    ASSUME ReviewInv, NEW s \in Sessions, Review!CommitConvert(s)
    PROVE  ReviewInv'
<1>1. PICK q : q = request[s]
    OBVIOUS
<1>2. ReviewHolds(q) /\ q.op = "converting"
    BY <1>1 DEF ReviewInv, ReviewRequests, Review!CommitConvert, Review!Serving
<1>3. PICK e \in Emissions : e = q.emission
    BY <1>2 DEF ReviewHolds
<1>4. PICK x : x = q.result
    OBVIOUS
<1>5. /\ x.kind = "operational" /\ x.emission = e
      /\ x.inventory \in Inventories /\ x.version \in Review!Version
      /\ review[e] # None /\ Known(e, q.loaded)
    BY <1>2, <1>3, <1>4 DEF ReviewHolds
<1>6. \A r \in Review!Operational : r.emission # e /\ r.group # x.group
    BY <1>1, <1>3, <1>4 DEF Review!CommitConvert, Review!ConversionFree
<1>7. q.loaded.result = None /\ comparison[e] = None /\ review[e].result = None
    BY <1>5, <1>6 DEF Known, ReviewInv, Review!ReferencesKept
<1>8. PICK converted : converted = <<x.inventory, x.version>>
    OBVIOUS
<1>9. converted \in Inventories \X Review!Version /\ converted # None
    BY <1>5, <1>8, NoneAssumption
<1>10. PICK row_ : row_ = Review!Update(review[e], q.loaded,
                            [status |-> "converted", result |-> converted])
    OBVIOUS
<1>11. row_ \in Review!ReviewRows /\ row_.result = converted
    <2>1. review[e] \in Review!ReviewRows
        BY <1>5 DEF ReviewInv, Review!TypeOK
    <2> QED
        BY <2>1, <1>7, <1>9, <1>10 DEF Review!Update, Review!ReviewRows
<1>12. PICK pair : pair = [status |-> "pending", government |-> None]
    OBVIOUS
<1>13. pair \in Review!ComparisonRows /\ pair # None
    BY <1>12, NoneAssumption DEF Review!ComparisonRows
<1>14. /\ run_results' = run_results \union {x}
       /\ comparison' = [comparison EXCEPT ![e] = pair]
       /\ review' = [review EXCEPT ![e] = row_]
       /\ request' = [request EXCEPT ![s] = None]
       /\ UNCHANGED emission
    BY <1>1, <1>3, <1>4, <1>8, <1>10, <1>12 DEF Review!CommitConvert, Review!Done
<1>15. status' = status \/ status' = [status EXCEPT ![x.inventory] = "review_required"]
    BY <1>1, <1>4 DEF Review!CommitConvert
<1>16. Review!Operational' = Review!Operational \union {x}
    BY <1>5, <1>14 DEF Review!Operational
<1>17. ReviewRequests'
    BY <1>11, <1>13, <1>14, NoneAssumption, ReviewRequestsKept
    DEF ReviewGrows, ReviewInv, ReviewTables
<1>18. Review!TypeOK'
    <2>1. status' \in [Inventories -> {"draft", "review_required"} \union Review!Frozen]
        BY <1>5, <1>15 DEF ReviewInv, Review!TypeOK
    <2> QED
        BY <2>1, <1>11, <1>13, <1>14 DEF ReviewInv, Review!TypeOK, ReviewTables
<1>19. ReviewTables'
    <2>1. \A c \in Emissions : comparison'[c] # None => review'[c] # None
        BY <1>11, <1>14, NoneAssumption DEF ReviewInv, ReviewTables
    <2>2. \A r \in Review!Operational' : r.emission \in Emissions
        BY <1>5, <1>16 DEF ReviewInv, ReviewTables
    <2> QED
        BY <2>1, <2>2, <1>5, <1>14, ResultStored DEF ReviewInv, ReviewTables
<1>20. Review!OneConversion'
    BY <1>5, <1>6, <1>16 DEF ReviewInv, Review!OneConversion
<1>21. Review!ReferencesKept'
    <2> SUFFICES ASSUME NEW c \in Emissions
                 PROVE  LET of == {<<r.inventory, r.version>> :
                                     r \in {y \in Review!Operational' : y.emission = c}} IN
                        IF comparison'[c] = None
                        THEN of = {} /\ (review'[c] # None => review'[c].result = None)
                        ELSE of = {review'[c].result}
        BY DEF Review!ReferencesKept
    <2>1. CASE c = e
        <3>1. {y \in Review!Operational' : y.emission = c} = {x}
            BY <2>1, <1>5, <1>6, <1>16
        <3>2. comparison'[c] # None /\ review'[c].result = converted
            BY <2>1, <1>11, <1>13, <1>14 DEF ReviewInv, ReviewTables
        <3> QED
            BY <3>1, <3>2, <1>8
    <2>2. CASE c # e
        <3>1. {y \in Review!Operational' : y.emission = c}
                 = {y \in Review!Operational : y.emission = c}
            BY <2>2, <1>5, <1>16
        <3>2. comparison'[c] = comparison[c] /\ review'[c] = review[c]
            BY <2>2, <1>14 DEF ReviewInv, ReviewTables
        <3> QED
            BY <3>1, <3>2 DEF ReviewInv, Review!ReferencesKept
    <2> QED
        BY <2>1, <2>2
<1> QED
    BY <1>17, <1>18, <1>19, <1>20, <1>21 DEF ReviewInv

(* A comparison that is there changes, with a comparator's result or not.   *)
LEMMA ComparisonChanges ==
    ASSUME ReviewInv, NEW s \in Sessions, NEW e \in Emissions, NEW row_,
           comparison[e] # None, row_ \in Review!ComparisonRows,
           comparison' = [comparison EXCEPT ![e] = row_],
           request' = [request EXCEPT ![s] = None],
           UNCHANGED <<emission, review, status>>,
           \/ UNCHANGED run_results
           \/ \E x : /\ run_results' = run_results \union {x} /\ x.kind = "government"
                     /\ x.inventory \in Inventories /\ x.version \in Review!Version
    PROVE  ReviewInv'
<1>1. row_ # None
    BY NoneAssumption
<1>2. run_results \subseteq run_results' /\ Review!Operational' = Review!Operational
    BY DEF Review!Operational
<1>3. ReviewRequests'
    BY <1>1, <1>2, ReviewRequestsKept DEF ReviewGrows, ReviewInv, ReviewTables
<1>4. Review!TypeOK'
    BY DEF ReviewInv, Review!TypeOK, ReviewTables
<1>5. ReviewTables'
    <2>1. /\ \E n \in Nat : \A r \in run_results' : r.version <= n
          /\ \A r \in run_results' : r.inventory \in Inventories /\ r.version \in Review!Version
        BY ResultStored DEF ReviewInv, ReviewTables
    <2>2. \A c \in Emissions : comparison'[c] # None => review'[c] # None
        BY DEF ReviewInv, ReviewTables
    <2> QED
        BY <2>1, <2>2, <1>2 DEF ReviewInv, ReviewTables
<1>6. Review!OneConversion'
    BY <1>2 DEF ReviewInv, Review!OneConversion
<1>7. Review!ReferencesKept'
    BY <1>1, <1>2 DEF ReviewInv, ReviewTables, Review!ReferencesKept
<1> QED
    BY <1>3, <1>4, <1>5, <1>6, <1>7 DEF ReviewInv

LEMMA ComparisonCommits ==
    ASSUME ReviewInv, NEW s \in Sessions, Review!CommitReady(s) \/ Review!CommitUnavailable(s)
    PROVE  ReviewInv'
<1>1. PICK q : q = request[s]
    OBVIOUS
<1>2. ReviewHolds(q) /\ q.op \in {"compare", "comparing"}
    BY <1>1 DEF ReviewInv, ReviewRequests, Review!CommitReady, Review!CommitUnavailable,
                Review!Serving
<1>3. PICK e \in Emissions : e = q.emission
    BY <1>2 DEF ReviewHolds
<1>4. comparison[e] # None /\ comparison[e] \in Review!ComparisonRows
    BY <1>2, <1>3 DEF ReviewHolds, ReviewInv, Review!TypeOK
<1>5. request' = [request EXCEPT ![s] = None] /\ UNCHANGED <<emission, review, status>>
    BY DEF Review!CommitReady, Review!CommitUnavailable, Review!Done
<1>6. CASE Review!CommitReady(s)
    <2>1. PICK x : x = q.result
        OBVIOUS
    <2>2. x.kind = "government" /\ x.inventory \in Inventories /\ x.version \in Review!Version
        BY <1>1, <1>2, <1>6, <2>1 DEF ReviewHolds, Review!CommitReady, Review!Serving
    <2>3. PICK row_ : row_ = Review!Update(comparison[e], q.loaded,
                                [status |-> "ready", government |-> x.version])
        OBVIOUS
    <2>4. row_ \in Review!ComparisonRows
        BY <1>4, <2>2, <2>3 DEF Review!Update, Review!ComparisonRows
    <2>5. /\ comparison' = [comparison EXCEPT ![e] = row_]
          /\ run_results' = run_results \union {x}
        BY <1>1, <1>3, <1>6, <2>1, <2>3 DEF Review!CommitReady
    <2> QED
        BY <1>4, <1>5, <2>2, <2>4, <2>5, ComparisonChanges
<1>7. CASE Review!CommitUnavailable(s)
    <2>1. PICK row_ : row_ = Review!Update(comparison[e], q.loaded,
                                [status |-> "unavailable", government |-> None])
        OBVIOUS
    <2>2. row_ \in Review!ComparisonRows
        BY <1>4, <2>1 DEF Review!Update, Review!ComparisonRows
    <2>3. /\ comparison' = [comparison EXCEPT ![e] = row_]
          /\ UNCHANGED run_results
        BY <1>1, <1>3, <1>7, <2>1 DEF Review!CommitUnavailable
    <2> QED
        BY <1>4, <1>5, <2>2, <2>3, ComparisonChanges
<1> QED
    BY <1>6, <1>7

LEMMA ReviewNext ==
    ASSUME ReviewInv, Review!Next
    PROVE  ReviewInv'
<1>1. ASSUME NEW i \in Inventories, Review!Govern(i) PROVE ReviewInv'
    <2>1. /\ status' \in [Inventories -> {"draft", "review_required"} \union Review!Frozen]
          /\ UNCHANGED <<emission, review, comparison, run_results, request>>
        BY <1>1 DEF Review!Govern, Review!requests, ReviewInv, Review!TypeOK, Review!Frozen
    <2>2. ReviewRequests'
        BY <2>1, ReviewRequestsStay DEF ReviewGrows, ReviewInv
    <2> QED
        BY <2>1, <2>2 DEF ReviewInv, Review!TypeOK, ReviewTables, Review!OneConversion,
                          Review!ReferencesKept, Review!Operational
<1>2. ASSUME NEW e \in Emissions, Review!CreateReview(e) PROVE ReviewInv'
    BY <1>2, ReviewCommits
<1>3. ASSUME NEW s \in Sessions, NEW e \in Emissions,
             \/ \E c \in Source(e) : Review!LoadUpsert(s, e, c)
             \/ \E c \in Classifications : Review!LoadClassify(s, e, c)
             \/ \E i \in Inventories : Review!LoadStart(s, e, i)
             \/ \E d \in {"approved", "rejected"} : Review!LoadDecide(s, e, d)
             \/ Review!LoadConvert(s, e) \/ Review!LoadCompare(s, e)
      PROVE  ReviewInv'
    BY <1>3, ReviewLoads
<1>4. ASSUME NEW s \in Sessions,
             \/ Review!LoadSync(s) \/ Review!CheckConvert(s) \/ Review!CompareRun(s)
             \/ Review!Abandon(s)
      PROVE  ReviewInv'
    BY <1>4, ReviewReads
<1>5. ASSUME NEW s \in Sessions, Review!CommitSync(s) \/ Review!CommitReview(s)
      PROVE  ReviewInv'
    BY <1>5, ReviewCommits
<1>6. ASSUME NEW s \in Sessions, Review!CommitUpsert(s) \/ Review!CommitClassify(s)
      PROVE  ReviewInv'
    BY <1>6, EmissionChanges
<1>7. ASSUME NEW s \in Sessions, Review!CommitConvert(s) PROVE ReviewInv'
    BY <1>7, ConversionKeeps
<1>8. ASSUME NEW s \in Sessions, Review!CommitReady(s) \/ Review!CommitUnavailable(s)
      PROVE  ReviewInv'
    BY <1>8, ComparisonCommits
<1> QED
    BY <1>1, <1>2, <1>3, <1>4, <1>5, <1>6, <1>7, <1>8 DEF Review!Next

LEMMA ReviewSame == ReviewInv /\ UNCHANGED <<requests, reviewVars>> => ReviewInv'
<1> SUFFICES ASSUME ReviewInv, UNCHANGED <<requests, reviewVars>> PROVE ReviewInv'
    OBVIOUS
<1>1. ReviewRequests'
    BY ReviewRequestsStay DEF ReviewGrows, ReviewInv, requests, reviewVars
<1> QED
    BY <1>1 DEF ReviewInv, reviewVars, Review!TypeOK, ReviewTables, Review!OneConversion,
                Review!ReferencesKept, Review!Operational

----------------------------------------------------------------------------
(* DataIntegration                                                          *)

(* The object of an item after a batch is what was loaded, which is there   *)
(* if one of the records was for it, or what one of them made of it.        *)
BatchObject(x, records, organisation, loaded, object) ==
    \/ /\ object = loaded[x]
       /\ \A n \in 1 .. Len(records) :
            records[n].item = x /\ organisation[n] # None => loaded[x] # None
    \/ \E n \in 1 .. Len(records) :
         /\ records[n].item = x /\ organisation[n] # None
         /\ \E old : object = Import!Upserted(old, records[n], organisation[n])

LEMMA ObjectOfBatch ==
    ASSUME NEW x, NEW records, Len(records) \in Nat, NEW organisation, NEW loaded,
           NEW after, after = Import!ObjectAfter(x, records, organisation, loaded)
    PROVE  BatchObject(x, records, organisation, loaded, after)
<1> DEFINE step(n, old) ==
               IF records[n].item # x \/ organisation[n] = None THEN old
               ELSE IF old # None /\ old.hash = Import!HashOf(records[n]) THEN old
               ELSE Import!Upserted(old, records[n], organisation[n])
           body(f, n) == IF n = 0 THEN loaded[x] ELSE step(n, f[n - 1])
           defined(f, k) == f = [n \in 0 .. k |-> body(f, n)]
           object == CHOOSE f : defined(f, Len(records))
           good(k, v) ==
               \/ /\ v = loaded[x]
                  /\ \A n \in 1 .. k :
                       records[n].item = x /\ organisation[n] # None => loaded[x] # None
               \/ \E n \in 1 .. k :
                    /\ records[n].item = x /\ organisation[n] # None
                    /\ \E old : v = Import!Upserted(old, records[n], organisation[n])
<1>1. after = object[Len(records)]
    BY DEF Import!ObjectAfter
<1> HIDE DEF object
<1>2. \A k \in Nat : \E f : defined(f, k)
    <2> DEFINE S == {k \in Nat : \E f : defined(f, k)}
    <2>1. 0 \in S
        <3>1. defined([n \in 0 .. 0 |-> loaded[x]], 0)
            OBVIOUS
        <3> QED
            BY <3>1
    <2>2. ASSUME NEW k \in Nat, k \in S PROVE k + 1 \in S
        <3>1. PICK f : defined(f, k)
            BY <2>2
        <3> HIDE DEF step
        <3>2. PICK g : g = [n \in 0 .. k + 1 |-> IF n = k + 1 THEN step(n, f[k]) ELSE f[n]]
            OBVIOUS
        <3>3. \A n \in 0 .. k + 1 : g[n] = body(g, n)
            <4> TAKE n \in 0 .. k + 1
            <4>1. CASE n = k + 1
                BY <3>2, <4>1
            <4>2. CASE n # k + 1
                <5>1. n \in 0 .. k /\ g[n] = f[n]
                    BY <3>2, <4>2
                <5>2. f[n] = body(f, n)
                    BY <3>1, <5>1
                <5>3. n # 0 => g[n - 1] = f[n - 1]
                    BY <3>2, <5>1
                <5> QED
                    BY <5>1, <5>2, <5>3
            <4> QED
                BY <4>1, <4>2
        <3>4. defined(g, k + 1)
            BY <3>2, <3>3
        <3> QED
            BY <3>4
    <2> HIDE DEF S
    <2>3. Nat \subseteq S
        BY <2>1, <2>2, NaturalInduction
    <2> QED
        BY <2>3 DEF S
<1>3. defined(object, Len(records))
    BY <1>2 DEF object
<1>4. object[0] = loaded[x]
      /\ \A k \in Nat : k + 1 <= Len(records) => object[k + 1] = step(k + 1, object[k])
    BY <1>3
<1> HIDE DEF defined, body
<1>5. ASSUME NEW k \in Nat, k + 1 <= Len(records), good(k, object[k])
      PROVE  good(k + 1, object[k + 1])
    <2> DEFINE taken == records[k + 1].item = x /\ organisation[k + 1] # None
    <2>1. \/ object[k + 1] = object[k] /\ ~taken
          \/ object[k + 1] = object[k] /\ object[k] # None
          \/ /\ taken
             /\ object[k + 1] = Import!Upserted(object[k], records[k + 1], organisation[k + 1])
        BY <1>4, <1>5
    <2>2. k + 1 \in 1 .. k + 1 /\ \A n \in 1 .. k + 1 : n \in 1 .. k \/ n = k + 1
        OBVIOUS
    <2>3. 1 .. k \subseteq 1 .. k + 1
        OBVIOUS
    <2> HIDE DEF step
    <2>4. CASE \/ object[k + 1] = object[k] /\ ~taken
               \/ object[k + 1] = object[k] /\ object[k] # None
        <3>1. CASE \E n \in 1 .. k :
                     /\ records[n].item = x /\ organisation[n] # None
                     /\ \E old : object[k] = Import!Upserted(old, records[n], organisation[n])
            BY <2>3, <2>4, <3>1
        <3>2. CASE /\ object[k] = loaded[x]
                   /\ \A n \in 1 .. k :
                        records[n].item = x /\ organisation[n] # None => loaded[x] # None
            BY <2>2, <2>4, <3>2
        <3> QED
            BY <1>5, <3>1, <3>2
    <2>5. CASE /\ taken
               /\ object[k + 1] = Import!Upserted(object[k], records[k + 1], organisation[k + 1])
        BY <2>2, <2>5
    <2> QED
        BY <2>1, <2>4, <2>5
<1>6. good(0, object[0])
    BY <1>4
<1>7. good(Len(records), object[Len(records)])
    <2> HIDE DEF good
    <2> DEFINE S == {k \in Nat : k <= Len(records) => good(k, object[k])}
    <2>1. 0 \in S
        BY <1>6
    <2>2. ASSUME NEW k \in Nat, k \in S PROVE k + 1 \in S
        BY <1>5, <2>2
    <2> HIDE DEF S
    <2>3. Nat \subseteq S
        BY <2>1, <2>2, NaturalInduction
    <2> QED
        BY <2>3 DEF S
<1> QED
    BY <1>1, <1>7 DEF BatchObject

(* What a row, or the object that stands for it, may be                     *)
ItemRow(x, v) == v = None \/ (v \in Import!ItemRows /\ x \notin v.links)

(* What a request in flight has loaded, and what of it stays true.          *)
ImportHolds(q) ==
    /\ q.op \in {"batch", "replay", "connect", "sync"}
    /\ q.op = "batch" =>
         /\ q.key \in Keys /\ q.records \in Payloads
         /\ DOMAIN q.organisation = DOMAIN q.records
         /\ \A n \in DOMAIN q.records : q.organisation[n] \in Organisations \union {None}
         /\ \A x \in Items : ItemRow(x, q.loaded[x]) /\ (q.loaded[x] # None => row[x] # None)
    /\ q.op = "replay" => q.key \in Keys /\ batch[q.key] # None
    /\ q.op = "connect" =>
         /\ q.connection \in Connections /\ q.profile \in Profiles
         /\ q.loaded # None =>
              q.loaded \in Import!ConnectionRows /\ connection[q.connection] # None
    /\ q.op = "sync" => q.identity \in Import!Identities

ImportRequests ==
    /\ DOMAIN request = Sessions
    /\ \A s \in Sessions : request[s] # None => ImportHolds(request[s])

ImportTables ==
    /\ DOMAIN row = Items /\ DOMAIN batch = Keys /\ DOMAIN connection = Connections
    /\ DOMAIN jobs = Import!Identities /\ DOMAIN applied = Keys

ImportInv ==
    /\ Import!TypeOK /\ ImportTables /\ ImportRequests
    /\ Import!AppliedOnce /\ Import!BatchWhole /\ Import!HashNamesRow

(* Rows are added to and changed, never taken back.                         *)
ImportGrows ==
    /\ \A x \in Items : row[x] # None => row'[x] # None
    /\ \A k \in Keys : batch[k] # None => batch'[k] # None
    /\ \A c \in Connections : connection[c] # None => connection'[c] # None

LEMMA ImportInit == Import!Init => ImportInv
<1> SUFFICES ASSUME Import!Init PROVE ImportInv
    OBVIOUS
<1> USE DEF Import!Init, Import!InitRequests
<1>1. Import!TypeOK
    BY DEF Import!TypeOK
<1>2. ImportTables
    BY DEF ImportTables
<1>3. ImportRequests
    BY DEF ImportRequests
<1>4. Import!AppliedOnce
    BY DEF Import!AppliedOnce
<1>5. Import!BatchWhole /\ Import!HashNamesRow
    BY DEF Import!BatchWhole, Import!HashNamesRow
<1> QED
    BY <1>1, <1>2, <1>3, <1>4, <1>5 DEF ImportInv

LEMMA ImportRequestsKept ==
    ASSUME ImportRequests, ImportGrows, NEW s \in Sessions, NEW r,
           request' = [request EXCEPT ![s] = r], r = None \/ ImportHolds(r)
    PROVE  ImportRequests'
<1>1. \A q : ImportHolds(q) => ImportHolds(q)'
    BY DEF ImportHolds, ImportGrows, Import!Identities
<1>2. DOMAIN request' = Sessions /\ request'[s] = r
      /\ \A t \in Sessions \ {s} : request'[t] = request[t]
    BY RequestChanges DEF ImportRequests
<1>3. ASSUME NEW t \in Sessions, request'[t] # None PROVE ImportHolds(request[t])'
    <2>1. PICK q : q = request'[t]
        OBVIOUS
    <2>2. ImportHolds(q)
        BY <1>2, <1>3, <2>1 DEF ImportRequests
    <2>3. ImportHolds(q)'
        BY <1>1, <2>2
    <2> QED
        BY <2>1, <2>3 DEF ImportHolds
<1> QED
    BY <1>2, <1>3 DEF ImportRequests

LEMMA ImportRequestsStay ==
    ASSUME ImportRequests, ImportGrows, UNCHANGED request
    PROVE  ImportRequests'
<1>1. ASSUME NEW t \in Sessions, request[t] # None PROVE ImportHolds(request[t])'
    BY <1>1 DEF ImportRequests, ImportHolds, ImportGrows
<1> QED
    BY <1>1 DEF ImportRequests

(* A request that has loaded rows or is rolled back                         *)
LEMMA ImportReadKeeps ==
    ASSUME ImportInv, UNCHANGED importVars, NEW s \in Sessions, NEW r,
           request' = [request EXCEPT ![s] = r], r = None \/ ImportHolds(r)
    PROVE  ImportInv'
<1>1. ImportRequests'
    BY ImportRequestsKept DEF ImportInv, ImportGrows, importVars
<1> QED
    BY <1>1 DEF ImportInv, importVars, Import!TypeOK, ImportTables, Import!AppliedOnce,
                Import!BatchWhole, Import!HashNamesRow

LEMMA ImportSame == ImportInv /\ UNCHANGED <<requests, importVars>> => ImportInv'
<1> SUFFICES ASSUME ImportInv, UNCHANGED <<requests, importVars>> PROVE ImportInv'
    OBVIOUS
<1>1. ImportRequests'
    BY ImportRequestsStay DEF ImportGrows, ImportInv, requests, importVars
<1> QED
    BY <1>1 DEF ImportInv, importVars, Import!TypeOK, ImportTables, Import!AppliedOnce,
                Import!BatchWhole, Import!HashNamesRow

LEMMA SentRecord ==
    ASSUME NEW p \in Payloads, NEW n \in DOMAIN p
    PROVE  /\ p[n] \in [item : Items, customer : Customers, links : SUBSET Items,
                        a : Import!Values, b : Import!Values]
           /\ p[n].item \notin p[n].links
           /\ DOMAIN p = 1 .. Len(p) /\ Len(p) \in Nat
<1>1. PICK records : records = [item : Items, customer : Customers, links : SUBSET Items,
                                a : Import!Values, b : Import!Values]
    OBVIOUS
<1>2. p \in Seq(records)
    BY <1>1, ImportAssumption DEF ImportAssumption
<1>3. p[n].item \notin p[n].links
    BY ImportAssumption DEF ImportAssumption
<1>4. DOMAIN p = 1 .. Len(p) /\ Len(p) \in Nat /\ p[n] \in records
    BY <1>2
<1> QED
    BY <1>1, <1>3, <1>4

LEMMA ImportReads ==
    ASSUME ImportInv, NEW s \in Sessions,
           \/ \E k \in Keys, p \in Payloads : Import!LoadBatch(s, k, p) \/ Import!LoadReplay(s, k, p)
           \/ \E c \in Connections : Import!LoadSync(s, c)
                                     \/ \E v \in Profiles : Import!LoadConnect(s, c, v)
           \/ Import!Abandon(s)
    PROVE  ImportInv'
<1> USE DEF Import!Receive, Import!rows, importVars
<1>1. ASSUME NEW k \in Keys, NEW p \in Payloads, Import!LoadBatch(s, k, p) PROVE ImportInv'
    <2>1. PICK o : o = [n \in DOMAIN p |-> IF Import!Accepted(p[n])
                                           THEN mapping[p[n].customer] ELSE None]
        OBVIOUS
    <2>2. PICK r : /\ r = [op |-> "batch", key |-> k, records |-> p, loaded |-> row,
                           organisation |-> o]
                   /\ request' = [request EXCEPT ![s] = r]
        BY <1>1, <2>1 DEF Import!LoadBatch
    <2>3. \A n \in DOMAIN p : o[n] \in Organisations \union {None}
        <3> TAKE n \in DOMAIN p
        <3>1. p[n].customer \in Customers
            BY SentRecord
        <3> QED
            BY <2>1, <3>1 DEF ImportInv, Import!TypeOK
    <2>4. \A x \in Items : ItemRow(x, row[x])
        BY DEF ImportInv, Import!TypeOK, ItemRow
    <2>5. DOMAIN o = DOMAIN p
        BY <2>1
    <2>6. ImportHolds(r)
        BY <2>2, <2>3, <2>4, <2>5 DEF ImportHolds
    <2> QED
        BY <1>1, <2>2, <2>6, ImportReadKeeps DEF Import!LoadBatch
<1>2. ASSUME NEW k \in Keys, NEW p \in Payloads, Import!LoadReplay(s, k, p) PROVE ImportInv'
    <2>1. PICK r : /\ r = [op |-> "replay", key |-> k]
                   /\ request' = [request EXCEPT ![s] = r]
        BY <1>2 DEF Import!LoadReplay
    <2>2. ImportHolds(r)
        BY <1>2, <2>1 DEF ImportHolds, Import!LoadReplay
    <2> QED
        BY <1>2, <2>1, <2>2, ImportReadKeeps DEF Import!LoadReplay
<1>3. ASSUME NEW c \in Connections, Import!LoadSync(s, c) PROVE ImportInv'
    <2>1. PICK r : /\ r = [op |-> "sync", identity |-> <<c, connection[c].profile>>]
                   /\ request' = [request EXCEPT ![s] = r]
        BY <1>3 DEF Import!LoadSync
    <2>2. connection[c].profile \in Profiles
        BY <1>3 DEF Import!LoadSync, ImportInv, Import!TypeOK, Import!ConnectionRows
    <2>3. ImportHolds(r)
        BY <2>1, <2>2 DEF ImportHolds, Import!Identities
    <2> QED
        BY <1>3, <2>1, <2>3, ImportReadKeeps DEF Import!LoadSync
<1>4. ASSUME NEW c \in Connections, NEW v \in Profiles, Import!LoadConnect(s, c, v)
      PROVE  ImportInv'
    <2>1. PICK r : /\ r = [op |-> "connect", connection |-> c, loaded |-> connection[c],
                           profile |-> v]
                   /\ request' = [request EXCEPT ![s] = r]
        BY <1>4 DEF Import!LoadConnect
    <2>2. connection[c] # None => connection[c] \in Import!ConnectionRows
        BY DEF ImportInv, Import!TypeOK
    <2>3. ImportHolds(r)
        BY <2>1, <2>2 DEF ImportHolds
    <2> QED
        BY <1>4, <2>1, <2>3, ImportReadKeeps DEF Import!LoadConnect
<1>5. ASSUME Import!Abandon(s) PROVE ImportInv'
    BY <1>5, ImportReadKeeps DEF Import!Abandon, Import!Fail, Import!Done
<1> QED
    BY <1>1, <1>2, <1>3, <1>4, <1>5

(* What an update makes of a record has its values and its hash.            *)
LEMMA UpsertedRow ==
    ASSUME NEW x \in Items, NEW p \in Payloads, NEW n \in DOMAIN p, p[n].item = x,
           NEW o \in Organisations, NEW old, NEW v, v = Import!Upserted(old, p[n], o)
    PROVE  v \in Import!ItemRows /\ x \notin v.links /\ v.hash = <<v.a, v.b>> /\ v # None
<1>1. /\ p[n].links \subseteq Items /\ x \notin p[n].links
      /\ p[n].a \in Import!Values /\ p[n].b \in Import!Values
    BY SentRecord
<1>2. v \in Import!ItemRows
    BY <1>1 DEF Import!Upserted, Import!HashOf, Import!ItemRows
<1>3. v # None
    BY <1>2, NoneAssumption
<1> QED
    BY <1>1, <1>2, <1>3 DEF Import!Upserted, Import!HashOf

(* The row of an item after the commit of a batch                           *)
LEMMA ItemAfterBatch ==
    ASSUME NEW x \in Items, NEW current, NEW loaded, NEW object, NEW after,
           ItemRow(x, current), ItemRow(x, loaded), loaded # None => current # None,
           \/ object = loaded
           \/ /\ object \in Import!ItemRows /\ x \notin object.links /\ object # None
              /\ object.hash = <<object.a, object.b>>,
           after = IF object = loaded THEN current
                   ELSE IF loaded = None THEN object
                   ELSE Import!Update(current, loaded, object)
    PROVE  /\ ItemRow(x, after)
           /\ current # None \/ object # None => after # None
           /\ \/ after = current
              \/ object # loaded /\ (current = loaded => after.hash = <<after.a, after.b>>)
<1>1. CASE object = loaded
    BY <1>1
<1>2. CASE object # loaded /\ loaded = None
    BY <1>2 DEF ItemRow
<1>3. CASE object # loaded /\ loaded # None
    <2>1. current \in Import!ItemRows /\ loaded \in Import!ItemRows
          /\ x \notin current.links /\ x \notin loaded.links
        BY <1>3 DEF ItemRow
    <2>2. after = Import!Update(current, loaded, object)
        BY <1>3
    <2>3. after \in Import!ItemRows
        BY <1>3, <2>1, <2>2 DEF Import!Update, Import!ItemRows
    <2>4. x \notin after.links
        BY <1>3, <2>1, <2>2 DEF Import!Update, Import!ItemRows
    <2>5. after # None
        BY <2>3, NoneAssumption
    <2>6. ASSUME current = loaded PROVE after.hash = <<after.a, after.b>>
        <3>1. after.hash = object.hash /\ after.a = object.a /\ after.b = object.b
            BY <1>3, <2>1, <2>2, <2>6 DEF Import!Update, Import!ItemRows
        <3> QED
            BY <1>3, <3>1
    <2> QED
        BY <1>3, <2>3, <2>4, <2>5, <2>6 DEF ItemRow
<1> QED
    BY <1>1, <1>2, <1>3

LEMMA BatchCommits ==
    ASSUME ImportInv, NEW s \in Sessions, Import!CommitBatch(s)
    PROVE  ImportInv'
<1>1. PICK q : q = request[s]
    OBVIOUS
<1>2. ImportHolds(q) /\ q.op = "batch"
    BY <1>1 DEF ImportInv, ImportRequests, Import!CommitBatch, Import!Serving
<1>kp. PICK k \in Keys, p \in Payloads : k = q.key /\ p = q.records
    BY <1>2 DEF ImportHolds
<1>3. PICK o, loaded :
        /\ k = q.key /\ p = q.records /\ o = q.organisation /\ loaded = q.loaded
        /\ DOMAIN o = DOMAIN p /\ \A n \in DOMAIN p : o[n] \in Organisations \union {None}
        /\ \A x \in Items : ItemRow(x, loaded[x]) /\ (loaded[x] # None => row[x] # None)
    BY <1>2, <1>kp DEF ImportHolds
<1> DEFINE rejected == {n \in DOMAIN p : o[n] = None}
           object == [x \in Items |-> Import!ObjectAfter(x, p, o, loaded)]
           written == {x \in Items : object[x] # loaded[x]}
           entry == [records |-> p, errors |-> rejected, status |-> Import!Outcome(p, rejected)]
<1>4. /\ batch[k] = None
      /\ batch' = [batch EXCEPT ![k] = entry]
      /\ row' = [x \in Items |->
                   IF x \notin written THEN row[x]
                   ELSE IF loaded[x] = None THEN object[x]
                   ELSE Import!Update(row[x], loaded[x], object[x])]
      /\ applied' = [applied EXCEPT ![k] = @ + 1]
      /\ torn' = torn \union {x \in written : row[x] # loaded[x]}
      /\ request' = [request EXCEPT ![s] = None]
      /\ UNCHANGED <<mapping, connection, jobs>>
    BY <1>1, <1>3 DEF Import!CommitBatch, Import!KeyFree, Import!Done
<1>5. ASSUME NEW x \in Items
      PROVE  /\ \/ object[x] = loaded[x]
                \/ /\ object[x] \in Import!ItemRows /\ x \notin object[x].links
                   /\ object[x] # None /\ object[x].hash = <<object[x].a, object[x].b>>
             /\ \A n \in DOMAIN p : p[n].item = x /\ o[n] # None => object[x] # None
    <2>1. PICK after : after = Import!ObjectAfter(x, p, o, loaded)
        OBVIOUS
    <2>2. Len(p) \in Nat /\ DOMAIN p = 1 .. Len(p)
        BY ImportAssumption DEF ImportAssumption
    <2>3. \/ /\ after = loaded[x]
             /\ \A n \in DOMAIN p : p[n].item = x /\ o[n] # None => loaded[x] # None
          \/ \E n \in DOMAIN p :
               /\ p[n].item = x /\ o[n] # None
               /\ \E old : after = Import!Upserted(old, p[n], o[n])
        <3>1. BatchObject(x, p, o, loaded, after)
            BY <2>1, <2>2, ObjectOfBatch
        <3> QED
            BY <2>2, <3>1 DEF BatchObject
    <2>4. object[x] = after
        BY <2>1
    <2>5. CASE /\ after = loaded[x]
               /\ \A n \in DOMAIN p : p[n].item = x /\ o[n] # None => loaded[x] # None
        BY <2>4, <2>5
    <2>6. ASSUME NEW n \in DOMAIN p, p[n].item = x, o[n] # None, NEW old,
                 after = Import!Upserted(old, p[n], o[n])
          PROVE  /\ after \in Import!ItemRows /\ x \notin after.links
                 /\ after.hash = <<after.a, after.b>> /\ after # None
        <3>1. o[n] \in Organisations
            BY <1>3, <2>6
        <3> QED
            BY <2>6, <3>1, UpsertedRow
    <2> QED
        BY <2>3, <2>4, <2>5, <2>6
<1>6. \A x \in Items : row'[x] = IF object[x] = loaded[x] THEN row[x]
                                 ELSE IF loaded[x] = None THEN object[x]
                                 ELSE Import!Update(row[x], loaded[x], object[x])
    BY <1>4
<1> HIDE DEF object
<1>7. ASSUME NEW x \in Items
      PROVE  /\ ItemRow(x, row'[x])
             /\ row[x] # None \/ object[x] # None => row'[x] # None
             /\ \/ row'[x] = row[x]
                \/ x \in written /\ (row[x] = loaded[x] =>
                                       row'[x].hash = <<row'[x].a, row'[x].b>>)
    <2>1. ItemRow(x, row[x])
        BY DEF ImportInv, Import!TypeOK, ItemRow
    <2>2. PICK current, before, ob, after :
            current = row[x] /\ before = loaded[x] /\ ob = object[x] /\ after = row'[x]
        OBVIOUS
    <2>3. /\ ItemRow(x, current) /\ ItemRow(x, before) /\ (before # None => current # None)
          /\ \/ ob = before
             \/ /\ ob \in Import!ItemRows /\ x \notin ob.links /\ ob # None
                /\ ob.hash = <<ob.a, ob.b>>
          /\ after = IF ob = before THEN current
                     ELSE IF before = None THEN ob
                     ELSE Import!Update(current, before, ob)
        BY <1>3, <1>5, <1>6, <2>1, <2>2
    <2>4. /\ ItemRow(x, after)
          /\ current # None \/ ob # None => after # None
          /\ \/ after = current
             \/ ob # before /\ (current = before => after.hash = <<after.a, after.b>>)
        BY <2>3, ItemAfterBatch
    <2> QED
        BY <2>2, <2>4
<1>8. entry \in Import!BatchRows /\ entry # None
    <2>1. rejected \subseteq Nat
        BY ImportAssumption DEF ImportAssumption
    <2>2. Import!Outcome(p, rejected) \in {"completed", "partial", "failed"}
        BY DEF Import!Outcome
    <2>3. entry \in Import!BatchRows
        BY <2>1, <2>2 DEF Import!BatchRows
    <2> QED
        BY <2>3, NoneAssumption
<1>9. entry.records = p /\ entry.errors = rejected
    OBVIOUS
<1> HIDE DEF entry
<1>10. ImportRequests'
    BY <1>4, <1>7, <1>8, ImportRequestsKept DEF ImportGrows, ImportInv, ImportTables
<1>11. Import!TypeOK'
    BY <1>4, <1>7, <1>8 DEF ImportInv, ImportTables, Import!TypeOK, ItemRow
<1>12. ImportTables'
    BY <1>4 DEF ImportInv, ImportTables
<1>13. Import!AppliedOnce'
    BY <1>4, <1>8 DEF ImportInv, ImportTables, Import!AppliedOnce
<1>14. Import!BatchWhole'
    <2>1. ASSUME NEW c \in Keys, batch'[c] # None, NEW n \in DOMAIN batch'[c].records
          PROVE  row'[batch'[c].records[n].item] # None \/ n \in batch'[c].errors
        <3>1. CASE c = k
            <4>1. batch'[c].records = p /\ batch'[c].errors = rejected
                BY <1>4, <1>9, <3>1 DEF ImportInv, ImportTables
            <4>2. p[n].item \in Items
                BY <2>1, <4>1, SentRecord
            <4> QED
                BY <1>5, <1>7, <2>1, <4>1, <4>2
        <3>2. CASE c # k
            <4>1. batch'[c] = batch[c] /\ batch[c].records \in Payloads
                BY <1>4, <2>1, <3>2
                DEF ImportInv, ImportTables, Import!TypeOK, Import!BatchRows
            <4>2. batch[c].records[n].item \in Items
                BY <2>1, <4>1, SentRecord
            <4> QED
                BY <1>7, <2>1, <4>1, <4>2 DEF ImportInv, Import!BatchWhole
        <3> QED
            BY <3>1, <3>2
    <2> QED
        BY <2>1 DEF Import!BatchWhole
<1>15. Import!HashNamesRow'
    BY <1>4, <1>7 DEF ImportInv, Import!HashNamesRow
<1> QED
    BY <1>10, <1>11, <1>12, <1>13, <1>14, <1>15 DEF ImportInv

(* The status of a batch that is there                                      *)
LEMMA ReplayCommits ==
    ASSUME ImportInv, NEW s \in Sessions, Import!CommitReplay(s)
    PROVE  ImportInv'
<1>1. PICK q : q = request[s]
    OBVIOUS
<1>2. ImportHolds(q) /\ q.op = "replay"
    BY <1>1 DEF ImportInv, ImportRequests, Import!CommitReplay, Import!Serving
<1>3. PICK k \in Keys : k = q.key /\ batch[k] # None
    BY <1>2 DEF ImportHolds
<1>4. PICK entry : entry = [batch[k] EXCEPT !.status = "duplicate"]
    OBVIOUS
<1>5. batch[k] \in Import!BatchRows
    BY <1>3 DEF ImportInv, Import!TypeOK
<1>6. /\ entry \in Import!BatchRows
      /\ entry.records = batch[k].records /\ entry.errors = batch[k].errors
    BY <1>4, <1>5 DEF Import!BatchRows
<1>7. entry # None
    BY <1>6, NoneAssumption
<1>8. /\ batch' = [batch EXCEPT ![k] = entry]
      /\ request' = [request EXCEPT ![s] = None]
      /\ UNCHANGED <<mapping, row, connection, jobs, applied, torn>>
    BY <1>1, <1>3, <1>4 DEF Import!CommitReplay, Import!Done, ImportInv, ImportTables
<1>9. ImportRequests'
    BY <1>7, <1>8, ImportRequestsKept DEF ImportGrows, ImportInv, ImportTables
<1>10. Import!TypeOK'
    BY <1>6, <1>8 DEF ImportInv, ImportTables, Import!TypeOK
<1>11. ImportTables'
    BY <1>8 DEF ImportInv, ImportTables
<1>12. Import!AppliedOnce'
    BY <1>3, <1>7, <1>8 DEF ImportInv, ImportTables, Import!AppliedOnce
<1>13. Import!BatchWhole'
    BY <1>3, <1>6, <1>8 DEF ImportInv, ImportTables, Import!BatchWhole
<1>14. Import!HashNamesRow'
    BY <1>8 DEF ImportInv, Import!HashNamesRow
<1> QED
    BY <1>9, <1>10, <1>11, <1>12, <1>13, <1>14 DEF ImportInv

(* Accounting connections, their windows and the mapping of customers       *)
LEMMA AccountingCommits ==
    ASSUME ImportInv,
           \/ \E s \in Sessions : Import!CommitConnect(s) \/ Import!CommitSync(s)
           \/ \E c \in Connections : Import!Authorise(c)
           \/ \E c \in Customers, o \in Organisations : Import!Map(c, o)
    PROVE  ImportInv'
<1>1. ASSUME NEW s \in Sessions, Import!CommitConnect(s) PROVE ImportInv'
    <2>1. PICK q : q = request[s]
        OBVIOUS
    <2>2. ImportHolds(q) /\ q.op = "connect"
        BY <1>1, <2>1 DEF ImportInv, ImportRequests, Import!CommitConnect, Import!Serving
    <2>3. PICK c \in Connections : c = q.connection
        BY <2>2 DEF ImportHolds
    <2>4. PICK row_ : row_ = IF q.loaded = None THEN [status |-> "draft", profile |-> q.profile]
                ELSE Import!Update(connection[c], q.loaded, [profile |-> q.profile,
                       status |-> IF q.loaded.status = "revoked" THEN "draft"
                                  ELSE q.loaded.status])
        OBVIOUS
    <2>5. row_ \in Import!ConnectionRows
        <3>1. CASE q.loaded = None
            BY <2>2, <2>4, <3>1 DEF Import!ConnectionRows, ImportHolds
        <3>2. CASE q.loaded # None
            <4>1. /\ connection[c] \in Import!ConnectionRows
                  /\ q.loaded \in Import!ConnectionRows /\ q.profile \in Profiles
                BY <2>2, <2>3, <3>2 DEF ImportHolds, ImportInv, Import!TypeOK
            <4> QED
                BY <2>4, <3>2, <4>1 DEF Import!ConnectionRows, Import!Update
        <3> QED
            BY <3>1, <3>2
    <2>6. row_ # None
        BY <2>5, NoneAssumption
    <2>7. /\ connection' = [connection EXCEPT ![c] = row_]
          /\ request' = [request EXCEPT ![s] = None]
          /\ UNCHANGED <<mapping, row, batch, jobs, applied, torn>>
        BY <1>1, <2>1, <2>3, <2>4
        DEF Import!CommitConnect, Import!Done, ImportInv, ImportTables
    <2>8. ImportRequests'
        BY <2>6, <2>7, ImportRequestsKept DEF ImportGrows, ImportInv, ImportTables
    <2> QED
        BY <2>5, <2>7, <2>8 DEF ImportInv, ImportTables, Import!TypeOK, Import!AppliedOnce,
                                Import!BatchWhole, Import!HashNamesRow
<1>2. ASSUME NEW s \in Sessions, Import!CommitSync(s) PROVE ImportInv'
    <2>1. /\ jobs[request[s].identity] = 0
          /\ jobs' = [jobs EXCEPT ![request[s].identity] = @ + 1]
          /\ request' = [request EXCEPT ![s] = None]
          /\ UNCHANGED <<mapping, row, batch, connection, applied, torn>>
        BY <1>2 DEF Import!CommitSync, Import!IdentityFree, Import!Done
    <2>2. ImportRequests'
        BY <2>1, ImportRequestsKept DEF ImportGrows, ImportInv
    <2>3. Import!AppliedOnce'
        BY <2>1 DEF ImportInv, ImportTables, Import!AppliedOnce
    <2> QED
        BY <2>1, <2>2, <2>3 DEF ImportInv, ImportTables, Import!TypeOK, Import!BatchWhole,
                                Import!HashNamesRow
<1>3. ASSUME NEW c \in Connections, Import!Authorise(c) PROVE ImportInv'
    <2>1. connection[c] # None /\ connection[c] \in Import!ConnectionRows
        BY <1>3 DEF Import!Authorise, ImportInv, Import!TypeOK
    <2>2. PICK row_ : row_ = [connection[c] EXCEPT !.status = IF @ = "active" THEN "revoked"
                                                              ELSE "active"]
        OBVIOUS
    <2>3. row_ \in Import!ConnectionRows
        BY <2>1, <2>2 DEF Import!ConnectionRows
    <2>4. row_ # None
        BY <2>3, NoneAssumption
    <2>5. /\ connection' = [connection EXCEPT ![c] = row_]
          /\ UNCHANGED <<mapping, row, batch, jobs, applied, torn, request>>
        BY <1>3, <2>2 DEF Import!Authorise, Import!requests, ImportInv, ImportTables
    <2>6. ImportRequests'
        BY <2>4, <2>5, ImportRequestsStay DEF ImportGrows, ImportInv, ImportTables
    <2> QED
        BY <2>3, <2>5, <2>6 DEF ImportInv, ImportTables, Import!TypeOK, Import!AppliedOnce,
                                Import!BatchWhole, Import!HashNamesRow
<1>4. ASSUME NEW c \in Customers, NEW o \in Organisations, Import!Map(c, o) PROVE ImportInv'
    <2>1. /\ mapping' = [mapping EXCEPT ![c] = o]
          /\ UNCHANGED <<row, batch, connection, jobs, applied, torn, request>>
        BY <1>4 DEF Import!Map, Import!requests
    <2>2. ImportRequests'
        BY <2>1, ImportRequestsStay DEF ImportGrows, ImportInv
    <2>3. mapping' \in [Customers -> Organisations \union {None}]
        BY <2>1 DEF ImportInv, Import!TypeOK
    <2> QED
        BY <2>1, <2>2, <2>3 DEF ImportInv, ImportTables, Import!TypeOK, Import!AppliedOnce,
                                Import!BatchWhole, Import!HashNamesRow
<1> QED
    BY <1>1, <1>2, <1>3, <1>4

LEMMA ImportNext ==
    ASSUME ImportInv, Import!Next
    PROVE  ImportInv'
<1>1. \/ \E c \in Customers, o \in Organisations : Import!Map(c, o)
      \/ \E c \in Connections : Import!Authorise(c)
      \/ \E s \in Sessions : Import!CommitConnect(s) \/ Import!CommitSync(s)
      \/ \E s \in Sessions : Import!CommitBatch(s)
      \/ \E s \in Sessions : Import!CommitReplay(s)
      \/ \E s \in Sessions :
           \/ \E k \in Keys, p \in Payloads :
                Import!LoadBatch(s, k, p) \/ Import!LoadReplay(s, k, p)
           \/ \E c \in Connections : Import!LoadSync(s, c)
                                     \/ \E v \in Profiles : Import!LoadConnect(s, c, v)
           \/ Import!Abandon(s)
    BY DEF Import!Next
<1> QED
    BY <1>1, ImportReads, BatchCommits, ReplayCommits, AccountingCommits
=============================================================================
