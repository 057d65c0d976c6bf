----------------------------- MODULE DataReview -----------------------------
(* Operational emissions from the DATa batch that brings them to the result *)
(* they become: upsert and classification (services/data_integration.py),   *)
(* review and conversion (data_review.py), and the UK Government comparator *)
(* (data_comparisons.py).                                                   *)
(*                                                                          *)
(* A conversion creates an activity, a run with one result and a comparison *)
(* in one commit; they are one member of results here.  The emissions have  *)
(* been imported (DataIntegration).  Comments, reasons, review_snapshot and *)
(* emission.activity_id are left out.                                       *)
EXTENDS Requests, FiniteSets

CONSTANTS
    Emissions,       \* external_calculation_id
    Inventories,
    Source(_),       \* emission -> the contents DATa sends for it
    Group(_, _),     \* content, inventory -> the activity key and period it stands for
    InPeriod(_, _),  \* whether the content's date is in the inventory's period
    Comparable(_),   \* whether its comparison_inputs resolve to one approved factor
    First(_),        \* emission -> its content at the start, which is confirmed
    Classifications, \* scopes and classes a reviewer may set
    MaxResults       \* bound: results that may be created

VARIABLES
    emission,        \* emission -> its row
    review,          \* emission -> its review
    comparison,      \* emission -> its comparison
    results,         \* calculation results, each with the run made for it
    status           \* inventory -> its status

rows == <<emission, review, comparison, results, status>>
vars == <<rows, requests>>

Frozen   == {"approved", "locked"}
(* "transport": a scope and category that may be converted, 1 or 3 (4 or 9) *)
Scopes   == {"transport", "other"}

Init ==
    /\ emission   = [e \in Emissions |-> [content |-> First(e), class |-> "confirmed",
                                          confirmed |-> "transport"]]
    /\ review     = [e \in Emissions |-> None]
    /\ comparison = [e \in Emissions |-> None]
    /\ results    = {}
    /\ status     = [i \in Inventories |-> "draft"]
    /\ InitRequests

----------------------------------------------------------------------------
(* Source records and their classification                                  *)

(* upsert_operational_emission, a record of a batch that commits later      *)
LoadUpsert(s, e, c) ==
    /\ emission[e].content # c                         \* else the source hash is the same
    /\ Receive(s, [op |-> "upsert", emission |-> e, content |-> c, loaded |-> emission[e]])
    /\ UNCHANGED rows

CommitUpsert(s) ==
    LET q == request[s] IN
    /\ Serving(s, "upsert")
    /\ emission' = [emission EXCEPT ![q.emission] = Update(@, q.loaded,
                       [content |-> q.content, class |-> "review_required"])]
    /\ Done(s)
    /\ UNCHANGED <<review, comparison, results, status>>

(* confirm_operational_emission                                             *)
LoadClassify(s, e, classification) ==
    /\ Receive(s, [op |-> "classify", emission |-> e, loaded |-> emission[e],
                   changed |-> classification])
    /\ UNCHANGED rows

CommitClassify(s) ==
    LET q == request[s] IN
    /\ Serving(s, "classify")
    /\ emission' = [emission EXCEPT ![q.emission] = Update(@, q.loaded, q.changed)]
    /\ Done(s)
    /\ UNCHANGED <<review, comparison, results, status>>

----------------------------------------------------------------------------
(* Reviews                                                                  *)

PendingReview == [status |-> "pending", inventory |-> None, result |-> None]

(* get_or_create_review                                                     *)
CreateReview(e) ==
    /\ review[e] = None
    /\ review' = [review EXCEPT ![e] = PendingReview]
    /\ UNCHANGED <<emission, comparison, results, status, requests>>

(* ensure_pending_reviews_for_confirmed_emissions: one commit for all       *)
LoadSync(s) ==
    LET missing == {e \in Emissions : review[e] = None /\ emission[e].class = "confirmed"}
    IN  missing # {} /\ Receive(s, [op |-> "sync", missing |-> missing]) /\ UNCHANGED rows

CommitSync(s) ==
    /\ Serving(s, "sync")
    /\ \A e \in request[s].missing : review[e] = None   \* uq_data_review_operational_emission
    /\ review' = [e \in Emissions |->
                    IF e \in request[s].missing THEN PendingReview ELSE review[e]]
    /\ Done(s)
    /\ UNCHANGED <<emission, comparison, results, status>>

(* start_review, on the review that the route has loaded                    *)
LoadStart(s, e, i) ==
    /\ review[e] # None /\ review[e].status \notin {"converted", "rejected"}
    /\ emission[e].class = "confirmed"
    /\ status[i] \notin Frozen
    /\ InPeriod(emission[e].content, i)
    /\ Receive(s, [op |-> "start", emission |-> e, loaded |-> review[e],
                   changed |-> [status |-> "in_review", inventory |-> i]])
    /\ UNCHANGED rows

(* decide_review                                                            *)
LoadDecide(s, e, decision) ==
    /\ review[e] # None /\ review[e].status = "in_review"
    /\ Receive(s, [op |-> "decide", emission |-> e, loaded |-> review[e],
                   changed |-> [status |-> decision]])
    /\ UNCHANGED rows

CommitReview(s) ==
    LET q == request[s] IN
    /\ Serving(s, "start") \/ Serving(s, "decide")
    /\ review' = [review EXCEPT ![q.emission] = Update(@, q.loaded, q.changed)]
    /\ Done(s)
    /\ UNCHANGED <<emission, comparison, results, status>>

----------------------------------------------------------------------------
(* Conversion                                                               *)

Operational == {r \in results : r.kind = "operational"}

VersionsOf(i) == {r.version : r \in {x \in results : x.inventory = i}}

(* coalesce(max(version), 0) + 1                                            *)
NextVersion(i) ==
    IF VersionsOf(i) = {} THEN 1
    ELSE 1 + CHOOSE v \in VersionsOf(i) : \A w \in VersionsOf(i) : w <= v

(* uq_calculation_run_inventory_version                                     *)
VersionFree(i, v) == v \notin VersionsOf(i)

(* Mutant: the conversion relies on what it checked before it wrote.        *)
NoConstraint(e, g) == e \in Emissions /\ g # None

(* uq_activity_source_version, uq_data_comparison_group and                 *)
(* uq_data_comparison_operational_emission                                  *)
ConversionFree(e, g) == \A r \in Operational : r.emission # e /\ r.group # g

(* The DATa total is the result; no factor is applied.                      *)
OperationalResult(e, source, i) ==
    [kind |-> "operational", emission |-> e, inventory |-> i, version |-> NextVersion(i),
     group |-> Group(source.content, i)]

(* convert_review: the rows it loads first                                  *)
LoadConvert(s, e) ==
    /\ review[e] # None /\ review[e].status = "approved" /\ review[e].inventory # None
    /\ status[review[e].inventory] \notin Frozen
    /\ Cardinality(results) < MaxResults
    /\ Receive(s, [op |-> "convert", emission |-> e, loaded |-> review[e], source |-> emission[e],
                   status |-> status[review[e].inventory]])
    /\ UNCHANGED rows

(* the confirmed scope and category, and the date                           *)
Convertible(source, i) == source.confirmed = "transport" /\ InPeriod(source.content, i)

(* _ensure_comparison_group_available                                       *)
GroupAvailable(g) == \A r \in Operational : r.group # g

(* _create_external_activity: no current activity of the calculation        *)
ActivityAvailable(e) == \A r \in Operational : r.emission # e

(* Its checks, the insert of the activity and the version of the run.  A    *)
(* check that fails saves the reason and nothing else.                      *)
CheckConvert(s) ==
    LET q == request[s]  i == q.loaded.inventory IN
    /\ Serving(s, "convert")
    /\ Convertible(q.source, i)
    /\ GroupAvailable(Group(q.source.content, i))
    /\ ActivityAvailable(q.emission)
    /\ Continue(s, [op |-> "converting", emission |-> q.emission, loaded |-> q.loaded,
                    status |-> q.status,
                    result |-> OperationalResult(q.emission, q.source, i)])
    /\ UNCHANGED rows

(* Its commit.  The inventory's status is written if it was another one.    *)
CommitConvert(s) ==
    LET q == request[s]  e == q.emission  r == q.result IN
    /\ Serving(s, "converting")
    /\ VersionFree(r.inventory, r.version)
    /\ ConversionFree(e, r.group)
    /\ results' = results \union {r}
    /\ comparison' = [comparison EXCEPT ![e] = [status |-> "pending", government |-> None]]
    /\ review' = [review EXCEPT ![e] = Update(@, q.loaded,
                     [status |-> "converted", result |-> <<r.inventory, r.version>>])]
    /\ status' = IF q.status = "review_required" THEN status
                 ELSE [status EXCEPT ![r.inventory] = "review_required"]
    /\ Done(s)
    /\ UNCHANGED emission

----------------------------------------------------------------------------
(* UK Government comparator                                                 *)

(* generate_government_comparator, and the inventory of the DcarbN result   *)
LoadCompare(s, e) ==
    /\ comparison[e] # None /\ comparison[e].status # "ready"
    /\ Cardinality(results) < MaxResults
    /\ \E r \in Operational :
          /\ r.emission = e
          /\ Receive(s, [op |-> "compare", emission |-> e, loaded |-> comparison[e],
                         source |-> emission[e], inventory |-> r.inventory])
    /\ UNCHANGED rows

(* _comparison_inputs, and the factor they resolve to                       *)
Resolves(source) == Comparable(source.content) /\ source.confirmed = "transport"

GovernmentResult(e, i) ==
    [kind |-> "government", emission |-> e, inventory |-> i, version |-> NextVersion(i),
     group |-> None]

CompareRun(s) ==
    LET q == request[s] IN
    /\ Serving(s, "compare")
    /\ Resolves(q.source)
    /\ Continue(s, [op |-> "comparing", emission |-> q.emission, loaded |-> q.loaded,
                    result |-> GovernmentResult(q.emission, q.inventory)])
    /\ UNCHANGED rows

(* The run is SUPERSEDED from the start.                                    *)
CommitReady(s) ==
    LET q == request[s]  r == q.result IN
    /\ Serving(s, "comparing")
    /\ VersionFree(r.inventory, r.version)
    /\ results' = results \union {r}
    /\ comparison' = [comparison EXCEPT ![q.emission] = Update(@, q.loaded,
                         [status |-> "ready", government |-> r.version])]
    /\ Done(s)
    /\ UNCHANGED <<emission, review, status>>

(* _mark_unavailable: no factor, no single one, or inputs that do not fit   *)
CommitUnavailable(s) ==
    LET q == request[s] IN
    /\ Serving(s, "compare")
    /\ comparison' = [comparison EXCEPT ![q.emission] = Update(@, q.loaded,
                         [status |-> "unavailable", government |-> None])]
    /\ Done(s)
    /\ UNCHANGED <<emission, review, results, status>>

(* decide_approval and lock_inventory, of inventory_governance.py           *)
Govern(i) ==
    /\ \/ status[i] = "review_required" /\ status' = [status EXCEPT ![i] = "approved"]
       \/ status[i] = "approved"        /\ status' = [status EXCEPT ![i] = "locked"]
    /\ UNCHANGED <<emission, review, comparison, results, requests>>

Abandon(s) == Fail(s) /\ UNCHANGED rows

Next ==
    \/ \E i \in Inventories : Govern(i)
    \/ \E e \in Emissions : CreateReview(e)
    \/ \E s \in Sessions :
          \/ \E e \in Emissions :
                \/ \E c \in Source(e) : LoadUpsert(s, e, c)
                \/ \E c \in Classifications : LoadClassify(s, e, c)
                \/ \E i \in Inventories : LoadStart(s, e, i)
                \/ \E d \in {"approved", "rejected"} : LoadDecide(s, e, d)
                \/ LoadConvert(s, e) \/ LoadCompare(s, e)
          \/ LoadSync(s) \/ CommitSync(s) \/ CommitUpsert(s) \/ CommitClassify(s)
          \/ CommitReview(s) \/ CheckConvert(s) \/ CommitConvert(s)
          \/ CompareRun(s) \/ CommitReady(s) \/ CommitUnavailable(s) \/ Abandon(s)

Spec == Init /\ [][Next]_vars

----------------------------------------------------------------------------
(* list_inventories: the totals of an inventory are those of its run with   *)
(* the highest version                                                      *)
LatestRun(i) ==
    CHOOSE r \in results : r.inventory = i /\ \A v \in VersionsOf(i) : v <= r.version

Classes == {"confirmed", "rejected", "review_required"}
Version == Nat \ {0}
ReviewRows ==
    [status : {"pending", "in_review", "approved", "rejected", "converted"},
     inventory : Inventories \union {None}, result : (Inventories \X Version) \union {None}]
ComparisonRows ==
    [status : {"pending", "ready", "unavailable"}, government : Version \union {None}]

TypeOK ==
    /\ \A e \in Emissions :
         /\ emission[e] \in [content : Source(e), confirmed : Scopes, class : Classes]
         /\ review[e] # None => review[e] \in ReviewRows
         /\ comparison[e] # None => comparison[e] \in ComparisonRows
    /\ status \in [Inventories -> {"draft", "review_required"} \union Frozen]

(* However reviews of an emission are restarted, moved to another inventory *)
(* or converted twice at once, an emission is counted once, and so is an    *)
(* activity and period that two emissions report                            *)
(* (data_review.py:397, docs/data-review-conversion.md "No previous         *)
(* conversion").                                                            *)
OneConversion ==
    \A x, y \in Operational : x.emission = y.emission \/ x.group = y.group => x = y

(* A review keeps the references of its conversion, which the convert route *)
(* returns when it is asked again, also when a start or a decision that     *)
(* loaded the review before commits after it (data_review.py:342).          *)
ReferencesKept ==
    \A e \in Emissions :
      LET converted == {<<r.inventory, r.version>> : r \in {x \in Operational : x.emission = e}} IN
      IF comparison[e] = None THEN converted = {} /\ (review[e] # None => review[e].result = None)
      ELSE converted = {review[e].result}

(* What an inventory shows as its totals is never a comparator's result:    *)
(* "comparison_only_not_included_in_inventory_totals" (data_comparisons.py: *)
(* 48, workflows.py:193).                                                   *)
HeadlineExcludesComparators ==
    \A i \in Inventories : VersionsOf(i) # {} => LatestRun(i).kind # "government"
=============================================================================
