---------------------------- MODULE DataPlatform ----------------------------
(* What brings data into the platform and adds it up: the components that   *)
(* share no state with each other, any of which may be looked at.  The      *)
(* first state chooses the part that runs, the variables of the others stay *)
(* None: the behaviours are those of the parts, side by side.               *)
EXTENDS Integers, Sequences, FiniteSets

CONSTANTS
    None,
    Parts,           \* the parts that are looked at
    Arrivals(_),     \* part -> bound: requests received
    Sessions,
    Emissions, Inventories, Source(_), Group(_, _), InPeriod(_, _),
    Comparable(_), First(_), Classifications, MaxResults,               \* DataReview
    Customers, Organisations, Items, Keys, Payloads, Connections,
    Profiles,                                                           \* DataIntegration
    Entities, Facts,                                                    \* Boundaries
    Records, Amounts, Units, Normal(_, _), MaxActivities, MaxRuns,      \* Activities
    Days, MaxPeriods, MaxInventories,                                   \* ReportingSetup
    Pools, Queries, Contains(_, _), Dimension(_), Limit,                \* FactorResolution
    Slots, ResultAmounts, Kinds                                         \* Totals

VARIABLES
    part, request, received,
    emission, review, comparison, run_results, status,                  \* DataReview
    mapping, row, batch, connection, jobs, applied, torn,               \* DataIntegration
    boundary, membership, stale,                                        \* Boundaries
    activity, run, contested,                                           \* Activities
    period, inventory, overlapped,                                      \* ReportingSetup
    stored, resolution,                                                 \* FactorResolution
    results, shown                                                      \* Totals

requests       == <<request, received>>
reviewVars     == <<emission, review, comparison, run_results, status>>
importVars     == <<mapping, row, batch, connection, jobs, applied, torn>>
boundaryVars   == <<boundary, membership, stale>>
activityVars   == <<activity, run, contested>>
periodVars     == <<period, inventory, overlapped>>
resolutionVars == <<stored, resolution>>
totalVars      == <<results, shown>>

Review == INSTANCE DataReview WITH MaxRequests <- Arrivals("review"), results <- run_results

Import == INSTANCE DataIntegration WITH MaxRequests <- Arrivals("import")

Boundary == INSTANCE Boundaries WITH MaxRequests <- Arrivals("boundary")

Ledger == INSTANCE Activities WITH MaxRequests <- Arrivals("activities")

Setup == INSTANCE ReportingSetup WITH MaxRequests <- Arrivals("setup")

Resolutions == INSTANCE FactorResolution

RunTotals == INSTANCE Totals WITH Amounts <- ResultAmounts

(* What is confirmed at the start is one of an emission's contents, and what*)
(* a reviewer sets is a scope and a class.                                  *)
ASSUME ReviewAssumption ==
    /\ \A e \in Emissions : First(e) \in Source(e)
    /\ Classifications \subseteq [confirmed : Review!Scopes, class : Review!Classes]

(* A batch is a sequence of records, none of them linked to itself.         *)
ASSUME ImportAssumption ==
    \A p \in Payloads :
      /\ p \in Seq([item : Items, customer : Customers, links : SUBSET Items,
                    a : Import!Values, b : Import!Values])
      /\ \A n \in DOMAIN p : p[n].item \notin p[n].links

(* What can be stated of an entity                                          *)
ASSUME BoundaryAssumption ==
    Facts \subseteq [decision : {"auto", "included", "excluded"}, ownership : 0 .. 100,
                     operational : BOOLEAN, financial : BOOLEAN]

ASSUME SetupAssumption == MaxPeriods \in Nat /\ MaxInventories \in Nat /\ None \notin Nat

(* Years are numbers, and a database holds finitely many factors.           *)
ASSUME FactorAssumption ==
    /\ \A P \in Pools : IsFiniteSet(P) /\ \A f \in P : f.year \in Int /\ f # None
    /\ \A q \in Queries : q.year \in Int

(* A result is that of a validated activity (activity.py:51-60), and there  *)
(* are finitely many in a run.                                              *)
ASSUME TotalsAssumption ==
    /\ IsFiniteSet(Slots) /\ ResultAmounts \subseteq Nat
    /\ \A k \in Kinds : IF k.scope = 2 THEN k.method \in RunTotals!Bases
                        ELSE k.scope \in {1, 3} /\ k.method = "not_applicable"

(* NULL is no row and no key of one.                                        *)
ASSUME NoneAssumption ==
    None \notin Inventories \union (Inventories \X Review!Version) \union Review!Version
                \union Review!ReviewRows \union Review!ComparisonRows
                \union Organisations \union Import!ItemRows \union Import!BatchRows
                \union Import!ConnectionRows \union Boundary!MemberRows

----------------------------------------------------------------------------
Init ==
    /\ part \in Parts
    /\ IF part = "review" THEN Review!Init
       ELSE /\ emission = None /\ review = None /\ comparison = None
            /\ run_results = None /\ status = None
    /\ IF part = "import" THEN Import!Init
       ELSE /\ mapping = None /\ row = None /\ batch = None /\ connection = None
            /\ jobs = None /\ applied = None /\ torn = None
    /\ IF part = "boundary" THEN Boundary!Init
       ELSE /\ boundary = None /\ membership = None /\ stale = None
    /\ IF part = "activities" THEN Ledger!Init
       ELSE /\ activity = None /\ run = None /\ contested = None
    /\ IF part = "setup" THEN Setup!Init
       ELSE /\ period = None /\ inventory = None /\ overlapped = None
    /\ IF part = "resolution" THEN Resolutions!Init
       ELSE /\ stored = None /\ resolution = None
    /\ IF part = "totals" THEN RunTotals!Init
       ELSE /\ results = None /\ shown = None
    /\ request = [s \in Sessions |-> None] /\ received = 0

(* The other parts stay as they are.                                        *)
Rest ==
    /\ UNCHANGED part
    /\ IF part = "review" THEN TRUE ELSE UNCHANGED reviewVars
    /\ IF part = "import" THEN TRUE ELSE UNCHANGED importVars
    /\ IF part = "boundary" THEN TRUE ELSE UNCHANGED boundaryVars
    /\ IF part = "activities" THEN TRUE ELSE UNCHANGED activityVars
    /\ IF part = "setup" THEN TRUE ELSE UNCHANGED periodVars
    /\ IF part = "resolution" THEN TRUE ELSE UNCHANGED resolutionVars
    /\ IF part = "totals" THEN TRUE ELSE UNCHANGED totalVars
    /\ IF part \in {"resolution", "totals"} THEN UNCHANGED requests ELSE TRUE

ReviewStep      == part = "review"     /\ Review!Next      /\ Rest
ImportStep      == part = "import"     /\ Import!Next      /\ Rest
BoundaryStep    == part = "boundary"   /\ Boundary!Next    /\ Rest
LedgerStep      == part = "activities" /\ Ledger!Next      /\ Rest
SetupStep       == part = "setup"      /\ Setup!Next       /\ Rest
ResolutionsStep == part = "resolution" /\ Resolutions!Next /\ Rest
RunTotalsStep   == part = "totals"     /\ RunTotals!Next   /\ Rest

Next ==
    \/ ReviewStep \/ ImportStep \/ BoundaryStep \/ LedgerStep
    \/ SetupStep \/ ResolutionsStep \/ RunTotalsStep

vars == <<part, requests, reviewVars, importVars, boundaryVars, activityVars, periodVars,
          resolutionVars, totalVars>>

Spec == Init /\ [][Next]_vars

----------------------------------------------------------------------------
(* Every part that runs keeps its types.                                    *)
TypeOK ==
    /\ part = "review" => Review!TypeOK
    /\ part = "import" => Import!TypeOK
    /\ part = "boundary" => Boundary!TypeOK
    /\ part = "activities" => Ledger!TypeOK
    /\ part = "setup" => Setup!TypeOK
    /\ part = "resolution" => Resolutions!TypeOK

(* An emission, and an activity and period that two emissions report, is    *)
(* counted once (data_review.py:397).                                       *)
OneConversion == part = "review" => Review!OneConversion

(* A converted review keeps the references of its conversion                *)
(* (data_review.py:342).                                                    *)
ReferencesKept == part = "review" => Review!ReferencesKept

(* The totals an inventory shows are never a comparator's                   *)
(* (data_comparisons.py:48, workflows.py:193).                              *)
HeadlineExcludesComparators == part = "review" => Review!HeadlineExcludesComparators

(* An idempotency key applies one payload once, an accounting window is     *)
(* queued once (data_integration.py:156, accounting_connections.py:193).    *)
AppliedOnce == part = "import" => Import!AppliedOnce

(* A batch that is there was applied whole (data_integration.py:185-231).   *)
BatchWhole == part = "import" => Import!BatchWhole

(* A row is the record that its hash names, unless two batches wrote it at  *)
(* once (data_integration.py:272).                                          *)
HashNamesRow == part = "import" => Import!HashNamesRow

(* Shares follow from the boundary's approach and the entity's facts, unless*)
(* a request was overtaken (boundaries.py:200, :343, :397).                 *)
AllocationCurrent == part = "boundary" => Boundary!AllocationCurrent

(* The latest version of a source record is the one current activity of it  *)
(* (activities.py:123-166).                                                 *)
OneCurrent == part = "activities" => Ledger!OneCurrent

(* The normalised value is that of the value and unit beside it, unless two *)
(* requests changed the activity at once (activities.py:270-286).           *)
NormalMatches == part = "activities" => Ledger!NormalMatches

(* What counts as calculated is calculated with the value it has now, unless*)
(* an edit and a run crossed (activities.py:287, calculations.py:113-125).  *)
FreshResults == part = "activities" => Ledger!FreshResults

(* An organisation has one base year; the inventories of a period have the  *)
(* versions 1, 2, ..., one each unless the later one is a replacement, one  *)
(* version after its original, or its request overlapped                    *)
(* (workflows.py:47-63, :128-139, inventory_governance.py:786-795).         *)
SetupConsistent == part = "setup" => Setup!SetupConsistent

(* The factor that is selected fits best on every criterion that was asked  *)
(* for (resolution.py:125-215).                                             *)
BestSelected == part = "resolution" => Resolutions!BestSelected

(* The dashboard, the run summary and the audit report show one total       *)
(* (workflows.py:485, calculations.py:470, inventory_governance.py:1264).   *)
OneTotal == part = "totals" => RunTotals!OneTotal
=============================================================================
