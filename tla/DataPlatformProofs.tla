------------------------- MODULE DataPlatformProofs -------------------------
(* The theorems of DataPlatform: what holds of each part that runs holds of *)
(* the parts side by side.                                                  *)
EXTENDS RecordedDataProofs

----------------------------------------------------------------------------
(* The invariant of the part that runs                                      *)
IInv ==
    /\ part = "review" => ReviewInv
    /\ part = "import" => ImportInv
    /\ part = "boundary" => BoundaryInv
    /\ part = "activities" => LedgerInv
    /\ part = "setup" => SetupInv
    /\ part = "resolution" => ResolutionInv
    /\ part = "totals" => TotalsInv

(* The part that runs keeps running.                                        *)
LEMMA PartStays == [Next]_vars => part' = part
BY DEF Next, vars, Rest, ReviewStep, ImportStep, BoundaryStep, LedgerStep, SetupStep,
       ResolutionsStep, RunTotalsStep

(* A step is one of the part that runs, or it changes nothing.              *)
LEMMA StepOfPart ==
    ASSUME [Next]_vars
    PROVE  \/ ReviewStep \/ ImportStep \/ BoundaryStep \/ LedgerStep \/ SetupStep
           \/ ResolutionsStep \/ RunTotalsStep \/ UNCHANGED vars
BY DEF Next

LEMMA ReviewPart ==
    ASSUME part = "review" => ReviewInv, [Next]_vars
    PROVE  (part = "review" => ReviewInv)'
<1>1. part' = part
    BY PartStays
<1>2. CASE part # "review"
    BY <1>1, <1>2
<1>3. CASE part = "review"
    <2>1. Review!Next \/ UNCHANGED vars
        BY <1>3, StepOfPart DEF ReviewStep, ImportStep, BoundaryStep, LedgerStep, SetupStep,
                                ResolutionsStep, RunTotalsStep
    <2>2. UNCHANGED vars => ReviewInv'
        BY <1>3, ReviewSame DEF vars
    <2> QED
        BY <1>3, <2>1, <2>2, ReviewNext
<1> QED
    BY <1>2, <1>3

LEMMA ImportPart ==
    ASSUME part = "import" => ImportInv, [Next]_vars
    PROVE  (part = "import" => ImportInv)'
<1>1. part' = part
    BY PartStays
<1>2. CASE part # "import"
    BY <1>1, <1>2
<1>3. CASE part = "import"
    <2>1. Import!Next \/ UNCHANGED vars
        BY <1>3, StepOfPart DEF ReviewStep, ImportStep, BoundaryStep, LedgerStep, SetupStep,
                                ResolutionsStep, RunTotalsStep
    <2>2. UNCHANGED vars => ImportInv'
        BY <1>3, ImportSame DEF vars
    <2> QED
        BY <1>3, <2>1, <2>2, ImportNext
<1> QED
    BY <1>2, <1>3

LEMMA BoundaryPart ==
    ASSUME part = "boundary" => BoundaryInv, [Next]_vars
    PROVE  (part = "boundary" => BoundaryInv)'
<1>1. part' = part
    BY PartStays
<1>2. CASE part # "boundary"
    BY <1>1, <1>2
<1>3. CASE part = "boundary"
    <2>1. Boundary!Next \/ UNCHANGED vars
        BY <1>3, StepOfPart DEF ReviewStep, ImportStep, BoundaryStep, LedgerStep, SetupStep,
                                ResolutionsStep, RunTotalsStep
    <2>2. UNCHANGED vars => BoundaryInv'
        BY <1>3, BoundarySame DEF vars
    <2> QED
        BY <1>3, <2>1, <2>2, BoundaryNext
<1> QED
    BY <1>2, <1>3

LEMMA LedgerPart ==
    ASSUME part = "activities" => LedgerInv, [Next]_vars
    PROVE  (part = "activities" => LedgerInv)'
<1>1. part' = part
    BY PartStays
<1>2. CASE part # "activities"
    BY <1>1, <1>2
<1>3. CASE part = "activities"
    <2>1. Ledger!Next \/ UNCHANGED vars
        BY <1>3, StepOfPart DEF ReviewStep, ImportStep, BoundaryStep, LedgerStep, SetupStep,
                                ResolutionsStep, RunTotalsStep
    <2>2. UNCHANGED vars => LedgerInv'
        BY <1>3, LedgerSame DEF vars
    <2> QED
        BY <1>3, <2>1, <2>2, LedgerNext
<1> QED
    BY <1>2, <1>3

LEMMA SetupPart ==
    ASSUME part = "setup" => SetupInv, [Next]_vars
    PROVE  (part = "setup" => SetupInv)'
<1>1. part' = part
    BY PartStays
<1>2. CASE part # "setup"
    BY <1>1, <1>2
<1>3. CASE part = "setup"
    <2>1. Setup!Next \/ UNCHANGED vars
        BY <1>3, StepOfPart DEF ReviewStep, ImportStep, BoundaryStep, LedgerStep, SetupStep,
                                ResolutionsStep, RunTotalsStep
    <2>2. UNCHANGED vars => SetupInv'
        BY <1>3, SetupSame DEF vars
    <2> QED
        BY <1>3, <2>1, <2>2, SetupNext
<1> QED
    BY <1>2, <1>3

LEMMA ResolutionPart ==
    ASSUME part = "resolution" => ResolutionInv, [Next]_vars
    PROVE  (part = "resolution" => ResolutionInv)'
<1>1. part' = part
    BY PartStays
<1>2. CASE part # "resolution"
    BY <1>1, <1>2
<1>3. CASE part = "resolution"
    <2>1. Resolutions!Next \/ UNCHANGED vars
        BY <1>3, StepOfPart DEF ReviewStep, ImportStep, BoundaryStep, LedgerStep, SetupStep,
                                ResolutionsStep, RunTotalsStep
    <2>2. UNCHANGED vars => ResolutionInv'
        BY <1>3, ResolutionSame DEF vars
    <2> QED
        BY <1>3, <2>1, <2>2, ResolutionNext
<1> QED
    BY <1>2, <1>3

LEMMA TotalsPart ==
    ASSUME part = "totals" => TotalsInv, [Next]_vars
    PROVE  (part = "totals" => TotalsInv)'
<1>1. part' = part
    BY PartStays
<1>2. CASE part # "totals"
    BY <1>1, <1>2
<1>3. CASE part = "totals"
    <2>1. RunTotals!Next \/ UNCHANGED vars
        BY <1>3, StepOfPart DEF ReviewStep, ImportStep, BoundaryStep, LedgerStep, SetupStep,
                                ResolutionsStep, RunTotalsStep
    <2>2. UNCHANGED vars => TotalsInv'
        BY <1>3, TotalsSame DEF vars
    <2> QED
        BY <1>3, <2>1, <2>2, TotalsNext
<1> QED
    BY <1>2, <1>3

LEMMA Initially == Init => IInv
<1> SUFFICES ASSUME Init PROVE IInv
    OBVIOUS
<1>1. part = "review" => ReviewInv
    BY ReviewInit DEF Init
<1>2. part = "import" => ImportInv
    BY ImportInit DEF Init
<1>3. part = "boundary" => BoundaryInv
    BY BoundaryInit DEF Init
<1>4. part = "activities" => LedgerInv
    BY LedgerInit DEF Init
<1>5. part = "setup" => SetupInv
    BY SetupInit DEF Init
<1>6. part = "resolution" => ResolutionInv
    BY ResolutionInit DEF Init
<1>7. part = "totals" => TotalsInv
    BY TotalsInit DEF Init
<1> QED
    BY <1>1, <1>2, <1>3, <1>4, <1>5, <1>6, <1>7 DEF IInv

LEMMA NextKeeps == IInv /\ [Next]_vars => IInv'
<1> SUFFICES ASSUME IInv, [Next]_vars PROVE IInv'
    OBVIOUS
<1>1. (part = "review" => ReviewInv)'
    BY ReviewPart DEF IInv
<1>2. (part = "import" => ImportInv)'
    BY ImportPart DEF IInv
<1>3. (part = "boundary" => BoundaryInv)'
    BY BoundaryPart DEF IInv
<1>4. (part = "activities" => LedgerInv)'
    BY LedgerPart DEF IInv
<1>5. (part = "setup" => SetupInv)'
    BY SetupPart DEF IInv
<1>6. (part = "resolution" => ResolutionInv)'
    BY ResolutionPart DEF IInv
<1>7. (part = "totals" => TotalsInv)'
    BY TotalsPart DEF IInv
<1> QED
    BY <1>1, <1>2, <1>3, <1>4, <1>5, <1>6, <1>7 DEF IInv

(* The invariants of the parts hold side by side.                           *)
THEOREM Invariant == Spec => []IInv
<1>1. Init => IInv
    BY Initially
<1>2. IInv /\ [Next]_vars => IInv'
    BY NextKeeps
<1> QED
    BY <1>1, <1>2, PTL DEF Spec

----------------------------------------------------------------------------
(* What follows from it                                                     *)

(* Every part that runs keeps its types, however many requests of however   *)
(* many sessions arrive.                                                    *)
THEOREM TypesKept == Spec => []TypeOK
<1>1. IInv => TypeOK
    BY DEF IInv, TypeOK, ReviewInv, ImportInv, BoundaryInv, LedgerInv, SetupInv, ResolutionInv
<1> QED
    BY <1>1, Invariant, PTL

(* However many requests start, decide and convert reviews at once, an      *)
(* emission, and an activity and period that two emissions report, is       *)
(* counted once (data_review.py:397).                                       *)
THEOREM CountedOnce == Spec => []OneConversion
<1>1. IInv => OneConversion
    BY DEF IInv, OneConversion, ReviewInv
<1> QED
    BY <1>1, Invariant, PTL

(* A converted review keeps the references of its conversion, whatever      *)
(* request that loaded it earlier commits after it (data_review.py:342).    *)
THEOREM ReferencesStay == Spec => []ReferencesKept
<1>1. IInv => ReferencesKept
    BY DEF IInv, ReferencesKept, ReviewInv
<1> QED
    BY <1>1, Invariant, PTL

(* For any number of retries side by side, an idempotency key applies one   *)
(* payload once, and an accounting window is queued once                    *)
(* (data_integration.py:156, accounting_connections.py:193).                *)
THEOREM KeysAppliedOnce == Spec => []AppliedOnce
<1>1. IInv => AppliedOnce
    BY DEF IInv, AppliedOnce, ImportInv
<1> QED
    BY <1>1, Invariant, PTL

(* For batches of any length, each record of one that is there has a row or *)
(* an error (data_integration.py:185-231).                                  *)
THEOREM BatchesWhole == Spec => []BatchWhole
<1>1. IInv => BatchWhole
    BY DEF IInv, BatchWhole, ImportInv
<1> QED
    BY <1>1, Invariant, PTL

(* For batches of any length, a row is the record that its hash names,      *)
(* unless two batches wrote it at once (data_integration.py:272).           *)
THEOREM HashesTell == Spec => []HashNamesRow
<1>1. IInv => HashNamesRow
    BY DEF IInv, HashNamesRow, ImportInv
<1> QED
    BY <1>1, Invariant, PTL

(* For any number of entities, shares follow from the boundary's approach   *)
(* and the entity's facts, unless a request was overtaken                   *)
(* (boundaries.py:200, :343, :397).                                         *)
THEOREM SharesFollow == Spec => []AllocationCurrent
<1>1. IInv => AllocationCurrent
    BY DEF IInv, AllocationCurrent, BoundaryInv
<1> QED
    BY <1>1, Invariant, PTL

(* However many versions of a source record arrive, the latest is the one   *)
(* current activity of it (activities.py:123-166).                          *)
THEOREM LatestCounts == Spec => []OneCurrent
<1>1. IInv => OneCurrent
    BY LedgerOneCurrent DEF IInv, OneCurrent
<1> QED
    BY <1>1, Invariant, PTL

(* The normalised value is that of the value and unit beside it, unless two *)
(* requests changed the activity at once (activities.py:270-286).           *)
THEOREM NormalsMatch == Spec => []NormalMatches
<1>1. IInv => NormalMatches
    BY DEF IInv, NormalMatches, LedgerInv
<1> QED
    BY <1>1, Invariant, PTL

(* What counts as calculated is calculated with the value it has now, unless*)
(* an edit and a run crossed (activities.py:287, calculations.py:113-125).  *)
THEOREM ResultsFresh == Spec => []FreshResults
<1>1. IInv => FreshResults
    BY DEF IInv, FreshResults, LedgerInv
<1> QED
    BY <1>1, Invariant, PTL

(* However many periods and inventories are created and restated at once,   *)
(* an organisation has one base year, and the inventories of a period have  *)
(* the versions 1, 2, ..., one each unless the later one is a replacement,  *)
(* one version after its original, or its request overlapped                *)
(* (workflows.py:47-63, :128-139, inventory_governance.py:786-795).         *)
THEOREM SetupStaysConsistent == Spec => []SetupConsistent
<1>1. IInv => SetupConsistent
    BY SetupKeepsConsistent DEF IInv, SetupConsistent
<1> QED
    BY <1>1, Invariant, PTL

(* For any finite set of factors, the one that is selected fits best on     *)
(* every criterion that was asked for (resolution.py:125-215).              *)
THEOREM BestFits == Spec => []BestSelected
<1>1. IInv => BestSelected
    BY DEF IInv, BestSelected, ResolutionInv
<1> QED
    BY <1>1, Invariant, PTL

(* However many results a run has, and in whatever order they are added up, *)
(* the dashboard, the summary and the report show one total                 *)
(* (workflows.py:485, calculations.py:470, inventory_governance.py:1264).   *)
THEOREM TotalsOne == Spec => []OneTotal
<1>1. IInv => OneTotal
    BY TotalsAgree DEF IInv, OneTotal
<1> QED
    BY <1>1, Invariant, PTL
=============================================================================
