---------------------------- MODULE ReportingSetup ----------------------------
(* Reporting periods and the inventories opened in them                     *)
(* (services/workflows.py), of organisations that exist, the replacements   *)
(* that approved restatements open (services/inventory_governance.py)       *)
(* included.  Nothing changes or deletes a period.  Names, reasons and      *)
(* thresholds are left out, and so is what leads to the approval of a       *)
(* restatement (InventoryGovernance): any inventory may be restated.        *)
EXTENDS Requests, FiniteSetsExt

CONSTANTS
    Organisations,
    Days,            \* dates
    MaxPeriods,      \* bound: reporting periods created
    MaxInventories   \* bound: inventories created

VARIABLES
    period,          \* reporting periods: [id, organisation, start, end, base_year, comparative]
    inventory,       \* inventories: [id, period, version, original], original the
                     \* inventory it replaces, None of one that create_inventory opened
    overlapped       \* history: inventories whose version was read before another was committed

rows == <<period, inventory, overlapped>>
vars == <<rows, requests>>

Init == period = {} /\ inventory = {} /\ overlapped = {} /\ InitRequests

BaseYears(o) == {p \in period : p.organisation = o /\ p.base_year}

(* ReportingPeriodCreate, the payload                                       *)
Payload ==
    {p \in [organisation : Organisations, start : Days, end : Days, base_year : BOOLEAN,
            comparative : {None} \union {q.id : q \in period}] :
       /\ p.end >= p.start
       /\ p.base_year => p.comparative = None}

(* create_reporting_period                                                  *)
LoadPeriod(s, p) ==
    /\ p.base_year => BaseYears(p.organisation) = {}
    /\ p.comparative # None =>
         \E q \in period : /\ q.id = p.comparative /\ q.organisation = p.organisation
                           /\ q.end < p.start
    /\ Receive(s, [op |-> "period", payload |-> p])
    /\ UNCHANGED rows

(* uq_reporting_periods_organisation_base_year                              *)
BaseYearFree(o) == BaseYears(o) = {}

CommitPeriod(s) ==
    LET p == request[s].payload IN
    /\ Serving(s, "period")
    /\ Cardinality(period) < MaxPeriods
    /\ p.base_year => BaseYearFree(p.organisation)
    /\ period' = period \union
         {[id |-> Cardinality(period) + 1, organisation |-> p.organisation, start |-> p.start,
           end |-> p.end, base_year |-> p.base_year, comparative |-> p.comparative]}
    /\ Done(s)
    /\ UNCHANGED <<inventory, overlapped>>

InventoriesOf(p) == {i \in inventory : i.period = p}

(* Mutant: the versions of all periods are counted.                         *)
NextOfAll(p) == 1 + Max({0} \union {i.version : i \in inventory})

NextVersion(p) == 1 + Max({0} \union {i.version : i \in InventoriesOf(p)})

(* create_inventory: a version that no constraint keeps apart               *)
LoadInventory(s, p) ==
    /\ Receive(s, [op |-> "inventory", period |-> p, version |-> NextVersion(p),
                   others |-> InventoriesOf(p)])
    /\ UNCHANGED rows

CommitInventory(s) ==
    LET q == request[s]  id == Cardinality(inventory) + 1 IN
    /\ Serving(s, "inventory")
    /\ id <= MaxInventories
    /\ inventory' = inventory \union {[id |-> id, period |-> q.period, version |-> q.version,
                                       original |-> None]}
    /\ overlapped' = IF InventoriesOf(q.period) = q.others THEN overlapped
                     ELSE overlapped \union {id}
    /\ Done(s)
    /\ UNCHANGED period

(* decide_restatement, approved: the version after the original's, whatever *)
(* versions the period has by then                                          *)
Restate(i) ==
    LET id == Cardinality(inventory) + 1 IN
    /\ id <= MaxInventories
    /\ inventory' = inventory \union {[id |-> id, period |-> i.period, version |-> i.version + 1,
                                       original |-> i.id]}
    /\ ServeAtOnce
    /\ UNCHANGED <<period, overlapped>>

Abandon(s) == Fail(s) /\ UNCHANGED rows

Next ==
    \/ \E s \in Sessions :
         \/ \E p \in Payload : LoadPeriod(s, p)
         \/ \E p \in period : LoadInventory(s, p.id)
         \/ CommitPeriod(s) \/ CommitInventory(s) \/ Abandon(s)
    \/ \E i \in inventory : Restate(i)

Spec == Init /\ [][Next]_vars

----------------------------------------------------------------------------
TypeOK ==
    /\ period \subseteq [id : 1 .. MaxPeriods, organisation : Organisations, start : Days,
                         end : Days, base_year : BOOLEAN,
                         comparative : {None} \union (1 .. MaxPeriods)]
    /\ inventory \subseteq [id : 1 .. MaxInventories, period : 1 .. MaxPeriods,
                            version : 1 .. MaxInventories,
                            original : {None} \union (1 .. MaxInventories)]

(* An organisation has one base year, also when two requests find that it   *)
(* has none; the inventories of a period are numbered without gaps from 1;  *)
(* a replacement stays in its original's period, one version on; and two    *)
(* inventories of a period have one version only if the later one replaces  *)
(* another or its request overlapped (workflows.py:47-63, :128-139,         *)
(* inventory_governance.py:786-795).                                        *)
SetupConsistent ==
    /\ \A o \in Organisations : Cardinality(BaseYears(o)) <= 1
    /\ \A p \in period :
         LET versions == {i.version : i \in InventoriesOf(p.id)} IN
         versions = 1 .. Cardinality(versions)
    /\ \A j \in inventory : j.original # None =>
         \E i \in InventoriesOf(j.period) : i.id = j.original /\ j.version = i.version + 1
    /\ \A i, j \in inventory :
         i.period = j.period /\ i.version = j.version /\ i.id < j.id =>
           j.original # None \/ j.id \in overlapped
=============================================================================
