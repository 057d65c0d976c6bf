------------------------------- MODULE Totals -------------------------------
(* The total of a calculation run as three parts of the platform work it    *)
(* out: the inventory list and the dashboard (services/workflows.py), the   *)
(* run summary (calculations.py) and the audit report                       *)
(* (inventory_governance.py).  Amounts are whole kilograms.                 *)
EXTENDS Naturals, FiniteSetsExt

CONSTANTS
    Slots,           \* the calculation results of a run
    Kinds,           \* [scope, category, method] that a validated activity may have
    Amounts,         \* allocated_kg_co2e
    None

VARIABLES
    results,         \* the results of the run
    shown            \* the totals last asked for, with the basis they are on

vars == <<results, shown>>

Bases == {"location_based", "market_based"}

Init == results \in [Slots -> [kind : Kinds, kg : Amounts]] /\ shown = None

Kg(rows) == MapThenSumSet(LAMBDA r : r.kg, rows)

(* The rows of a SUM over the results, by the key of each.                  *)
GroupedBy(key) ==
    {[kind |-> k, kg |-> MapThenSumSet(LAMBDA i : results[i].kg, {i \in Slots : key[i] = k})] :
       k \in {key[i] : i \in Slots}}

(* aggregate_inventory_totals, of (scope, method, sum) rows                 *)
AggregateInventoryTotals(rows, basis) ==
    LET scope_1 == Kg({r \in rows : r.kind.scope = 1})
        location == Kg({r \in rows : r.kind.scope = 2 /\ r.kind.method = "location_based"})
        market == Kg({r \in rows : r.kind.scope = 2 /\ r.kind.method = "market_based"})
        scope_3 == Kg({r \in rows : r.kind.scope = 3})
    IN  scope_1 + (IF basis = "location_based" THEN location ELSE market) + scope_3

(* _calculation_totals                                                      *)
ByScopeAndMethod ==
    [i \in Slots |-> [scope |-> results[i].kind.scope, method |-> results[i].kind.method]]

DashboardTotal(basis) == AggregateInventoryTotals(GroupedBy(ByScopeAndMethod), basis)

(* Mutant: market-based items count with either headline basis.             *)
TotalOfBoth(items, basis) ==
    Kg({r \in items : r.kind.scope # 2 \/ r.kind.method \in {basis, "market_based"}})

(* calculate_inventory_totals, of items by scope, category and method       *)
CalculateInventoryTotals(items, basis) ==
    LET kg(scope) == Kg({r \in items : r.kind.scope = scope})
        kgOf(method) == Kg({r \in items : r.kind.scope = 2 /\ r.kind.method = method})
        selected == kgOf(IF basis = "location_based" THEN "location_based" ELSE "market_based")
    IN  kg(1) + selected + kg(3)

(* summarize_calculation_run                                                *)
WholeKey == [i \in Slots |-> results[i].kind]
SummaryTotal(basis) == CalculateInventoryTotals(GroupedBy(WholeKey), basis)

(* _build_audit_report_payload adds up the results themselves; without a    *)
(* market-based one there is no report on that basis.                       *)
ReportTotal(basis) ==
    LET kg(S) == MapThenSumSet(LAMBDA i : results[i].kg, S)
        scope(n) == {i \in Slots : results[i].kind.scope = n}
        location == {i \in scope(2) : results[i].kind.method = "location_based"}
        market == {i \in scope(2) : results[i].kind.method = "market_based"}
    IN  IF basis = "market_based" /\ market = {} THEN None
        ELSE kg(scope(1)) + (IF basis = "location_based" THEN kg(location) ELSE kg(market))
               + kg(scope(3))

Show(basis) ==
    /\ shown' = [basis |-> basis, dashboard |-> DashboardTotal(basis),
                 summary |-> SummaryTotal(basis), report |-> ReportTotal(basis)]
    /\ UNCHANGED results

Next == \E basis \in Bases : Show(basis)

Spec == Init /\ [][Next]_vars

----------------------------------------------------------------------------
(* The three totals of a run are one number, in which each result counts    *)
(* once and, of Scope 2, the results of the headline's method only          *)
(* (workflows.py:485, calculations.py:470, inventory_governance.py:1264).   *)
OneTotal ==
    shown # None =>
      LET counted == {i \in Slots : results[i].kind.method \in {"not_applicable", shown.basis}}
          total == MapThenSumSet(LAMBDA i : results[i].kg, counted) IN
      /\ shown.dashboard = total /\ shown.summary = total
      /\ shown.report # None => shown.report = total
=============================================================================
