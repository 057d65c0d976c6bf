--------------------------- MODULE MCDataPlatform ---------------------------
(* Values for TLC: a small instance of each part of DataPlatform.           *)
EXTENDS DataPlatform, FiniteSets, TLC

(* Sessions and entities are alike.                                         *)
DataSymmetry == Permutations(Sessions) \union Permutations(Entities)

MCArrivals(p) == [review |-> 6, import |-> 4, boundary |-> 4, activities |-> 3, setup |-> 4][p]

(* Two emissions that report one activity, one of them in two versions      *)
MCSource(e) == IF e = "e1" THEN {1, 2} ELSE {1}
MCFirst(e) == IF e = "e1" THEN 2 ELSE 1
MCGroup(c, i) == c
MCInPeriod(c, i) == TRUE
MCComparable(c) == c = 1
MCClassifications == {[confirmed |-> "transport", class |-> "confirmed"],
                      [confirmed |-> "other", class |-> "rejected"]}

(* One vehicle in several versions, and a journey that is linked to it      *)
Rec(x, links, a, b) == [item |-> x, customer |-> "c1", links |-> links, a |-> a, b |-> b]
MCPayloads == {<<Rec("v1", {}, 1, 1)>>, <<Rec("v1", {}, 2, 1), Rec("v1", {}, 1, 2)>>,
               <<Rec("j1", {"v1"}, 1, 1)>>}

Fact(d, o, op, fi) == [decision |-> d, ownership |-> o, operational |-> op, financial |-> fi]
MCFacts == {Fact("auto", 40, TRUE, FALSE), Fact("auto", 0, FALSE, TRUE),
            Fact("included", 40, FALSE, FALSE), Fact("excluded", 40, TRUE, TRUE)}

Kilograms(v, u) == IF u = "t" THEN 1000 * v ELSE v

----------------------------------------------------------------------------
(* Factors that differ in year, place, unit, a level or the lifecycle       *)
Text(c, d) == [level_1 |-> "fuels", level_2 |-> "liquid", level_3 |-> c, level_4 |-> d,
               column_text |-> None]
Factor(y, g, u, c, d, lifecycle) ==
    [scope |-> 1, set |-> y, year |-> y, geography |-> g, unit |-> u, lifecycle |-> lifecycle,
     approved |-> TRUE, text |-> Text(c, d)]
Fuels == {"diesel", "diesel average", "petrol"}
Spread == {Factor(y, g, u, c, "diesel", "direct") :
             y \in {2026, 2025, 2019, 2018}, g \in {"GB", "FR"}, u \in {"litre", "gallon"},
             c \in Fuels}
Close == {Factor(2026, "GB", u, c, d, li) :
            u \in {"gallon", "kg"}, c \in Fuels, d \in Fuels, li \in {"direct", "upstream"}}
Near == {Factor(2026, "GB", "litre", c, "petrol", li) :
           c \in {"diesel", "diesel average"}, li \in {"direct", "upstream"}}
Query(previous, anywhere, c, d, lifecycle) ==
    [scope |-> 1, set |-> None, year |-> 2026, geography |-> "GB", unit |-> "litre",
     lifecycle |-> lifecycle, previousYear |-> previous, anyGeography |-> anywhere,
     text |-> [level_1 |-> "fuels", level_2 |-> None, level_3 |-> c, level_4 |-> d,
               column_text |-> None]]

MCContains(a, b) == a = "diesel average" /\ b = "diesel"
MCDimension(u) == IF u = "kg" THEN "mass" ELSE "volume"
MCPools == {{f, g} : f, g \in Spread} \union {{f, g} : f, g \in Close}
           \union {Near \ {f} : f \in Near}
MCQueries == {Query(p, g, c, None, None) : p, g \in BOOLEAN, c \in {"diesel", None}}
             \union {Query(FALSE, FALSE, "diesel", d, li) :
                       d \in {"diesel", None}, li \in {"direct", None}}

Kind(scope, category, method) == [scope |-> scope, category |-> category, method |-> method]
MCKinds == {Kind(1, 0, "not_applicable"), Kind(2, 0, "location_based"),
            Kind(2, 0, "market_based"), Kind(3, 4, "not_applicable"),
            Kind(3, 6, "not_applicable")}
=============================================================================
