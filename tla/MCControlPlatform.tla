-------------------------- MODULE MCControlPlatform --------------------------
(* Values for TLC: a small instance of each part of ControlPlatform.        *)
EXTENDS ControlPlatform, TLC

(* Sessions and principals are alike.                                       *)
ControlSymmetry == Permutations(Sessions) \union Permutations(Principals)

MCArrivals(p) == [identity |-> 4, methods |-> 5, factors |-> 6, packs |-> 7][p]

MCMembers == {<<"t1", "u1">>}

(* Two packs of one owner that overlap, and one of another owner            *)
MCOwner(k) == IF k = "k3" THEN "tenant" ELSE "platform"
MCFrom(k) == IF k = "k2" THEN 2 ELSE 1
MCTo(k) == IF k = "k1" THEN 2 ELSE 3

(* Two reviewed contract migrations, one of them asked for in every way     *)
(* there is to be refused, and one that nobody has reviewed                 *)
MCRevisions == 21 .. 24
MCManifest == [t \in {22, 23} |-> [phase |-> "contract", retire |-> TRUE, recover |-> TRUE]]
Ask(target, phase, retired, recovered) ==
    [target |-> target, phase |-> phase, retired |-> retired, recovered |-> recovered]
MCRequested == {Ask(22, "contract", TRUE, TRUE), Ask(22, "contract", FALSE, TRUE),
                Ask(22, "contract", TRUE, FALSE), Ask(22, "expand", TRUE, TRUE),
                Ask(23, "contract", TRUE, TRUE), Ask(24, "contract", TRUE, TRUE)}
=============================================================================
