---------------------------- MODULE MCWorkloads ----------------------------
(* Small instances of Workloads for TLC.                                    *)
EXTENDS Workloads, TLC

CONSTANTS w1, w2, p1, p2, c1, tA, tB

MCTenantOf == (1 :> tA) @@ (2 :> tA) @@ (3 :> tB) @@ (4 :> tA)

ProcessSymmetry == Permutations(Workers) \union Permutations(Producers)

(* A start for the liveness run, a state Spec reaches: w2 has crashed while *)
(* it ran job 2, whose lease fills tenant tA for up to a second more; jobs  *)
(* 1 (tA) and 3 (tB) are back in the queue after a failed attempt.          *)
WorkerDied ==
    /\ status     = [j \in Jobs |-> IF j = 2 THEN "running" ELSE "queued"]
    /\ attempts   = [j \in Jobs |-> 1]
    /\ owner      = [j \in Jobs |-> IF j = 2 THEN w2 ELSE None]
    /\ expires    = [j \in Jobs |-> IF j = 2 THEN LeaseSeconds - 1 ELSE 0]
    /\ scheduled  = [j \in Jobs |-> 0]
    /\ pc         = [w \in Workers |-> "idle"]
    /\ age        = [w \in Workers |-> 0]
    /\ held       = [w \in Workers |-> {}]
    /\ todo       = [w \in Workers |-> {}]
    /\ job        = [w \in Workers |-> None]
    /\ lease      = [w \in Workers |-> 0]
    /\ inserting  = [p \in Producers |-> None]
    /\ cancelling = [c \in Cancellers |-> None]
    /\ executions = [j \in Jobs |-> 1]
    /\ crashes    = 1

RestartSpec == WorkerDied /\ [][Next]_vars /\ Fairness
=============================================================================
