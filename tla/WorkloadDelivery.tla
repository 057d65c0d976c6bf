-------------------------- MODULE WorkloadDelivery --------------------------
(* What the durable queue promises of each job, without workers, leases or  *)
(* clocks: a submitted job is tried at most MaxAttempts times and settles   *)
(* in one outcome; once settled it stays settled, and only a cancel request *)
(* accepted while the job was still pending may replace its outcome.        *)
EXTENDS Naturals

CONSTANTS Jobs, Cancellers, MaxAttempts, None

VARIABLES
    outcome,   \* "unknown", "pending" or the terminal status
    tries,     \* attempts begun
    accepted   \* canceller -> the pending job it has accepted to cancel

vars == <<outcome, tries, accepted>>

Outcomes == {"succeeded", "failed", "cancelled", "dead_lettered"}

Init ==
    /\ outcome  = [j \in Jobs |-> "unknown"]
    /\ tries    = [j \in Jobs |-> 0]
    /\ accepted = [c \in Cancellers |-> None]

Submit(j) ==
    /\ outcome[j] = "unknown"
    /\ outcome' = [outcome EXCEPT ![j] = "pending"]
    /\ UNCHANGED <<tries, accepted>>

Try(j) ==
    /\ outcome[j] = "pending"
    /\ tries[j] < MaxAttempts
    /\ tries' = [tries EXCEPT ![j] = @ + 1]
    /\ UNCHANGED <<outcome, accepted>>

Report(j) ==
    /\ outcome[j] = "pending"
    /\ tries[j] > 0
    /\ \E o \in {"succeeded", "failed"} : outcome' = [outcome EXCEPT ![j] = o]
    /\ UNCHANGED <<tries, accepted>>

(* jobs whose attempts are spent are given up, several at a time            *)
GiveUp ==
    /\ \E spent \in SUBSET {j \in Jobs : outcome[j] = "pending" /\ tries[j] = MaxAttempts} :
         outcome' = [j \in Jobs |-> IF j \in spent THEN "dead_lettered" ELSE outcome[j]]
    /\ UNCHANGED <<tries, accepted>>

AcceptCancel(c, j) ==
    /\ accepted[c] = None
    /\ outcome[j] = "pending"
    /\ accepted' = [accepted EXCEPT ![c] = j]
    /\ UNCHANGED <<outcome, tries>>

Cancel(c) ==
    /\ accepted[c] # None
    /\ outcome'  = [outcome EXCEPT ![accepted[c]] = "cancelled"]
    /\ accepted' = [accepted EXCEPT ![c] = None]
    /\ UNCHANGED tries

Next ==
    \/ \E j \in Jobs : Submit(j) \/ Try(j) \/ Report(j)
    \/ GiveUp
    \/ \E c \in Cancellers : Cancel(c) \/ \E j \in Jobs : AcceptCancel(c, j)

Spec == Init /\ [][Next]_vars
=============================================================================
