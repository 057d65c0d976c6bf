---------------------------- MODULE SchemaHistory ----------------------------
(* What controlled migrations promise, without jobs, locks and subprocesses:*)
(* the schema goes up to one reviewed revision after the other; that it was *)
(* brought to a revision is confirmed while it is there, by one job, and of *)
(* higher and higher revisions; and only what was confirmed is claimed,     *)
(* which may be later, in any order, when the schema has gone on, or never. *)
EXTENDS Naturals

CONSTANTS Jobs, Revisions, Targets

VARIABLES
    version,     \* the revision of the schema
    confirmed,   \* <<job, revision>>: the job has seen that it brought it there
    claims       \* <<job, revision>>: it has reported so

history == <<version, confirmed, claims>>

Init == version \in Revisions /\ confirmed = {} /\ claims = {}

Upgrade(v) ==
    /\ version < v
    /\ version' = v
    /\ UNCHANGED <<confirmed, claims>>

Confirm(j, v) ==
    /\ version = v
    /\ \A c \in confirmed : c[1] # j /\ c[2] < v
    /\ confirmed' = confirmed \union {<<j, v>>}
    /\ UNCHANGED <<version, claims>>

Claim(c) ==
    /\ c \in confirmed \ claims
    /\ claims' = claims \union {c}
    /\ UNCHANGED <<version, confirmed>>

Next ==
    \/ \E v \in Targets : Upgrade(v) \/ \E j \in Jobs : Confirm(j, v)
    \/ \E c \in confirmed : Claim(c)

Spec == Init /\ [][Next]_history
=============================================================================
