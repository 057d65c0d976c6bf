------------------------------ MODULE Requests ------------------------------
(* Requests in flight, for the components whose handlers load rows, decide, *)
(* and commit later.  A handler runs in one READ COMMITTED transaction of   *)
(* its own database session (db/session.py) and takes no row locks, so what *)
(* it loaded may be stale when it commits.  The session's identity map      *)
(* keeps a loaded row as it was first read.                                 *)
EXTENDS Naturals

CONSTANTS
    Sessions,        \* requests served at the same time
    MaxRequests,     \* bound: requests received
    None             \* SQL NULL, and "no row"

VARIABLES
    request,         \* session -> the request it serves, with what it has loaded
    received         \* requests received so far

requests == <<request, received>>

InitRequests == request = [s \in Sessions |-> None] /\ received = 0

Receive(s, r) ==
    /\ request[s] = None /\ received < MaxRequests
    /\ request' = [request EXCEPT ![s] = r]
    /\ received' = received + 1

(* A request whose commit depends on nothing another one could change       *)
(* meanwhile is served in one step.                                         *)
ServeAtOnce ==
    /\ received < MaxRequests
    /\ received' = received + 1
    /\ UNCHANGED request

Serving(s, op) == request[s] # None /\ request[s].op = op

(* The handler goes on, with what it has read since.                        *)
Continue(s, r) == request' = [request EXCEPT ![s] = r] /\ UNCHANGED received

Done(s) == request' = [request EXCEPT ![s] = None] /\ UNCHANGED received

(* The session rolls back: an error, a timeout, a violated constraint.      *)
Fail(s) == request[s] # None /\ Done(s)

(* Mutant: the UPDATE writes the whole row as it was loaded and changed.    *)
WholeRow(current, loaded, changed) ==
    [a \in DOMAIN current |-> IF a \in DOMAIN changed THEN changed[a] ELSE loaded[a]]

(* An UPDATE carries only the attributes that differ from the loaded row;   *)
(* the others keep what has been committed since.                           *)
Update(current, loaded, changed) ==
    [a \in DOMAIN current |->
        IF a \in DOMAIN changed /\ changed[a] # loaded[a] THEN changed[a] ELSE current[a]]
=============================================================================
