-------------------------- MODULE GovernanceLedger --------------------------
(* What the governance of inventories promises, without the requests that   *)
(* load rows, decide on them and commit later: a book to which approvals,   *)
(* locks, replacements, completions and reports are added one at a time,    *)
(* each on the strength of what is in it, and in which the one thing ever   *)
(* changed is that a newer final report supersedes the last one.            *)
EXTENDS Integers

CONSTANTS Inventories, Approvals, Restatements, None

VARIABLES
    approved,    \* <<approval, inventory>>: decided with its controls passed
    locked,      \* inventory -> the approval it was locked on, or None
    replaced,    \* <<restatement, original, replacement>>
    completed,   \* <<restatement, replacement>>
    editions     \* reports: [inventory, version, approval, status]

book == <<approved, locked, replaced, completed, editions>>

Init ==
    /\ approved = {} /\ replaced = {} /\ completed = {} /\ editions = {}
    /\ locked = [i \in Inventories |-> None]

Released(i) == \E a \in Approvals : <<a, i>> \in approved

(* An approval is decided for one inventory.                                *)
Approve(a, i) ==
    /\ \A p \in approved : p[1] # a
    /\ approved' = approved \union {<<a, i>>}
    /\ UNCHANGED <<locked, replaced, completed, editions>>

(* An inventory is locked once, on an approval of its own.                  *)
Lock(i, a) ==
    /\ locked[i] = None
    /\ locked' = [locked EXCEPT ![i] = a]
    /\ UNCHANGED <<approved, replaced, completed, editions>>

(* A restatement is of one inventory, o; each approval of it creates        *)
(* an inventory that nothing has named yet.                                 *)
Replace(r, o, i) ==
    /\ ~Released(i) /\ i # o
    /\ \A t \in replaced : t[3] # i /\ (t[1] = r => t[2] = o)
    /\ replaced' = replaced \union {<<r, o, i>>}
    /\ UNCHANGED <<approved, locked, completed, editions>>

(* A restatement is completed on a replacement that has been released.      *)
Complete(r, i) ==
    /\ Released(i)
    /\ completed' = completed \union {<<r, i>>}
    /\ UNCHANGED <<approved, locked, replaced, editions>>

EditionsOf(i) == {e \in editions : e.inventory = i}

Superseded(e) == IF e.status = "final" THEN [e EXCEPT !.status = "superseded"] ELSE e

(* The reports of an inventory are numbered 1, 2, ..., and a final one      *)
(* supersedes the final one before it.                                      *)
Publish(i, a, final) ==
    /\ \E v \in {1} \union {e.version + 1 : e \in EditionsOf(i)} :
         /\ \A e \in EditionsOf(i) : e.version < v
         /\ editions' =
              (editions \ EditionsOf(i))
              \union (IF final THEN {Superseded(e) : e \in EditionsOf(i)} ELSE EditionsOf(i))
              \union {[inventory |-> i, version |-> v, approval |-> a,
                       status |-> IF final THEN "final" ELSE "draft"]}
    /\ UNCHANGED <<approved, locked, replaced, completed>>

(* Locks, reports and restatements are of inventories that were released,   *)
(* completions of a replacement that was made for the restatement.          *)
Next ==
    \/ \E a \in Approvals, i \in Inventories : Approve(a, i)
    \/ \E p \in approved : Lock(p[2], p[1]) \/ \E f \in BOOLEAN : Publish(p[2], p[1], f)
    \/ \E p \in approved, r \in Restatements, i \in Inventories : Replace(r, p[2], i)
    \/ \E t \in replaced : Complete(t[1], t[3])

Spec == Init /\ [][Next]_book

----------------------------------------------------------------------------
(* A replacement comes of one restatement of one inventory.                 *)
OneOrigin == \A t, u \in replaced : t[3] = u[3] => t = u

(* No inventory replaces itself, however long the way round: among any      *)
(* inventories there is one that replaces none of them.                     *)
LineageEnds ==
    \A S \in (SUBSET Inventories) \ {{}} :
      \E i \in S : \A t \in replaced : t[3] = i => t[2] \notin S
=============================================================================
