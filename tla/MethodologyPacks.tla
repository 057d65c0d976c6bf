-------------------------- MODULE MethodologyPacks --------------------------
(* Methodology packs: draft, review, approval and selection                 *)
(* (services/methodology_packs.py) and the trigger that guards their table  *)
(* (alembic revision 0020).  The packs of one key, jurisdiction and         *)
(* framework; others do not meet.  Definitions are valid, and what nothing  *)
(* changes, a pack's content and its hash, is left out.                     *)
EXTENDS Requests

CONSTANTS
    Packs,
    Owner(_),        \* selection_owner: "platform", or a tenant
    From(_), To(_),  \* the effective period in days, both included
    Principals

VARIABLES
    pack,            \* pack -> its row
    collisions       \* history: approvals committed while an overlapping one was flushed

rows == <<pack, collisions>>
vars == <<rows, requests>>

Init == pack = [k \in Packs |-> None] /\ collisions = 0 /\ InitRequests

Overlap(j, k) == Owner(j) = Owner(k) /\ From(j) <= To(k) /\ To(j) >= From(k)
ApprovedPacks == {k \in Packs : pack[k] # None /\ pack[k].status = "approved"}

(* create_pack_draft                                                        *)
Draft(k, p) ==
    /\ pack[k] = None
    /\ pack' = [pack EXCEPT ![k] = [status |-> "draft", creator |-> p,
                                    reviewer |-> None, approver |-> None]]
    /\ ServeAtOnce
    /\ UNCHANGED collisions

Load(s, k, changed) ==
    /\ Receive(s, [op |-> "transition", pack |-> k, loaded |-> pack[k],
                   changed |-> changed, flushed |-> FALSE])
    /\ UNCHANGED rows

(* mark_pack_reviewed                                                       *)
Review(s, k, p) ==
    /\ pack[k] # None /\ pack[k].status = "draft" /\ pack[k].creator # p
    /\ Load(s, k, [status |-> "reviewed", reviewer |-> p])

(* approve_pack: an independent approver, and no overlap that is committed  *)
Approve(s, k, p) ==
    /\ pack[k] # None /\ pack[k].status = "reviewed"
    /\ p \notin {pack[k].creator, pack[k].reviewer}
    /\ \A j \in ApprovedPacks \ {k} : ~Overlap(j, k)
    /\ Load(s, k, [status |-> "approved", approver |-> p])

(* Mutant: periods that share only their last day do not overlap.           *)
GuardLetsTouch(k) == \A j \in ApprovedPacks \ {k} : ~(Overlap(j, k) /\ From(k) < To(j))

(* dcarbn_guard_methodology_pack, when the UPDATE is flushed and the row not*)
(* locked by another                                                        *)
Guard(k) == \A j \in ApprovedPacks \ {k} : ~Overlap(j, k)

RowLocked(s, k) ==
    \E r \in Sessions \ {s} :
       Serving(r, "transition") /\ request[r].flushed /\ request[r].pack = k

Flush(s) ==
    LET q == request[s] IN
    /\ Serving(s, "transition") /\ ~q.flushed /\ ~RowLocked(s, q.pack)
    /\ q.changed.status = "approved" => Guard(q.pack)
    /\ Continue(s, [q EXCEPT !.flushed = TRUE])
    /\ UNCHANGED rows

(* Another approval of an overlapping pack is flushed and not yet committed.*)
Colliding(s, k) ==
    \E r \in Sessions \ {s} : /\ Serving(r, "transition") /\ request[r].flushed
                              /\ request[r].changed.status = "approved"
                              /\ request[r].pack # k /\ Overlap(request[r].pack, k)

Commit(s) ==
    LET q == request[s] IN
    /\ Serving(s, "transition") /\ q.flushed
    /\ pack' = [pack EXCEPT ![q.pack] = Update(@, q.loaded, q.changed)]
    /\ collisions' = IF q.changed.status = "approved" /\ Colliding(s, q.pack)
                     THEN collisions + 1 ELSE collisions
    /\ Done(s)

Abandon(s) == Fail(s) /\ UNCHANGED rows

Next ==
    \/ \E k \in Packs, p \in Principals : Draft(k, p)
    \/ \E s \in Sessions :
          \/ \E k \in Packs, p \in Principals : Review(s, k, p) \/ Approve(s, k, p)
          \/ Flush(s) \/ Commit(s) \/ Abandon(s)

Spec == Init /\ [][Next]_vars

----------------------------------------------------------------------------
(* select_approved_pack: the packs it chooses from                          *)
Covering(owner, day) == {k \in ApprovedPacks : Owner(k) = owner /\ From(k) <= day /\ day <= To(k)}

PackRows == [status : {"draft", "reviewed", "approved"}, creator : Principals,
             reviewer : Principals \union {None}, approver : Principals \union {None}]

TypeOK == \A k \in Packs : pack[k] # None => pack[k] \in PackRows

(* On every day of every owner one approved pack at most, so that the same  *)
(* pack is selected each time, unless two approvals were flushed before     *)
(* either was committed; an approval that was checked before another one    *)
(* was committed is stopped by the trigger (methodology_packs.py:166-184,   *)
(* alembic 0020).                                                           *)
PeriodsDisjoint ==
    collisions = 0 =>
      \A k \in ApprovedPacks : \A day \in From(k) .. To(k) : Covering(Owner(k), day) = {k}
=============================================================================
