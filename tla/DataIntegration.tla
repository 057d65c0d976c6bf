--------------------------- MODULE DataIntegration ---------------------------
(* Batches of DATa records (services/data_integration.py) and connections   *)
(* to accounting systems (accounting_connections.py).                       *)
(*                                                                          *)
(* Vehicles, shipments, journeys, fuel, payload and emission records are    *)
(* upserted the same way; they are the items of one table here, each with   *)
(* two attributes and the hash of the source record.  A row is never        *)
(* deleted.                                                                 *)
EXTENDS Requests, Sequences, FiniteSets

CONSTANTS
    Customers,       \* external_customer_id
    Organisations,
    Items,           \* external ids of the records
    Keys,            \* idempotency keys
    Payloads,        \* the batches that are sent: sequences of records
                     \* [item, customer, links, a, b]
    Connections,     \* accounting companies
    Profiles         \* mapping profile versions

VARIABLES
    mapping,         \* customer -> its organisation
    row,             \* item -> its row
    batch,           \* key -> its DataImportBatch, with the indices of its errors
    connection,      \* accounting connection -> status and profile
    jobs,            \* sync identity -> how many jobs it has
    applied,         \* history: key -> how many commits applied its records
    torn             \* history: items committed over a row changed since it was loaded

rows == <<mapping, row, batch, connection, jobs, applied, torn>>
vars == <<rows, requests>>

Identities == Connections \X Profiles

Init ==
    /\ mapping    = [c \in Customers |-> None]
    /\ row        = [x \in Items |-> None]
    /\ batch      = [k \in Keys |-> None]
    /\ connection = [c \in Connections |-> None]
    /\ jobs       = [i \in Identities |-> 0]
    /\ applied    = [k \in Keys |-> 0]
    /\ torn       = {}
    /\ InitRequests

----------------------------------------------------------------------------
(* create_mapping: no request changes what it depends on                    *)
Map(c, o) ==
    /\ mapping[c] # o
    /\ mapping' = [mapping EXCEPT ![c] = o]
    /\ UNCHANGED <<row, batch, connection, jobs, applied, torn, requests>>

----------------------------------------------------------------------------
(* Batches                                                                  *)

(* _organisation_id and _linked_id: a record they raise for is rejected     *)
Accepted(r) == mapping[r.customer] # None /\ \A x \in r.links : row[x] # None

HashOf(r) == <<r.a, r.b>>

(* Mutant: an update leaves one of the attributes out.                      *)
RowWithoutB(old, r, o) ==
    [organisation |-> o, links |-> r.links, a |-> r.a,
     b |-> IF old = None THEN r.b ELSE old.b, hash |-> HashOf(r)]

(* upsert_vehicle and its like: the object that stands for the row          *)
Upserted(old, r, o) ==
    [organisation |-> o, links |-> r.links, a |-> r.a, b |-> r.b, hash |-> HashOf(r)]

(* The object of item x after the records of a batch.  An unchanged source  *)
(* hash leaves it alone, its organisation included.                         *)
ObjectAfter(x, records, organisation, loaded) ==
    LET object[n \in 0 .. Len(records)] ==
          IF n = 0 THEN loaded[x]
          ELSE LET old == object[n - 1]  r == records[n] IN
               IF r.item # x \/ organisation[n] = None THEN old
               ELSE IF old # None /\ old.hash = HashOf(r) THEN old
               ELSE Upserted(old, r, organisation[n])
    IN  object[Len(records)]

(* Mutant: the batch is committed before its records are.                   *)
LoadAndKeep(s, k, p) ==
    /\ batch[k] = None
    /\ Receive(s, [op |-> "batch", key |-> k, records |-> p, loaded |-> row,
                   organisation |-> [n \in DOMAIN p |->
                      IF Accepted(p[n]) THEN mapping[p[n].customer] ELSE None]])
    /\ batch' = [batch EXCEPT ![k] = [records |-> p, errors |-> {}, status |-> "processing"]]
    /\ UNCHANGED <<mapping, row, connection, jobs, applied, torn>>

(* process_batch: the key, and the records one after the other              *)
LoadBatch(s, k, p) ==
    /\ batch[k] = None
    /\ Receive(s, [op |-> "batch", key |-> k, records |-> p, loaded |-> row,
                   organisation |-> [n \in DOMAIN p |->
                      IF Accepted(p[n]) THEN mapping[p[n].customer] ELSE None]])
    /\ UNCHANGED rows

(* An idempotency key that is there with the same payload.                  *)
LoadReplay(s, k, p) ==
    /\ batch[k] # None /\ batch[k].records = p
    /\ Receive(s, [op |-> "replay", key |-> k])
    /\ UNCHANGED rows

Outcome(records, rejected) ==
    IF rejected = {} THEN "completed"
    ELSE IF rejected = DOMAIN records THEN "failed" ELSE "partial"

(* Mutant: no unique constraint on the idempotency key.                     *)
AnyKey(k) == k \in Keys

(* uq_data_import_batch_idempotency                                         *)
KeyFree(k) == batch[k] = None

(* The unique constraints on external ids: a row that was loaded as missing *)
(* is inserted once for each of its records.  autoflush is off, so a batch  *)
(* with two records of a new item violates them by itself.                  *)
InsertsFree(q) ==
    LET inserts == {n \in DOMAIN q.records :
                      q.organisation[n] # None /\ q.loaded[q.records[n].item] = None} IN
    /\ \A n \in inserts : row[q.records[n].item] = None
    /\ \A m, n \in inserts : q.records[m].item = q.records[n].item => m = n

(* Everything is written in one commit, the batch and its errors included.  *)
CommitBatch(s) ==
    LET q == request[s]
        rejected == {n \in DOMAIN q.records : q.organisation[n] = None}
        object == [x \in Items |-> ObjectAfter(x, q.records, q.organisation, q.loaded)]
        written == {x \in Items : object[x] # q.loaded[x]} IN
    /\ Serving(s, "batch")
    /\ KeyFree(q.key) /\ InsertsFree(q)
    /\ batch' = [batch EXCEPT ![q.key] =
                   [records |-> q.records, errors |-> rejected,
                    status |-> Outcome(q.records, rejected)]]
    /\ row' = [x \in Items |->
                 IF x \notin written THEN row[x]
                 ELSE IF q.loaded[x] = None THEN object[x]
                 ELSE Update(row[x], q.loaded[x], object[x])]
    /\ applied' = [applied EXCEPT ![q.key] = @ + 1]
    /\ torn' = torn \union {x \in written : row[x] # q.loaded[x]}
    /\ Done(s)
    /\ UNCHANGED <<mapping, connection, jobs>>

(* The stored outcome gives way to DUPLICATE.                               *)
CommitReplay(s) ==
    /\ Serving(s, "replay")
    /\ batch' = [batch EXCEPT ![request[s].key].status = "duplicate"]
    /\ Done(s)
    /\ UNCHANGED <<mapping, row, connection, jobs, applied, torn>>

----------------------------------------------------------------------------
(* Accounting connections                                                   *)

(* upsert_accounting_connection                                             *)
LoadConnect(s, c, v) ==
    /\ Receive(s, [op |-> "connect", connection |-> c, loaded |-> connection[c], profile |-> v])
    /\ UNCHANGED rows

CommitConnect(s) ==
    LET q == request[s]  c == q.connection  old == q.loaded IN
    /\ Serving(s, "connect")
    /\ old = None => connection[c] = None     \* uq_data_accounting_connection_company
    /\ connection' = [connection EXCEPT ![c] =
         IF old = None THEN [status |-> "draft", profile |-> q.profile]
         ELSE Update(@, old, [profile |-> q.profile,
                              status |-> IF old.status = "revoked" THEN "draft" ELSE old.status])]
    /\ Done(s)
    /\ UNCHANGED <<mapping, row, batch, jobs, applied, torn>>

(* Authorisation with the provider: nothing in the repository sets these.   *)
Authorise(c) ==
    /\ connection[c] # None
    /\ connection' = [connection EXCEPT ![c].status =
                        IF @ = "active" THEN "revoked" ELSE "active"]
    /\ UNCHANGED <<mapping, row, batch, jobs, applied, torn, requests>>

(* create_accounting_sync, for an identity that has no job yet              *)
LoadSync(s, c) ==
    /\ connection[c] # None /\ connection[c].status = "active"
    /\ jobs[<<c, connection[c].profile>>] = 0
    /\ Receive(s, [op |-> "sync", identity |-> <<c, connection[c].profile>>])
    /\ UNCHANGED rows

(* uq_data_accounting_sync_identity                                         *)
IdentityFree(i) == jobs[i] = 0

CommitSync(s) ==
    /\ Serving(s, "sync")
    /\ IdentityFree(request[s].identity)
    /\ jobs' = [jobs EXCEPT ![request[s].identity] = @ + 1]
    /\ Done(s)
    /\ UNCHANGED <<mapping, row, batch, connection, applied, torn>>

Abandon(s) == Fail(s) /\ UNCHANGED rows

Next ==
    \/ \E c \in Customers, o \in Organisations : Map(c, o)
    \/ \E c \in Connections : Authorise(c)
    \/ \E s \in Sessions :
          \/ \E k \in Keys, p \in Payloads : LoadBatch(s, k, p) \/ LoadReplay(s, k, p)
          \/ \E c \in Connections : LoadSync(s, c) \/ \E v \in Profiles : LoadConnect(s, c, v)
          \/ CommitBatch(s) \/ CommitReplay(s) \/ CommitConnect(s) \/ CommitSync(s) \/ Abandon(s)

Spec == Init /\ [][Next]_vars

----------------------------------------------------------------------------
Values == UNION {UNION {{p[n].a, p[n].b} : n \in DOMAIN p} : p \in Payloads}
ItemRows == [organisation : Organisations, links : SUBSET Items, a : Values, b : Values,
             hash : Values \X Values]
BatchRows == [records : Payloads, errors : SUBSET Nat,
              status : {"completed", "partial", "failed", "duplicate"}]
ConnectionRows == [status : {"draft", "active", "revoked"}, profile : Profiles]

TypeOK ==
    /\ mapping \in [Customers -> Organisations \union {None}]
    /\ \A x \in Items : row[x] # None => row[x] \in ItemRows /\ x \notin row[x].links
    /\ \A k \in Keys : batch[k] # None => batch[k] \in BatchRows
    /\ \A c \in Connections : connection[c] # None => connection[c] \in ConnectionRows

(* Retries of one idempotency key that run side by side, whatever they      *)
(* send, apply one payload once; and an accounting window is queued once    *)
(* (data_integration.py:156, accounting_connections.py:193,                 *)
(* docs/data-integration-api.md "Replaying the same key").                  *)
AppliedOnce ==
    /\ \A k \in Keys : applied[k] = IF batch[k] = None THEN 0 ELSE 1
    /\ \A i \in Identities : jobs[i] <= 1

(* A key that is taken stands for a batch that was applied whole: each of   *)
(* its records has a row or an error, however often other batches fail,     *)
(* are retried or are rolled back (data_integration.py:185-231).            *)
BatchWhole ==
    \A k \in Keys : batch[k] # None =>
      \A n \in DOMAIN batch[k].records :
        row[batch[k].records[n].item] # None \/ n \in batch[k].errors

(* A row is the record that its hash names, unless two batches wrote it at  *)
(* once: each writes the attributes it changed, and a mixture keeps a hash  *)
(* that later makes the right record look unchanged                         *)
(* (data_integration.py:272, :567).                                         *)
HashNamesRow ==
    \A x \in Items \ torn : row[x] # None => row[x].hash = <<row[x].a, row[x].b>>
=============================================================================
