----------------------- MODULE SubscriptionRepository -----------------------
(***************************************************************************)
(* The PostgreSQL repository (internal/repository/postgres) and the two    *)
(* tables it writes, as seen by concurrent HTTP requests.                  *)
(*                                                                         *)
(* Every request runs in a handler of its own (a goroutine).  A handler    *)
(* that writes goes through                                                *)
(*                                                                         *)
(*    idle -> [call] -> [record] -> find -> [write] -> commit -> idle      *)
(*                                                                         *)
(* "call" waits for a store API, "record" is about to insert the event     *)
(* row, "find" to read the subscription, "write" to send its INSERT,       *)
(* UPDATE or upsert, "commit" to commit.  The transaction is READ          *)
(* COMMITTED (pool.Begin without options): the SELECT takes no lock, so    *)
(* whatever it returned may be out of date when the write is sent; a write *)
(* holds its row, and its unique index entry, until the commit.            *)
(*                                                                         *)
(* The module holds the primitives the service's handlers are made of, and *)
(* RepositorySpec: every behaviour of handlers that call them in order,    *)
(* whatever data they carry.                                               *)
(***************************************************************************)
EXTENDS SubscriptionDomain

CONSTANTS
  Handlers,      \* request handlers, one request at a time each
  RowIDs,        \* UUIDs drawn for new subscription rows
  Users,         \* BeeBase accounts
  Purchases,     \* (provider, original transaction id) or (provider, token)
  EventIDs,      \* (provider, notification UUID or message id)
  Nil,           \* no user, no purchase, no event
  MaxTime        \* bound of the service's clock

ASSUME RepositoryAssumption ==
  /\ Nil \notin Users \cup Purchases \cup EventIDs
  /\ MaxTime \in Nat \ {0}

VARIABLES
  subs,          \* committed rows of table subscriptions
  events,        \* committed (provider, event_id) of subscription_events
  pc,            \* where each handler is
  job,           \* the request each handler works for
  write,         \* the statement each handler is about to send or has sent
  now            \* the service's clock

vars == <<subs, events, pc, job, write, now>>

Row == [id : RowIDs, user : Users, purchase : Purchases, status : Status,
        expiresAt : Nat, cancelledAt : Nat, lastEventAt : Nat, updatedAt : Nat]

Kind == {"none", "apple_webhook", "google_webhook",
         "apple_verify", "google_verify", "delete"}

Job == [kind : Kind, event : EventIDs \cup {Nil}, user : Users \cup {Nil},
        purchase : Purchases \cup {Nil}, status : Status, expiresAt : Nat,
        eventAt : Nat, cancelledAt : Nat, ids : SUBSET RowIDs]

NoJob == [kind |-> "none", event |-> Nil, user |-> Nil, purchase |-> Nil,
          status |-> "inactive", expiresAt |-> NoTime, eventAt |-> NoTime,
          cancelledAt |-> NoTime, ids |-> {}]

Statement == [op : {"create", "update", "upsert"}, row : Row]
NoWrite == [op |-> "none"]

PC == {"idle", "call", "record", "find", "write", "commit", "delete"}

(* Types of the variables. *)
RepositoryTypeOK ==
  /\ subs \subseteq Row
  /\ events \subseteq EventIDs
  /\ pc \in [Handlers -> PC]
  /\ job \in [Handlers -> Job]
  /\ write \in [Handlers -> Statement \cup {NoWrite}]
  /\ now \in 1..MaxTime

RepositoryInit ==
  /\ subs = {}
  /\ events = {}
  /\ pc = [h \in Handlers |-> "idle"]
  /\ job = [h \in Handlers |-> NoJob]
  /\ write = [h \in Handlers |-> NoWrite]
  /\ now = 1
-----------------------------------------------------------------------------
(* What a SELECT by purchase identifier returns: the committed row, if any. *)
Stored(purchase) == {r \in subs : r.purchase = purchase}

WithID(id) == {r \in subs : r.id = id}

(* New draws a random UUID: one no row and no statement in flight uses. *)
FreshIDs ==
  {id \in RowIDs : /\ WithID(id) = {}
                   /\ \A o \in Handlers :
                        /\ write[o] # NoWrite => write[o].row.id # id
                        /\ id \notin job[o].ids}

(* Handler h holds the event row its transaction has inserted. *)
HoldsEvent(h) == pc[h] \in {"find", "write", "commit"} /\ job[h].event # Nil

(* An insert of the same event row waits for the holder to end. *)
EventFree(event) == \A o \in Handlers : HoldsEvent(o) => job[o].event # event

(* Handler o has sent a statement, and so locks, on this row or index entry. *)
Locks(o, id, purchase) ==
  /\ pc[o] = "commit"
  /\ write[o] # NoWrite
  /\ write[o].row.id = id \/ write[o].row.purchase = purchase

(* The statement waits for another transaction's lock. *)
Blocked(h) ==
  \E o \in Handlers \ {h} : Locks(o, write[h].row.id, write[h].row.purchase)

(* Variants of Succeeds: an UPDATE of a row that is gone inserts it again;   *)
(* the unique index on the purchase identifier is missing.                   *)
UpdateRevives(w) == w.op \in {"update", "upsert"} \/ Stored(w.row.purchase) = {}
NoUniqueIndex(w) == w.op = "update" => WithID(w.row.id) # {}

(* The statement succeeds once it is not blocked: an UPDATE must find its    *)
(* row, an INSERT must not violate the unique index on the purchase, and an  *)
(* upsert is either of them.                                                 *)
Succeeds(w) ==
  CASE w.op = "create" -> Stored(w.row.purchase) = {}
    [] w.op = "update" -> WithID(w.row.id) # {}
    [] w.op = "upsert" -> WithID(w.row.id) # {} \/ Stored(w.row.purchase) = {}

(* Variant of Persist: the SET clause also writes user_id. *)
PersistOwner(w) ==
  IF w = NoWrite THEN subs ELSE (subs \ WithID(w.row.id)) \cup {w.row}

(* The rows once the statement is committed.  An update, or an upsert whose  *)
(* id is there, leaves user_id as it is stored.                              *)
Persist(w) ==
  IF w = NoWrite THEN subs
  ELSE (subs \ WithID(w.row.id)) \cup
       IF WithID(w.row.id) = {} THEN {w.row}
       ELSE {[w.row EXCEPT !.user = r.user] : r \in WithID(w.row.id)}
-----------------------------------------------------------------------------
(* Primitives.  Each is one step of handler h. *)

(* A request arrives and its handler goes to step `at'. *)
Open(h, j, at) ==
  /\ pc[h] = "idle"
  /\ pc' = [pc EXCEPT ![h] = at]
  /\ job' = [job EXCEPT ![h] = j]
  /\ UNCHANGED <<subs, events, write, now>>

(* The store API has answered; what it said is in j. *)
Answered(h, j, at) ==
  /\ pc[h] = "call"
  /\ pc' = [pc EXCEPT ![h] = at]
  /\ job' = [job EXCEPT ![h] = j]
  /\ UNCHANGED <<subs, events, write, now>>

(* The handler returns; its transaction, if it has one, is over. *)
Close(h) ==
  /\ pc' = [pc EXCEPT ![h] = "idle"]
  /\ job' = [job EXCEPT ![h] = NoJob]
  /\ write' = [write EXCEPT ![h] = NoWrite]
  /\ now' = now

(* Variant of RecordEvent: the event table has no unique index to wait on. *)
RecordEventRaces(h) ==
  /\ pc[h] = "record"
  /\ job[h].event \notin events
  /\ pc' = [pc EXCEPT ![h] = "find"]
  /\ UNCHANGED <<subs, events, job, write, now>>

(* RecordEventIfNotExists inserted the event: it is this handler's to apply. *)
RecordEvent(h) ==
  /\ pc[h] = "record"
  /\ EventFree(job[h].event)
  /\ job[h].event \notin events
  /\ pc' = [pc EXCEPT ![h] = "find"]
  /\ UNCHANGED <<subs, events, job, write, now>>

(* Variant of SkipDuplicateEvent: the insert is tried until it succeeds. *)
RetryDuplicateEvent(h) ==
  /\ pc[h] = "record"
  /\ EventFree(job[h].event)
  /\ job[h].event \in events
  /\ UNCHANGED vars

(* Variant of SkipDuplicateEvent: an insert in flight counts as processed. *)
SkipHeldEvent(h) ==
  /\ pc[h] = "record"
  /\ EventFree(job[h].event) => job[h].event \in events
  /\ Close(h)
  /\ UNCHANGED <<subs, events>>

(* ON CONFLICT DO NOTHING: the event was processed before; answer success. *)
SkipDuplicateEvent(h) ==
  /\ pc[h] = "record"
  /\ EventFree(job[h].event)
  /\ job[h].event \in events
  /\ Close(h)
  /\ UNCHANGED <<subs, events>>

(* The handler has read the row and decided what to write. *)
Stage(h, w) ==
  /\ pc[h] = "find"
  /\ pc' = [pc EXCEPT ![h] = "write"]
  /\ write' = [write EXCEPT ![h] = w]
  /\ UNCHANGED <<subs, events, job, now>>

(* The handler has read the row and writes nothing; the event row stays. *)
StageNothing(h) ==
  /\ pc[h] = "find"
  /\ pc' = [pc EXCEPT ![h] = "commit"]
  /\ UNCHANGED <<subs, events, job, write, now>>

(* The statement succeeds; its locks are held until the commit. *)
ExecWrite(h) ==
  /\ pc[h] = "write"
  /\ ~Blocked(h)
  /\ Succeeds(write[h])
  /\ pc' = [pc EXCEPT ![h] = "commit"]
  /\ UNCHANGED <<subs, events, job, write, now>>

(* Unique violation, or an UPDATE of no row: the error rolls everything back. *)
WriteFails(h) ==
  /\ pc[h] = "write"
  /\ ~Blocked(h)
  /\ ~Succeeds(write[h])
  /\ Close(h)
  /\ UNCHANGED <<subs, events>>

(* Variant of Commit: the event row is not part of the transaction. *)
CommitWithoutEvent(h) ==
  /\ pc[h] = "commit"
  /\ subs' = Persist(write[h])
  /\ events' = events
  /\ Close(h)

Commit(h) ==
  /\ pc[h] = "commit"
  /\ subs' = Persist(write[h])
  /\ events' = events \cup ({job[h].event} \ {Nil})
  /\ Close(h)

(* Variant of Rollback: the event row was written outside the transaction. *)
RollbackKeepsEvent(h) ==
  /\ pc[h] # "idle"
  /\ subs' = subs
  /\ events' = IF HoldsEvent(h) THEN events \cup {job[h].event} ELSE events
  /\ Close(h)

(* A database error, the request's deadline, a cancelled context or a crash  *)
(* of the process ends the request; the deferred Rollback, or the loss of    *)
(* the connection, undoes the transaction.                                   *)
Rollback(h) ==
  /\ pc[h] # "idle"
  /\ Close(h)
  /\ UNCHANGED <<subs, events>>

(* RecordEventIfNotExists outside a transaction; its error is ignored, so it *)
(* may also have done nothing.                                               *)
RecordOnly(event) ==
  /\ EventFree(event)
  /\ events' \in {events, events \cup {event}}

(* DELETE ... WHERE user_id = $1 fixes the rows it can see when it starts, *)
(* waits for their locks, and removes those that are still there.          *)
OpenDelete(h, user) ==
  Open(h, [NoJob EXCEPT !.kind = "delete", !.user = user,
                        !.ids = {r.id : r \in {s \in subs : s.user = user}}],
       "delete")

(* A row this statement removes is out of reach of every other DELETE that   *)
(* saw it, even if an upsert inserts its id again.                           *)
ExecDelete(h) ==
  /\ pc[h] = "delete"
  /\ \A o \in Handlers, id \in job[h].ids : ~Locks(o, id, Nil)
  /\ subs' = {r \in subs : r.id \notin job[h].ids}
  /\ pc' = [pc EXCEPT ![h] = "idle"]
  /\ job' = [o \in Handlers |->
               IF o = h THEN NoJob
               ELSE [job[o] EXCEPT !.ids = @ \ job[h].ids]]
  /\ UNCHANGED <<events, write, now>>

Tick ==
  /\ now < MaxTime
  /\ now' = now + 1
  /\ UNCHANGED <<subs, events, pc, job, write>>

(* The part of a handler that only the repository decides: it goes on, or it *)
(* returns and the request is answered with success.                         *)
GoOn(h) == RecordEvent(h) \/ ExecWrite(h) \/ WriteFails(h)
Conclude(h) == SkipDuplicateEvent(h) \/ Commit(h) \/ ExecDelete(h)

RepositoryStep(h) == GoOn(h) \/ Conclude(h)
-----------------------------------------------------------------------------
(* Requests about the same purchase do not overlap.  Nothing in the service  *)
(* ensures it; the requirements that need it say so.                         *)
OnePerPurchase ==
  \A h, o \in Handlers :
    h # o /\ job[h].purchase # Nil => job[h].purchase # job[o].purchase
-----------------------------------------------------------------------------
(* Any client: handlers that call the primitives in order.  A request that   *)
(* has an event inserts it before it reads; a new row has a new id; a row    *)
(* that is overwritten is one that was read, with its id and purchase.       *)

EventBefore(j, at) ==
  /\ at = "record" => j.event # Nil
  /\ at = "find" => j.event = Nil

OpenRequest(h) ==
  \E j \in Job, at \in {"call", "record", "find"} :
    /\ j.ids = {}
    /\ EventBefore(j, at)
    /\ Open(h, j, at)

Reply(h) ==
  \E j \in Job, at \in {"record", "find"} :
    /\ j.ids = job[h].ids
    /\ j.event = job[h].event
    /\ EventBefore(j, at)
    /\ Answered(h, j, at)

ReplyRecording(h) ==
  /\ pc[h] = "call"
  /\ job[h].event # Nil
  /\ RecordOnly(job[h].event)
  /\ subs' = subs
  /\ Close(h)

StageCreate(h) ==
  \E row \in Row :
    /\ row.id \in FreshIDs
    /\ Stage(h, [op |-> "create", row |-> row])

StageUpdate(h) ==
  \E row \in Row, r \in subs :
    /\ row.id = r.id /\ row.purchase = r.purchase
    /\ Stage(h, [op |-> "update", row |-> row])

StageUpsert(h) ==
  \E row \in Row, r \in subs :
    /\ row.id = r.id /\ row.purchase = r.purchase
    /\ Stage(h, [op |-> "upsert", row |-> row])

RecordAlone ==
  \E event \in EventIDs :
    /\ RecordOnly(event)
    /\ UNCHANGED <<subs, pc, job, write, now>>

ClientStep(h) ==
  \/ OpenRequest(h)
  \/ Reply(h)
  \/ ReplyRecording(h)
  \/ StageCreate(h)
  \/ StageUpdate(h)
  \/ StageUpsert(h)
  \/ StageNothing(h)
  \/ \E user \in Users : OpenDelete(h, user)

RepositoryNext ==
  \/ RecordAlone
  \/ Tick
  \/ \E h \in Handlers : ClientStep(h) \/ RepositoryStep(h) \/ Rollback(h)

RepositorySpec == RepositoryInit /\ [][RepositoryNext]_vars
=============================================================================
