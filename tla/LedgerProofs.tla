---------------------------- MODULE LedgerProofs ----------------------------
(***************************************************************************)
(* Processing Apple's notifications implements NotificationLedger: what a  *)
(* handler read, decided, staged, sent and committed one step after the    *)
(* other amounts to one decision at the commit.                            *)
(***************************************************************************)
EXTENDS AppleLedger, SerialProofs

(* A job stands for a notification, and one that has found nothing to write  *)
(* to and writes nothing names no account.                                   *)
JobsKnown == \A h \in Handlers : job[h] = NoJob \/ job[h] \in LedgerUpdates

Finishes(h) == pc[h] = "commit" /\ ~Staged(h)

DroppedUnresolved ==
  \A h \in Handlers :
    Finishes(h) /\ Stored(job[h].purchase) = {} => job[h].user = Nil

(* A webhook inserts or updates; only a verification upserts. *)
NoUpserts == \A h \in Handlers : write[h] = NoWrite \/ write[h].op # "upsert"

LedgerInvariant ==
  SerialInvariant /\ OnlyApple /\ JobsKnown /\ DroppedUnresolved /\ NoUpserts
-----------------------------------------------------------------------------
(* The entry of a purchase with one row is that row's. *)
LEMMA EntryOfOne ==
  ASSUME NEW rows, NEW r \in rows, \A s \in rows : s = r
  PROVE  EntryIn(rows) = EntryFor(r)
<1>1. (CHOOSE s \in rows : TRUE) = r
  OBVIOUS
<1> QED BY <1>1 DEF EntryIn

(* An entry is never the absence of one. *)
LEMMA EntryIsNotNone ==
  ASSUME NEW r \in Row
  PROVE  EntryFor(r) # NoEntry
<1>1. EntryFor(r).status \in Status /\ NoEntry.status = "none"
  BY DEF EntryFor, NoEntry, Row
<1> QED BY <1>1 DEF Status

(* The ledger's rule is the service's: shouldApplyUpdate with its separate   *)
(* check that nothing follows "revoked".                                     *)
LEMMA SupersedesIsShouldApply ==
  ASSUME NEW u \in Job, NEW r \in Row
  PROVE  Ledger!Supersedes(u, EntryFor(r))
         <=> ShouldApplyUpdate(r, u.status, u.expiresAt, u.eventAt)
<1>1. /\ u.status \in Status /\ u.expiresAt \in Nat /\ u.eventAt \in Nat
      /\ r.status \in Status /\ r.expiresAt \in Nat /\ r.lastEventAt \in Nat
  BY DEF Job, Row
<1>2. /\ EntryFor(r).status = r.status /\ EntryFor(r).expiresAt = r.expiresAt
      /\ EntryFor(r).eventAt = r.lastEventAt
  BY DEF EntryFor
<1>3. \A t, v \in Nat : Ledger!Earlier(t, v) <=> Before(t, v)
  BY DEF Ledger!Earlier, Before, NoTime
<1>4. validTransitions["revoked"] = {}
  BY DEF validTransitions, Status
<1>5. CanTransition(r.status, u.status) => r.status # "revoked"
  BY <1>4 DEF CanTransition
<1>6. <<r.status, u.status>> \in
        {x \in Status \X Status : x[2] \in validTransitions[x[1]]}
      <=> CanTransition(r.status, u.status)
  BY <1>1 DEF CanTransition
<1> QED BY <1>1, <1>2, <1>3, <1>5, <1>6 DEF Ledger!Supersedes, ShouldApplyUpdate

(* What is informational is so at any time. *)
LEMMA InformationalAnytime ==
  ASSUME NEW n, NEW t, NEW u, AppleInformational(n, t)
  PROVE  AppleInformational(n, u)
BY DEF AppleInformational, mapAppleStatus
-----------------------------------------------------------------------------
(* No row of Apple's is ever without a successor: nothing deletes. *)
LEMMA StoredStays ==
  ASSUME SerialInvariant, [AppleWebhookNext]_vars, NEW p, Stored(p) # {}
  PROVE  Stored(p)' # {}
<1> USE DEF SerialInvariant
<1>1. RepositoryTypeOK /\ RepositoryInvariant
  BY DEF RepositoryInvariant
<1>2. CASE subs' = subs
  BY <1>2 DEF Stored
<1>3. ASSUME NEW k \in Handlers, Commit(k)
      PROVE  Stored(p)' # {}
  BY <1>1, <1>3, CommitKeepsRows
<1> QED
  BY <1>2, <1>3
     DEF AppleWebhookNext, RecordInformational, Tick, ReceiveAppleNotification, Open,
         AppleWebhookStep, SkipUnresolved, SkipStaleNotification, UpdateFromNotification,
         CreateFromNotification, Stage, StageNothing, RecordEvent, SkipDuplicateEvent,
         ExecWrite, WriteFails, Rollback, vars

(* Initially there is neither a row nor a job. *)
LEMMA LedgerInit == RepositoryInit => LedgerInvariant
<1> SUFFICES ASSUME RepositoryInit PROVE LedgerInvariant
  OBVIOUS
<1>1. OnlyApple /\ JobsKnown /\ NoUpserts
  BY DEF RepositoryInit, OnlyApple, JobsKnown, NoUpserts, NoJob
<1>2. DroppedUnresolved
  BY DEF RepositoryInit, DroppedUnresolved, Finishes
<1> QED BY <1>1, <1>2, SerialInit DEF LedgerInvariant

(* A job comes from a notification that can be processed when it arrives.    *)
LEMMA JobsKnownStep ==
  ASSUME JobsKnown, RepositoryTypeOK, [AppleWebhookNext]_vars
  PROVE  JobsKnown'
<1>1. LedgerUpdates' = LedgerUpdates /\ NoJob' = NoJob
  BY DEF LedgerUpdates, JobsOf, AppleJob, AppleProcessable, mapAppleStatus, NoJob
<1> USE DEF JobsKnown
<1>2. CASE UNCHANGED job
  BY <1>1, <1>2
<1>3. ASSUME NEW h \in Handlers, ReceiveAppleNotification(h)
      PROVE  JobsKnown'
  <2>1. PICK n \in AppleNotifications :
          AppleProcessable(n, now) /\ Open(h, AppleJob(n, now), "record")
    BY <1>3 DEF ReceiveAppleNotification
  <2>2. AppleJob(n, now) \in LedgerUpdates
    BY <2>1 DEF LedgerUpdates, JobsOf, RepositoryTypeOK
  <2> QED BY <1>1, <2>1, <2>2 DEF Open, RepositoryTypeOK
<1>4. ASSUME NEW h \in Handlers, Close(h)
      PROVE  JobsKnown'
  BY <1>1, <1>4 DEF Close, RepositoryTypeOK
<1> QED
  BY <1>2, <1>3, <1>4
     DEF AppleWebhookNext, RecordInformational, Tick, AppleWebhookStep, SkipUnresolved,
         SkipStaleNotification, UpdateFromNotification, CreateFromNotification, Stage,
         StageNothing, RecordEvent, SkipDuplicateEvent, ExecWrite, WriteFails, Commit,
         Rollback, vars

(* A handler that is about to write goes on to send its statement. *)
LEMMA StagesWrite ==
  ASSUME RepositoryTypeOK, NEW h \in Handlers, Stages(h)
  PROVE  pc'[h] = "write"
BY DEF Stages, UpdateFromNotification, CreateFromNotification, UpsertAppleVerified,
       CreateAppleVerified, UpdateFromGoogle, UpsertGoogleVerified,
       CreateGoogleVerified, Stage, RepositoryTypeOK

(* A notification is dropped for want of an account only, and the row it did *)
(* not find does not appear while its transaction lasts.                     *)
LEMMA DroppedStep ==
  ASSUME LedgerInvariant, [AppleWebhookNext]_vars
  PROVE  DroppedUnresolved'
<1>1. /\ SerialInvariant /\ RepositoryTypeOK /\ JobsMatchKinds /\ PhasesMatch
      /\ [ServiceNext]_vars
  BY AppleIsService DEF LedgerInvariant, SerialInvariant, RepositoryInvariant
<1> SUFFICES ASSUME NEW h \in Handlers, Finishes(h)', Stored(job[h].purchase)' = {}
             PROVE  job'[h].user = Nil
  BY DEF DroppedUnresolved
<1>2. Decided(h)'
  BY DEF Finishes, Decided
<1>3. CASE Decided(h)
  <2>1. SameDecision(job'[h], job[h]) /\ write'[h] = write[h]
    BY <1>1, <1>2, <1>3, DecidedKept
  <2>2. Finishes(h)
    BY <1>1, <1>3, <2>1 DEF Finishes, Decided, Staged, PhasesMatch
  <2>3. Stored(job[h].purchase) = {}
    <3>1. job'[h].purchase = job[h].purchase
      BY <2>1 DEF SameDecision, SameRequest
    <3> DEFINE p == job[h].purchase
    <3>2. {r \in subs' : r.purchase = p} = {}
      BY <3>1 DEF Stored
    <3> QED BY <1>1, <3>2, StoredStays DEF Stored
  <2> QED BY <2>1, <2>2, <2>3 DEF LedgerInvariant, DroppedUnresolved, SameDecision, SameRequest
<1>4. CASE ~Decided(h)
  <2>1. Acts(h)
    BY <1>1, <1>2, <1>4, ServiceActs, ActsStep, FrameStep DEF Decided, Frame
  <2>2. Skips(h)
    BY <1>1, <1>2, <1>4, <2>1, DecidesInOneStep, StagesWrite DEF Finishes
  <2>3. job' = job /\ subs' = subs
    BY <1>1, <2>2, SkipFits
  <2>4. Stored(job[h].purchase) = {}
    BY <2>3 DEF Stored
  <2>5. SkipUnresolved(h) \/ SkipUnknownToken(h)
    BY <2>2, <2>4 DEF Skips, SkipStaleNotification, SkipStaleGoogle
  <2>6. job[h].kind # "google_webhook"
    BY DEF LedgerInvariant, OnlyApple
  <2> QED BY <2>3, <2>5, <2>6 DEF SkipUnresolved, SkipUnknownToken, FindsForGoogle
<1> QED BY <1>3, <1>4

(* No step of the webhook stages an upsert. *)
LEMMA NoUpsertsStep ==
  ASSUME NoUpserts, RepositoryTypeOK, [AppleWebhookNext]_vars
  PROVE  NoUpserts'
<1> USE DEF NoUpserts
<1>1. CASE UNCHANGED write
  BY <1>1
<1>2. ASSUME NEW h \in Handlers, NEW row,
             Stage(h, [op |-> "create", row |-> row]) \/ Stage(h, [op |-> "update", row |-> row])
      PROVE  NoUpserts'
  BY <1>2 DEF Stage, RepositoryTypeOK
<1>3. ASSUME NEW h \in Handlers, Close(h)
      PROVE  NoUpserts'
  BY <1>3 DEF Close, RepositoryTypeOK
<1>4. ASSUME NEW h \in Handlers, UpdateFromNotification(h) \/ CreateFromNotification(h)
      PROVE  NoUpserts'
  BY <1>2, <1>4 DEF UpdateFromNotification, CreateFromNotification
<1> QED
  BY <1>1, <1>3, <1>4
     DEF AppleWebhookNext, RecordInformational, Tick, ReceiveAppleNotification, Open,
         AppleWebhookStep, SkipUnresolved, SkipStaleNotification, StageNothing,
         RecordEvent, SkipDuplicateEvent, ExecWrite, WriteFails, Commit, Rollback, vars

(* Every step without overlap keeps the invariant. *)
LEMMA LedgerStep ==
  ASSUME LedgerInvariant, [AppleWebhookNext]_vars, OnePerPurchase'
  PROVE  LedgerInvariant'
<1>1. /\ SerialInvariant /\ OnlyApple /\ JobsKnown /\ NoUpserts
      /\ RepositoryTypeOK /\ [ServiceNext]_vars
  BY AppleIsService DEF LedgerInvariant, SerialInvariant, RepositoryInvariant
<1> QED
  BY <1>1, SerialStep, OnlyAppleStep, JobsKnownStep, DroppedStep, NoUpsertsStep
     DEF LedgerInvariant
-----------------------------------------------------------------------------
(* The ledger changes with the table only. *)
LEMMA LedgerSame ==
  ASSUME subs' = subs
  PROVE  LedgerNow' = LedgerNow
BY DEF LedgerNow, Stored

(* A commit without a statement consumes a notification that changes         *)
(* nothing: it names no account and there is no entry, or the entry outdates *)
(* it.                                                                       *)
LEMMA CommitKeeps ==
  ASSUME LedgerInvariant, NEW h \in Handlers, Commit(h), ~Staged(h),
         job[h] \in LedgerUpdates, job[h] \in Job, job[h].purchase \in Purchases,
         job[h].kind = "apple_webhook"
  PROVE  Ledger!KeepEntry(job[h])
<1> DEFINE p == job[h].purchase
<1>1. LedgerNow' = LedgerNow /\ LedgerNow[p] = EntryIn(Stored(p))
  <2>1. subs' = subs
    BY DEF Commit, Persist, Staged
  <2> QED BY <2>1, LedgerSame DEF LedgerNow
<1>2. CASE Stored(p) = {}
  <2>1. job[h].user = Nil
    BY <1>2 DEF LedgerInvariant, DroppedUnresolved, Finishes, Commit
  <2> QED BY <1>1, <1>2, <2>1 DEF EntryIn, Ledger!KeepEntry
<1>3. ASSUME NEW r \in Stored(p)
      PROVE  Ledger!KeepEntry(job[h])
  <2>1. r \in Row /\ \A s \in Stored(p) : s = r
    BY DEF LedgerInvariant, SerialInvariant, RepositoryInvariant, OneRowPerPurchase,
           RepositoryTypeOK, Stored
  <2>2. LedgerNow[p] = EntryFor(r) /\ EntryFor(r) # NoEntry
    BY <1>1, <2>1, EntryOfOne, EntryIsNotNone
  <2>3. ~Applies(job[h], r)
    BY DEF LedgerInvariant, SerialInvariant, DecisionsStand, Decided, Commit, Fits, Staged
  <2>4. ~Ledger!Supersedes(job[h], EntryFor(r))
    BY <2>1, <2>3, SupersedesIsShouldApply DEF Applies
  <2> QED BY <1>1, <2>2, <2>4 DEF Ledger!KeepEntry
<1> QED BY <1>2, <1>3

(* A row that takes the place of a purchase's rows changes its entry only.   *)
LEMMA EntriesAfter ==
  ASSUME NEW p \in Purchases, NEW new, new.purchase = p,
         subs' = (subs \ Stored(p)) \cup {new}
  PROVE  LedgerNow' = [LedgerNow EXCEPT ![p] = EntryFor(new)]
<1>1. \A q \in Purchases \ {p} : {r \in subs' : r.purchase = q} = Stored(q)
  BY DEF Stored
<1>2. {r \in subs' : r.purchase = p} = {new}
  BY DEF Stored
<1>3. EntryIn({new}) = EntryFor(new)
  BY EntryOfOne
<1>4. LedgerNow' = [q \in Purchases |-> EntryIn({r \in subs' : r.purchase = q})]
  BY DEF LedgerNow, Stored
<1>5. \A q \in Purchases :
        EntryIn({r \in subs' : r.purchase = q})
        = IF q = p THEN EntryFor(new) ELSE LedgerNow[q]
  BY <1>1, <1>2, <1>3 DEF LedgerNow
<1>6. LedgerNow' = [q \in Purchases |-> IF q = p THEN EntryFor(new) ELSE LedgerNow[q]]
  BY <1>4, <1>5, Zenon
<1>7. [LedgerNow EXCEPT ![p] = EntryFor(new)]
      = [q \in Purchases |-> IF q = p THEN EntryFor(new) ELSE LedgerNow[q]]
  BY DEF LedgerNow
<1> QED BY <1>6, <1>7

(* The rows a statement replaces are those of its purchase. *)
LEMMA StatementsOwn ==
  ASSUME LedgerInvariant, NEW h \in Handlers, Commit(h), Staged(h)
  PROVE  /\ write[h].row.purchase = job[h].purchase
         /\ WithID(write[h].row.id) = Stored(job[h].purchase)
<1>1. write[h].row.purchase = job[h].purchase /\ Decided(h)
  BY DEF LedgerInvariant, SerialInvariant, DecisionsStand, Decided, Commit
<1>2. \A r \in subs : r.id = write[h].row.id => r.purchase = write[h].row.purchase
  BY DEF LedgerInvariant, SerialInvariant, RepositoryInvariant, IDsMeanOnePurchase
<1>3. \A r \in Stored(job[h].purchase) : r.id = write[h].row.id
  BY <1>1 DEF LedgerInvariant, SerialInvariant, DecisionsStand, Fits, Staged
<1> QED BY <1>1, <1>2, <1>3 DEF WithID, Stored

(* The commit of an INSERT opens an entry. *)
LEMMA CommitOpens ==
  ASSUME LedgerInvariant, NEW h \in Handlers, Commit(h), Staged(h),
         job[h] \in Job, job[h].purchase \in Purchases, job[h].kind = "apple_webhook",
         Stored(job[h].purchase) = {}
  PROVE  Ledger!OpenEntry(job[h])
<1> DEFINE p == job[h].purchase
           row == write[h].row
<1>1. WithID(row.id) = {} /\ row.purchase = p
  BY StatementsOwn
<1>2. subs' = (subs \ Stored(p)) \cup {row}
  BY <1>1 DEF Commit, Persist, Staged, WithID
<1>3. LedgerNow' = [LedgerNow EXCEPT ![p] = EntryFor(row)]
  BY <1>1, <1>2, EntriesAfter
<1>4. write[h].op = "create"
  <2>1. write[h].op \in {"create", "update"} /\ Succeeds(write[h])
    BY StagedType
       DEF LedgerInvariant, NoUpserts, Staged, SerialInvariant, RepositoryInvariant, SentStatementsHold,
           Locked, Commit
  <2> QED BY <1>1, <2>1 DEF Succeeds
<1>5. MadeNew(job[h], row)
  BY <1>4 DEF LedgerInvariant, SerialInvariant, DecisionsStand, Decided, Commit
<1>6. job[h].user # Nil /\ EntryFor(row) = Ledger!Entry(job[h], job[h].user, job[h].eventAt)
  BY <1>5 DEF MadeNew, AppleNewRow, EntryFor, Ledger!Entry
<1>7. LedgerNow[p] = NoEntry
  BY DEF LedgerNow, EntryIn
<1> QED BY <1>3, <1>6, <1>7 DEF Ledger!OpenEntry

(* The commit of an UPDATE amends the entry, the account excepted. *)
LEMMA CommitAmends ==
  ASSUME LedgerInvariant, NEW h \in Handlers, Commit(h), Staged(h),
         job[h] \in Job, job[h].purchase \in Purchases, job[h].kind = "apple_webhook",
         NEW r \in Stored(job[h].purchase)
  PROVE  Ledger!AmendEntry(job[h])
<1> DEFINE p == job[h].purchase
           row == write[h].row
           new == [row EXCEPT !.user = r.user]
<1>1. WithID(row.id) = Stored(p) /\ row.purchase = p
  BY StatementsOwn
<1>2. r \in Row /\ row \in Row /\ \A s \in Stored(p) : s = r
  BY StagedType
     DEF LedgerInvariant, SerialInvariant, RepositoryInvariant, OneRowPerPurchase,
         RepositoryTypeOK, Stored
<1>3. subs' = (subs \ Stored(p)) \cup {new}
  <2>1. {[row EXCEPT !.user = q.user] : q \in Stored(p)} = {new}
    BY <1>2
  <2>2. Stored(p) # {}
    OBVIOUS
  <2> QED BY <1>1, <2>1, <2>2 DEF Commit, Persist, Staged
<1>4. /\ new.purchase = p /\ new.user = r.user /\ new.status = row.status
      /\ new.expiresAt = row.expiresAt /\ new.lastEventAt = row.lastEventAt
  BY <1>1, <1>2 DEF Row
<1> HIDE DEF new
<1>5. LedgerNow' = [LedgerNow EXCEPT ![p] = EntryFor(new)]
  BY <1>3, <1>4, EntriesAfter
<1>6. LedgerNow[p] = EntryFor(r) /\ EntryFor(r) # NoEntry
  BY <1>2, EntryOfOne, EntryIsNotNone DEF LedgerNow
<1>7. MadeFrom(job[h], r, row)
  BY DEF LedgerInvariant, SerialInvariant, DecisionsStand, Decided, Commit, Fits, Staged
<1>8. Applies(job[h], r) /\ row = AppleApplied(r, job[h], row.updatedAt)
  BY <1>7 DEF MadeFrom
<1>9. Ledger!Supersedes(job[h], EntryFor(r))
  BY <1>2, <1>8, SupersedesIsShouldApply DEF Applies
<1>10. /\ row.status = job[h].status /\ row.expiresAt = job[h].expiresAt
       /\ row.lastEventAt = IF job[h].eventAt = 0 THEN r.lastEventAt ELSE job[h].eventAt
  BY <1>2, <1>8 DEF AppleApplied, Row, NoTime
<1>11. EntryFor(new) =
         Ledger!Entry(job[h], EntryFor(r).user,
                      IF job[h].eventAt = 0 THEN EntryFor(r).eventAt ELSE job[h].eventAt)
  BY <1>4, <1>10 DEF EntryFor, Ledger!Entry
<1> QED BY <1>5, <1>6, <1>9, <1>11 DEF Ledger!AmendEntry

(* A commit processes its notification. *)
LEMMA CommitProcesses ==
  ASSUME LedgerInvariant, NEW h \in Handlers, Commit(h)
  PROVE  \E u \in LedgerUpdates : Ledger!Process(u)
<1>1. RepositoryTypeOK
  BY DEF LedgerInvariant, SerialInvariant, RepositoryInvariant
<1>2. job[h].kind = "apple_webhook"
  BY DEF LedgerInvariant, SerialInvariant, JobsName, Busy, Commit, OnlyApple, Webhooks,
         Verifications
<1>3. /\ job[h] \in LedgerUpdates /\ job[h] \in Job
      /\ job[h].purchase \in Purchases /\ job[h].event # Nil
  BY <1>1, <1>2, JobType
     DEF LedgerInvariant, JobsKnown, NoJob, Job, SerialInvariant, JobsMatchKinds,
         MatchesKind, Webhooks
<1>4. job[h].event \notin events /\ events' = events \cup {job[h].event}
  BY <1>3 DEF LedgerInvariant, SerialInvariant, RepositoryInvariant, EventHeldOnce,
              HoldsEvent, Commit
<1>5. Ledger!OpenEntry(job[h]) \/ Ledger!AmendEntry(job[h]) \/ Ledger!KeepEntry(job[h])
  BY <1>2, <1>3, CommitKeeps, CommitOpens, CommitAmends
<1> QED BY <1>3, <1>4, <1>5 DEF Ledger!Process

(* Every step of the webhook is a step of the ledger or leaves it alone. *)
LEMMA LedgerSimulates ==
  ASSUME LedgerInvariant, [AppleWebhookNext]_vars
  PROVE  [Ledger!LedgerNext]_<<LedgerNow, events>>
<1>1. CASE subs' = subs /\ events' = events
  BY <1>1, LedgerSame
<1>2. CASE RecordInformational
  <2>1. PICK n \in AppleNotifications : AppleInformational(n, now) /\ RecordOnly(n.event)
    BY <1>2 DEF RecordInformational
  <2>2. n.event \in LedgerInformational
    BY <2>1, InformationalAnytime DEF LedgerInformational
  <2>3. LedgerNow' = LedgerNow
    BY <1>2, LedgerSame DEF RecordInformational
  <2>4. CASE events' = events \cup {n.event}
    BY <2>2, <2>3, <2>4 DEF Ledger!LedgerNext, Ledger!Note
  <2> QED BY <2>1, <2>3, <2>4 DEF RecordOnly
<1>3. ASSUME NEW h \in Handlers, Commit(h)
      PROVE  Ledger!LedgerNext
  BY <1>3, CommitProcesses DEF Ledger!LedgerNext
<1> QED
  BY <1>1, <1>2, <1>3
     DEF AppleWebhookNext, Tick, ReceiveAppleNotification, Open, AppleWebhookStep,
         SkipUnresolved, SkipStaleNotification, UpdateFromNotification,
         CreateFromNotification, Stage, StageNothing, RecordEvent, SkipDuplicateEvent,
         ExecWrite, WriteFails, Rollback, vars

(* The many steps of concurrent deliveries, repeated, reordered, rolled back *)
(* and tried again, amount to a ledger in which each notification is         *)
(* consumed once, in one step that decides from the entry as it is then.     *)
THEOREM AppleImplementsLedger == SerialAppleWebhookSpec => ImplementsLedger
<1>1. RepositoryInit => Ledger!LedgerInit
  BY DEF RepositoryInit, Ledger!LedgerInit, LedgerNow, Stored, EntryIn
<1>2. LedgerInvariant /\ [AppleWebhookNext /\ OnePerPurchase']_vars => LedgerInvariant'
  <2> SUFFICES ASSUME LedgerInvariant, [AppleWebhookNext /\ OnePerPurchase']_vars
               PROVE  LedgerInvariant'
    OBVIOUS
  <2>1. OnePerPurchase'
    BY DEF LedgerInvariant, SerialInvariant, OnePerPurchase, vars
  <2> QED BY <2>1, LedgerStep
<1>3. LedgerInvariant /\ [AppleWebhookNext /\ OnePerPurchase']_vars
      => [Ledger!LedgerNext]_<<LedgerNow, events>>
  BY LedgerSimulates
<1> QED
  BY <1>1, <1>2, <1>3, LedgerInit, PTL
     DEF SerialAppleWebhookSpec, ImplementsLedger, Ledger!LedgerSpec
=============================================================================
