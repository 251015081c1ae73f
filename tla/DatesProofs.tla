----------------------------- MODULE DatesProofs -----------------------------
(***************************************************************************)
(* The dates of the rows: no Google row is without an expiry, and the      *)
(* cancellation date of an App Store row agrees with its status, whatever  *)
(* the handlers of the service interleave.                                 *)
(***************************************************************************)
EXTENDS ServiceProofs

(* What the handlers rely on: the Play client refuses a response without an  *)
(* expiry, Apple's API has no status that is stored as cancelled, and no     *)
(* purchase is of both stores.                                               *)
StoresDate ==
  /\ \A answer \in GoogleAnswers :
       answer.outcome = "found" => answer.expiresAt # NoTime
  /\ \A answer \in AppleAnswers :
       answer.outcome = "ok" => answer.status # "cancelled"
  /\ \A n \in AppleNotifications : n.purchase \notin GooglePurchases
  /\ \A receipt \in AppleReceipts : receipt.purchase \notin GooglePurchases

(* Of Google: an expiry.  Of Apple: a cancellation date as the status says.  *)
Dated(row) ==
  IF row.purchase \in GooglePurchases THEN row.expiresAt # NoTime
  ELSE /\ row.status = "cancelled" => row.cancelledAt # NoTime
       /\ row.status = "active" => row.cancelledAt = NoTime

(* What a handler at step `at' has in hand for the row it may build.         *)
DatedJob(j, at) ==
  /\ j.kind \in {"apple_webhook", "apple_verify"} => j.purchase \notin GooglePurchases
  /\ j.kind = "apple_verify" => j.status # "cancelled"
  /\ j.kind \in {"google_webhook", "google_verify"} =>
       /\ j.purchase \in GooglePurchases
       /\ at # "call" => j.expiresAt # NoTime

RowsDated == \A r \in subs : Dated(r)
StatementsDated == \A h \in Handlers : Staged(h) => Dated(write[h].row)
JobsDated == \A h \in Handlers : DatedJob(job[h], pc[h])
DatesInvariant == RowsDated /\ StatementsDated /\ JobsDated

(* The Play client never reports a subscription without an expiry.           *)
LEMMA FoundExpires ==
  ASSUME NEW response, NEW product,
         GetGoogleSubscription(response, product).outcome = "found"
  PROVE  GetGoogleSubscription(response, product).expiresAt # NoTime
<1> DEFINE item == CHOOSE i \in LineItem(response.items, product) : TRUE
<1>1. \A outcome : NoSubscription(outcome).outcome = outcome
  BY DEF NoSubscription
<1>2. GetGoogleSubscription(response, product) = normalizeSubscriptionV2(response, product)
  BY <1>1 DEF GetGoogleSubscription
<1>3. /\ item.expiresAt # NoTime
      /\ normalizeSubscriptionV2(response, product) = Normalized(response, item)
  BY <1>1, <1>2 DEF normalizeSubscriptionV2
<1> QED
  BY <1>2, <1>3 DEF Normalized
-----------------------------------------------------------------------------
(* The rows the handlers build from what they have in hand are dated. *)
LEMMA BuiltRowsDated ==
  ASSUME NEW r \in Row, NEW j \in Job, NEW at \in Nat \ {0}, NEW step,
         Dated(r), r.purchase = j.purchase, DatedJob(j, step), step # "call"
  PROVE  /\ j.kind = "apple_webhook" => Dated(AppleApplied(r, j, at))
         /\ j.kind = "apple_verify" => Dated(AppleVerified(r, j, at))
         /\ j.kind = "google_webhook" => Dated(GoogleApplied(r, j, at))
         /\ j.kind = "google_verify" => Dated(GoogleVerified(r, j, at))
<1>1. CASE j.kind = "apple_webhook"
  BY <1>1 DEF Dated, DatedJob, AppleApplied, Row, NoTime
<1>2. CASE j.kind = "apple_verify"
  BY <1>2 DEF Dated, DatedJob, AppleVerified, Row, NoTime
<1>3. CASE j.kind = "google_webhook"
  BY <1>3 DEF Dated, DatedJob, GoogleApplied, Row, NoTime
<1>4. CASE j.kind = "google_verify"
  BY <1>4 DEF Dated, DatedJob, GoogleVerified, Row, NoTime
<1> QED
  BY <1>1, <1>2, <1>3, <1>4

(* So are the new ones. *)
LEMMA NewRowsDated ==
  ASSUME NEW id, NEW j \in Job, NEW at \in Nat \ {0}, NEW step,
         DatedJob(j, step), step # "call"
  PROVE  /\ j.kind = "apple_webhook" => Dated(AppleNewRow(id, j, at))
         /\ j.kind = "apple_verify" => Dated(AppleVerifiedRow(id, j, at))
         /\ j.kind = "google_verify" => Dated(GoogleVerifiedRow(id, j, at))
BY DEF Dated, DatedJob, AppleNewRow, AppleVerifiedRow, GoogleVerifiedRow, NoTime

(* Every statement the handlers stage is of a dated row. *)
LEMMA StagesDated ==
  ASSUME RepositoryTypeOK, RowsDated, JobsDated, NEW h \in Handlers, Stages(h)
  PROVE  \E w : Stage(h, w) /\ Dated(w.row)
<1>1. /\ job[h] \in Job /\ now \in Nat \ {0}
      /\ DatedJob(job[h], pc[h])
  BY JobType, RepositoryAssumption DEF RepositoryTypeOK, JobsDated
<1>2. \A r \in Stored(job[h].purchase) :
        r \in Row /\ Dated(r) /\ r.purchase = job[h].purchase
  BY DEF Stored, RowsDated, RepositoryTypeOK
<1>3. pc[h] # "call"
  BY DEF Stages, UpdateFromNotification, CreateFromNotification, FindsForApple,
         UpsertAppleVerified, CreateAppleVerified, FindsForAppleVerify,
         UpdateFromGoogle, FindsForGoogle,
         UpsertGoogleVerified, CreateGoogleVerified, FindsForGoogleVerify
<1>4. CASE UpdateFromNotification(h)
  <2>1. PICK r \in Stored(job[h].purchase) :
          Stage(h, [op |-> "update", row |-> AppleApplied(r, job[h], now)])
    BY <1>4 DEF UpdateFromNotification
  <2>2. Dated(AppleApplied(r, job[h], now))
    BY <1>1, <1>2, <1>3, <1>4, BuiltRowsDated DEF UpdateFromNotification, FindsForApple
  <2> QED BY <2>1, <2>2
<1>5. CASE UpsertAppleVerified(h)
  <2>1. PICK r \in Stored(job[h].purchase) :
          Stage(h, [op |-> "upsert", row |-> AppleVerified(r, job[h], now)])
    BY <1>5 DEF UpsertAppleVerified
  <2>2. Dated(AppleVerified(r, job[h], now))
    BY <1>1, <1>2, <1>3, <1>5, BuiltRowsDated DEF UpsertAppleVerified, FindsForAppleVerify
  <2> QED BY <2>1, <2>2
<1>6. CASE UpdateFromGoogle(h)
  <2>1. PICK r \in Stored(job[h].purchase) :
          Stage(h, [op |-> "update", row |-> GoogleApplied(r, job[h], now)])
    BY <1>6 DEF UpdateFromGoogle
  <2>2. Dated(GoogleApplied(r, job[h], now))
    BY <1>1, <1>2, <1>3, <1>6, BuiltRowsDated DEF UpdateFromGoogle, FindsForGoogle
  <2> QED BY <2>1, <2>2
<1>7. CASE UpsertGoogleVerified(h)
  <2>1. PICK r \in Stored(job[h].purchase) :
          Stage(h, [op |-> "upsert", row |-> GoogleVerified(r, job[h], now)])
    BY <1>7 DEF UpsertGoogleVerified
  <2>2. Dated(GoogleVerified(r, job[h], now))
    BY <1>1, <1>2, <1>3, <1>7, BuiltRowsDated DEF UpsertGoogleVerified, FindsForGoogleVerify
  <2> QED BY <2>1, <2>2
<1>8. CASE CreateFromNotification(h) \/ CreateAppleVerified(h) \/ CreateGoogleVerified(h)
  <2>1. \A id : /\ job[h].kind = "apple_webhook" => Dated(AppleNewRow(id, job[h], now))
                /\ job[h].kind = "apple_verify" => Dated(AppleVerifiedRow(id, job[h], now))
                /\ job[h].kind = "google_verify" => Dated(GoogleVerifiedRow(id, job[h], now))
    BY <1>1, <1>3, NewRowsDated
  <2>2. CASE CreateFromNotification(h)
    BY <2>1, <2>2 DEF CreateFromNotification, FindsForApple
  <2>3. CASE CreateAppleVerified(h)
    BY <2>1, <2>3 DEF CreateAppleVerified, FindsForAppleVerify
  <2>4. CASE CreateGoogleVerified(h)
    BY <2>1, <2>4 DEF CreateGoogleVerified, FindsForGoogleVerify
  <2> QED BY <1>8, <2>2, <2>3, <2>4
<1> QED
  BY <1>4, <1>5, <1>6, <1>7, <1>8 DEF Stages

(* The statements in flight stay dated. *)
LEMMA StatementsStep ==
  ASSUME RepositoryTypeOK, DatesInvariant, [ServiceNext]_vars
  PROVE  StatementsDated'
<1>1. CASE UNCHANGED write
  BY <1>1 DEF DatesInvariant, StatementsDated, Staged, Dated
<1>2. ASSUME NEW h \in Handlers, Close(h)
      PROVE  StatementsDated'
  BY <1>2 DEF Close, DatesInvariant, StatementsDated, Staged, Dated, RepositoryTypeOK
<1>3. ASSUME NEW h \in Handlers, Stages(h)
      PROVE  StatementsDated'
  <2>1. PICK w : Stage(h, w) /\ Dated(w.row)
    BY <1>3, StagesDated DEF DatesInvariant
  <2>2. /\ write'[h] = w
        /\ \A o \in Handlers \ {h} : write'[o] = write[o]
    BY <2>1 DEF Stage, RepositoryTypeOK
  <2> QED
    BY <2>1, <2>2 DEF DatesInvariant, StatementsDated, Staged, Dated
<1> QED
  BY <1>1, <1>2, <1>3, StatementsChange
-----------------------------------------------------------------------------
(* What is committed is what was staged, but for the account.                *)
LEMMA RowsStep ==
  ASSUME RepositoryInvariant, DatesInvariant, [RepositoryNext]_vars
  PROVE  RowsDated'
<1>1. CASE subs' \subseteq subs
  BY <1>1 DEF DatesInvariant, RowsDated, Dated
<1>2. CASE ~(subs' \subseteq subs)
  <2>1. PICK h \in Handlers : Step(h)
    BY <1>2 DEF RepositoryNext, RecordAlone, Tick, vars, Step
  <2>2. Commit(h) /\ Staged(h)
    BY <1>2, <2>1, TableChanges
  <2>3. PICK user \in Users :
          Persist(write[h]) =
            (subs \ WithID(write[h].row.id)) \cup {[write[h].row EXCEPT !.user = user]}
    BY <2>2, CommittedRow
  <2>4. write[h].row \in Row
    BY <2>2, StagedType DEF RepositoryInvariant
  <2>5. Dated(write[h].row) => Dated([write[h].row EXCEPT !.user = user])
    BY <2>4 DEF Dated, Row
  <2> QED
    BY <2>2, <2>3, <2>5 DEF Commit, DatesInvariant, RowsDated, StatementsDated, Dated
<1> QED
  BY <1>1, <1>2
-----------------------------------------------------------------------------
(* A request arrives with what its kind promises. *)
LEMMA ReceiveDated ==
  ASSUME StoresDate, RepositoryTypeOK, NEW h \in Handlers, Receive(h)
  PROVE  \E j, at : Open(h, j, at) /\ DatedJob(j, at)
<1>1. CASE ReceiveAppleNotification(h)
  <2>1. PICK n \in AppleNotifications : Open(h, AppleJob(n, now), "record")
    BY <1>1 DEF ReceiveAppleNotification
  <2>2. DatedJob(AppleJob(n, now), "record")
    BY DEF StoresDate, DatedJob, AppleJob, NoJob
  <2> QED BY <2>1, <2>2
<1>2. CASE ReceiveAppleVerify(h)
  <2> DEFINE at == IF AppleAPIConfigured THEN "call" ELSE "find"
             Submitted(user, receipt) ==
               [NoJob EXCEPT !.kind = "apple_verify", !.user = user,
                             !.purchase = receipt.purchase, !.status = "active",
                             !.expiresAt = receipt.expiresAt]
  <2>1. PICK user \in Users, receipt \in AppleReceipts :
          Open(h, Submitted(user, receipt), at)
    BY <1>2 DEF ReceiveAppleVerify
  <2>2. DatedJob(Submitted(user, receipt), at)
    BY DEF StoresDate, DatedJob, NoJob
  <2> QED BY <2>1, <2>2
<1>3. CASE ReceiveGoogleNotification(h)
  <2> DEFINE Pushing(n) ==
               [NoJob EXCEPT !.kind = "google_webhook", !.event = n.event,
                             !.purchase = n.purchase, !.eventAt = GoogleEventAt(n)]
  <2>1. PICK n \in GoogleNotifications : Open(h, Pushing(n), "call")
    BY <1>3 DEF ReceiveGoogleNotification
  <2>2. DatedJob(Pushing(n), "call")
    BY DEF GooglePurchases, DatedJob, NoJob
  <2> QED BY <2>1, <2>2
<1>4. CASE ReceiveGoogleVerify(h)
  <2> DEFINE Submitted(user, token) ==
               [NoJob EXCEPT !.kind = "google_verify", !.user = user, !.purchase = token]
  <2>1. PICK user \in Users, token \in GoogleTokens :
          Open(h, Submitted(user, token), "call")
    BY <1>4 DEF ReceiveGoogleVerify
  <2>2. DatedJob(Submitted(user, token), "call")
    BY DEF GooglePurchases, DatedJob, NoJob
  <2> QED BY <2>1, <2>2
<1>5. CASE ReceiveDelete(h)
  <2> DEFINE Deleting(user) ==
               [NoJob EXCEPT !.kind = "delete", !.user = user,
                             !.ids = {r.id : r \in {s \in subs : s.user = user}}]
  <2>1. PICK user \in Users : Open(h, Deleting(user), "delete")
    BY <1>5 DEF ReceiveDelete, OpenDelete
  <2>2. DatedJob(Deleting(user), "delete")
    BY DEF DatedJob, NoJob
  <2> QED BY <2>1, <2>2
<1> QED
  BY <1>1, <1>2, <1>3, <1>4, <1>5 DEF Receive

(* An answer of a store's API is one that dates the row. *)
LEMMA FetchesDated ==
  ASSUME StoresDate, RepositoryTypeOK, JobsDated, NEW h \in Handlers, Fetches(h)
  PROVE  \E j, at : Answered(h, j, at) /\ DatedJob(j, at)
<1>1. job[h] \in Job /\ DatedJob(job[h], pc[h])
  BY JobType DEF JobsDated
<1>2. CASE AppleReconciled(h, AppleAnswers)
  <2> DEFINE After(answer) == [job[h] EXCEPT !.status = answer.status,
                                             !.expiresAt = answer.expiresAt]
  <2>1. PICK answer \in AppleAnswers :
          answer.outcome = "ok" /\ Answered(h, After(answer), "find")
    BY <1>2 DEF AppleReconciled, AnswersFor
  <2>2. DatedJob(After(answer), "find")
    BY <1>1, <1>2, <2>1 DEF AppleReconciled, CallsApple, StoresDate, DatedJob, Job
  <2> QED BY <2>1, <2>2
<1>3. CASE AppleUnavailable(h, AppleAnswers)
  <2>1. Answered(h, job[h], "find") /\ job[h].kind = "apple_verify"
    BY <1>3 DEF AppleUnavailable, CallsApple
  <2>2. DatedJob(job[h], "find")
    BY <1>1, <2>1 DEF DatedJob
  <2> QED BY <2>1, <2>2
<1>4. CASE GoogleStateFetched(h, GoogleAnswers)
  <2> DEFINE After(n, answer) ==
               [job[h] EXCEPT !.status = mapGoogleStatus(n.type, answer, now),
                              !.expiresAt = answer.expiresAt,
                              !.cancelledAt = answer.cancelledAt]
  <2>1. PICK n \in NotificationOf(h), answer \in GoogleAnswers :
          answer.outcome = "found" /\ Answered(h, After(n, answer), "record")
    BY <1>4 DEF GoogleStateFetched
  <2>2. DatedJob(After(n, answer), "record")
    BY <1>1, <1>4, <2>1
       DEF GoogleStateFetched, CallsGoogleForWebhook, StoresDate, DatedJob, Job
  <2> QED BY <2>1, <2>2
<1>5. CASE GooglePurchaseFetched(h, GoogleAnswers)
  <2> DEFINE After(answer) ==
               [job[h] EXCEPT !.status = mapGoogleStatus("OTHER", answer, now),
                              !.expiresAt = answer.expiresAt]
  <2>1. PICK answer \in GoogleAnswers :
          answer.outcome = "found" /\ Answered(h, After(answer), "find")
    BY <1>5 DEF GooglePurchaseFetched
  <2>2. DatedJob(After(answer), "find")
    BY <1>1, <1>5, <2>1
       DEF GooglePurchaseFetched, CallsGoogleForVerify, StoresDate, DatedJob, Job
  <2> QED BY <2>1, <2>2
<1> QED
  BY <1>2, <1>3, <1>4, <1>5 DEF Fetches

(* What the handlers have in hand stays dated. *)
LEMMA JobsDatedStep ==
  ASSUME StoresDate, RepositoryTypeOK, DatesInvariant, [ServiceNext]_vars
  PROVE  JobsDated'
<1>1. CASE UNCHANGED <<pc, job>>
  BY <1>1 DEF DatesInvariant, JobsDated, DatedJob
<1>2. ASSUME NEW h \in Handlers, NEW j, NEW at, Open(h, j, at) \/ Answered(h, j, at),
             DatedJob(j, at)
      PROVE  JobsDated'
  BY <1>2 DEF Open, Answered, DatesInvariant, JobsDated, RepositoryTypeOK, DatedJob
<1>3. ASSUME NEW h \in Handlers, Close(h)
      PROVE  JobsDated'
  <2>1. DatedJob(NoJob, "idle")
    BY DEF DatedJob, NoJob
  <2> QED
    BY <1>3, <2>1 DEF Close, DatesInvariant, JobsDated, RepositoryTypeOK, DatedJob
<1>4. ASSUME NEW h \in Handlers, ExecDelete(h)
      PROVE  JobsDated'
  <2>1. \A o \in Handlers \ {h} : /\ job'[o] = [job[o] EXCEPT !.ids = @ \ job[h].ids]
                                  /\ pc'[o] = pc[o]
    BY <1>4 DEF ExecDelete, RepositoryTypeOK
  <2>2. job'[h] = NoJob
    BY <1>4 DEF ExecDelete
  <2>3. \A o \in Handlers \ {h} : DatedJob(job'[o], pc'[o])
    <3> SUFFICES ASSUME NEW o \in Handlers \ {h}
                 PROVE  DatedJob(job'[o], pc'[o])
      OBVIOUS
    <3>1. job[o] \in Job /\ DatedJob(job[o], pc[o])
      BY JobType DEF DatesInvariant, JobsDated
    <3>2. /\ job'[o].kind = job[o].kind /\ job'[o].purchase = job[o].purchase
          /\ job'[o].status = job[o].status /\ job'[o].expiresAt = job[o].expiresAt
      BY <2>1, <3>1 DEF Job
    <3> QED BY <2>1, <3>1, <3>2 DEF DatedJob
  <2>4. DatedJob(job'[h], pc'[h])
    BY <2>2 DEF DatedJob, NoJob
  <2> QED
    BY <2>3, <2>4 DEF JobsDated
<1>5. ASSUME NEW h \in Handlers, job' = job, pc[h] # "call",
             \A o \in Handlers \ {h} : pc'[o] = pc[o]
      PROVE  JobsDated'
  BY <1>5 DEF DatesInvariant, JobsDated, DatedJob
<1>6. ASSUME NEW h \in Handlers, Receive(h) \/ HandlerStep(h) \/ Rollback(h)
      PROVE  JobsDated'
  <2>1. CASE Receive(h)
    BY <1>2, <2>1, ReceiveDated
  <2>2. CASE Fetches(h)
    BY <1>2, <2>2, FetchesDated DEF DatesInvariant
  <2> QED
    BY <1>3, <1>4, <1>5, <1>6, <2>1, <2>2, JobsChange
<1> QED
  BY <1>1, <1>6
     DEF ServiceNext, RecordInformational, RecordNonSubscription, Tick, vars
-----------------------------------------------------------------------------
(* Initially there is nothing to date. *)
LEMMA DatesInit == RepositoryInit => DatesInvariant
BY DEF RepositoryInit, DatesInvariant, RowsDated, StatementsDated, JobsDated,
       Staged, DatedJob, NoJob

(* Rows, statements in flight and what the handlers have in hand are dated.  *)
LEMMA ServiceDates ==
  ASSUME StoresDate
  PROVE  ServiceSpec => []DatesInvariant
<1>1. RepositoryInit => DatesInvariant
  BY DatesInit
<1>2. /\ DatesInvariant /\ RepositoryInvariant
      /\ [ServiceNext]_vars /\ [RepositoryNext]_vars
      => DatesInvariant'
  BY StatementsStep, RowsStep, JobsDatedStep DEF DatesInvariant, RepositoryInvariant
<1> QED
  BY <1>1, <1>2, ServiceImplementsRepository, ServiceCorrect, PTL
     DEF ServiceSpec, RepositorySpec

(* No row of a Google purchase is without an expiry, which HasActiveAccess   *)
(* would take for access without end: it suffices that the Play client       *)
(* refuses responses without one (FoundExpires).                             *)
THEOREM ServiceGoogleRowsExpire ==
  ASSUME StoresDate
  PROVE  ServiceSpec => []GoogleRowsExpire
<1>1. DatesInvariant => GoogleRowsExpire
  BY DEF DatesInvariant, RowsDated, Dated, GoogleRowsExpire
<1> QED
  BY <1>1, ServiceDates, PTL

(* A cancelled App Store row has the date of its cancellation and an active  *)
(* one has none, though webhook and verification each write the date from    *)
(* the version of the row they have read.                                    *)
THEOREM ServiceCancellationsDated ==
  ASSUME StoresDate
  PROVE  ServiceSpec => []AppleCancellationsDated
<1>1. DatesInvariant => AppleCancellationsDated
  BY DEF DatesInvariant, RowsDated, Dated, AppleCancellationsDated
<1> QED
  BY <1>1, ServiceDates, PTL
=============================================================================
