---------------------------- MODULE ServiceProofs ----------------------------
(***************************************************************************)
(* The service only ever calls the repository's primitives in the order    *)
(* RepositorySpec allows, with well-typed data: it implements it, and so   *)
(* what RepositoryProofs shows holds of the whole service.                 *)
(***************************************************************************)
EXTENDS SubscriptionService, RepositoryProofs

(* Every status a processable Apple notification is mapped to is a status. *)
LEMMA AppleStatusType ==
  ASSUME NEW n \in AppleNotification, NEW at, mapAppleStatus(n, at) # "unhandled"
  PROVE  mapAppleStatus(n, at) \in Status
BY DEF mapAppleStatus, Status, AppleNotification, AppleType

(* Every Google state is mapped to a status. *)
LEMMA GoogleStatusType ==
  ASSUME NEW type, NEW sub \in GoogleAnswer, NEW at
  PROVE  mapGoogleStatus(type, sub, at) \in Status
<1>1. FallbackStatus(type) \in Status
  BY DEF FallbackStatus, Status
<1>2. sub.state \in GoogleState
  BY DEF GoogleAnswer
<1> QED
  BY <1>1, <1>2 DEF mapGoogleStatus, Status, GoogleState

(* The rows the handlers build are rows of the same id and purchase. *)
LEMMA BuiltRows ==
  ASSUME NEW r \in Row, NEW j \in Job, NEW at \in Nat
  PROVE  /\ AppleApplied(r, j, at) \in Row
         /\ AppleApplied(r, j, at).id = r.id
         /\ AppleApplied(r, j, at).purchase = r.purchase
         /\ GoogleApplied(r, j, at) \in Row
         /\ GoogleApplied(r, j, at).id = r.id
         /\ GoogleApplied(r, j, at).purchase = r.purchase
         /\ j.user # Nil =>
              /\ AppleVerified(r, j, at) \in Row
              /\ AppleVerified(r, j, at).id = r.id
              /\ AppleVerified(r, j, at).purchase = r.purchase
              /\ GoogleVerified(r, j, at) \in Row
              /\ GoogleVerified(r, j, at).id = r.id
              /\ GoogleVerified(r, j, at).purchase = r.purchase
<1>1. /\ j.status \in Status /\ j.expiresAt \in Nat /\ j.eventAt \in Nat
      /\ j.cancelledAt \in Nat /\ j.user \in Users \cup {Nil}
  BY DEF Job
<1>2. /\ r.lastEventAt \in Nat /\ r.cancelledAt \in Nat /\ NoTime \in Nat
  BY DEF Row, NoTime
<1>3. /\ AppleApplied(r, j, at) \in Row
      /\ AppleApplied(r, j, at).id = r.id
      /\ AppleApplied(r, j, at).purchase = r.purchase
  BY <1>1, <1>2 DEF AppleApplied, Row
<1>4. /\ GoogleApplied(r, j, at) \in Row
      /\ GoogleApplied(r, j, at).id = r.id
      /\ GoogleApplied(r, j, at).purchase = r.purchase
  BY <1>1, <1>2 DEF GoogleApplied, Row
<1>5. ASSUME j.user # Nil
      PROVE  /\ AppleVerified(r, j, at) \in Row
             /\ AppleVerified(r, j, at).id = r.id
             /\ AppleVerified(r, j, at).purchase = r.purchase
  BY <1>1, <1>2, <1>5 DEF AppleVerified, Row
<1>6. ASSUME j.user # Nil
      PROVE  /\ GoogleVerified(r, j, at) \in Row
             /\ GoogleVerified(r, j, at).id = r.id
             /\ GoogleVerified(r, j, at).purchase = r.purchase
  BY <1>1, <1>2, <1>6 DEF GoogleVerified, Row
<1> QED
  BY <1>3, <1>4, <1>5, <1>6

(* New rows have a row's type, and the id they were given. *)
LEMMA NewRows ==
  ASSUME NEW id \in RowIDs, NEW j \in Job, NEW at \in Nat,
         j.user # Nil, j.purchase # Nil
  PROVE  /\ AppleNewRow(id, j, at) \in Row /\ AppleNewRow(id, j, at).id = id
         /\ AppleVerifiedRow(id, j, at) \in Row /\ AppleVerifiedRow(id, j, at).id = id
         /\ GoogleVerifiedRow(id, j, at) \in Row /\ GoogleVerifiedRow(id, j, at).id = id
BY DEF AppleNewRow, AppleVerifiedRow, GoogleVerifiedRow, Job, Row, NoTime
-----------------------------------------------------------------------------
(* Each arrival of a request is one the repository's client may make. *)
LEMMA ReceiveOpens ==
  ASSUME RepositoryTypeOK, NEW h \in Handlers, Receive(h)
  PROVE  OpenRequest(h) \/ \E user \in Users : OpenDelete(h, user)
<1>1. CASE ReceiveAppleNotification(h)
  <2>1. PICK n \in AppleNotifications :
          AppleProcessable(n, now) /\ Open(h, AppleJob(n, now), "record")
    BY <1>1 DEF ReceiveAppleNotification
  <2>2. n \in AppleNotification
    BY AppleWebhookAssumption
  <2>3. mapAppleStatus(n, now) \in Status
    BY <2>1, <2>2, AppleStatusType DEF AppleProcessable
  <2>4. AppleEventAt(n) \in Nat
    BY <2>2 DEF AppleEventAt, AppleNotification
  <2>5. /\ AppleJob(n, now) \in Job
        /\ AppleJob(n, now).ids = {}
        /\ AppleJob(n, now).event \in EventIDs
    BY <2>2, <2>3, <2>4, NoJobType DEF AppleJob, NoJob, Job, Kind, AppleNotification
  <2> QED
    BY <2>1, <2>5, RepositoryAssumption DEF OpenRequest, EventBefore
<1>2. CASE ReceiveAppleVerify(h)
  <2>1. PICK user \in Users, receipt \in AppleReceipts :
          Open(h, [NoJob EXCEPT !.kind = "apple_verify", !.user = user,
                                !.purchase = receipt.purchase, !.status = "active",
                                !.expiresAt = receipt.expiresAt],
               IF AppleAPIConfigured THEN "call" ELSE "find")
    BY <1>2 DEF ReceiveAppleVerify
  <2>2. receipt.purchase \in Purchases /\ receipt.expiresAt \in Nat
    BY ApplePurchaseAssumption DEF AppleReceipt
  <2> DEFINE j == [NoJob EXCEPT !.kind = "apple_verify", !.user = user,
                                !.purchase = receipt.purchase, !.status = "active",
                                !.expiresAt = receipt.expiresAt]
  <2>3. j \in Job /\ j.ids = {} /\ j.event = Nil
    BY <2>2, NoJobType DEF NoJob, Job, Kind, Status
  <2> QED
    BY <2>1, <2>3 DEF OpenRequest, EventBefore
<1>3. CASE ReceiveGoogleNotification(h)
  <2>1. PICK n \in GoogleNotifications :
          Open(h, [NoJob EXCEPT !.kind = "google_webhook", !.event = n.event,
                                !.purchase = n.purchase,
                                !.eventAt = GoogleEventAt(n)], "call")
    BY <1>3 DEF ReceiveGoogleNotification
  <2>2. n \in GoogleNotification
    BY GoogleWebhookAssumption
  <2> DEFINE j == [NoJob EXCEPT !.kind = "google_webhook", !.event = n.event,
                                !.purchase = n.purchase,
                                !.eventAt = GoogleEventAt(n)]
  <2>3. GoogleEventAt(n) \in Nat
    BY <2>2 DEF GoogleEventAt, GoogleNotification
  <2>4. j \in Job /\ j.ids = {}
    BY <2>2, <2>3, NoJobType DEF NoJob, Job, Kind, GoogleNotification
  <2> QED
    BY <2>1, <2>4 DEF OpenRequest, EventBefore
<1>4. CASE ReceiveGoogleVerify(h)
  <2>1. PICK user \in Users, token \in GoogleTokens :
          Open(h, [NoJob EXCEPT !.kind = "google_verify", !.user = user,
                                !.purchase = token], "call")
    BY <1>4 DEF ReceiveGoogleVerify
  <2> DEFINE j == [NoJob EXCEPT !.kind = "google_verify", !.user = user,
                                !.purchase = token]
  <2>2. j \in Job /\ j.ids = {}
    BY GooglePurchaseAssumption, NoJobType DEF NoJob, Job, Kind
  <2> QED
    BY <2>1, <2>2 DEF OpenRequest, EventBefore
<1> QED
  BY <1>1, <1>2, <1>3, <1>4 DEF Receive, ReceiveDelete

(* A stored row, and what it takes to stage a statement that overwrites it. *)
LEMMA StoredType ==
  ASSUME RepositoryTypeOK, NEW h \in Handlers, NEW r \in Stored(job[h].purchase)
  PROVE  r \in subs /\ r \in Row /\ job[h] \in Job /\ now \in Nat
BY RepositoryAssumption DEF RepositoryTypeOK, Stored

(* Each step of an Apple webhook is a primitive of the repository's client. *)
LEMMA AppleWebhookStages ==
  ASSUME RepositoryTypeOK, JobsMatchKinds, NEW h \in Handlers, AppleWebhookStep(h)
  PROVE  ClientStep(h)
<1>1. CASE SkipUnresolved(h) \/ SkipStaleNotification(h)
  BY <1>1 DEF SkipUnresolved, SkipStaleNotification, ClientStep
<1>2. CASE UpdateFromNotification(h)
  <2>1. PICK existing \in Stored(job[h].purchase) :
          Stage(h, [op |-> "update", row |-> AppleApplied(existing, job[h], now)])
    BY <1>2 DEF UpdateFromNotification
  <2>2. StageUpdate(h)
    <3> DEFINE row == AppleApplied(existing, job[h], now)
    <3>1. /\ row \in Row /\ existing \in subs
          /\ row.id = existing.id /\ row.purchase = existing.purchase
      BY StoredType, BuiltRows
    <3> QED BY <2>1, <3>1 DEF StageUpdate
  <2> QED
    BY <2>2 DEF ClientStep
<1>3. CASE CreateFromNotification(h)
  <2>1. PICK id \in FreshIDs :
          Stage(h, [op |-> "create", row |-> AppleNewRow(id, job[h], now)])
    BY <1>3 DEF CreateFromNotification
  <2>2. job[h].user # Nil /\ job[h].purchase # Nil /\ id \in RowIDs /\ now \in Nat
    BY <1>3, RepositoryAssumption
       DEF CreateFromNotification, FindsForApple, JobsMatchKinds, MatchesKind, Webhooks, FreshIDs,
           RepositoryTypeOK
  <2>3. StageCreate(h)
    BY <2>1, <2>2, JobType, NewRows DEF StageCreate
  <2> QED
    BY <2>3 DEF ClientStep
<1> QED
  BY <1>1, <1>2, <1>3 DEF AppleWebhookStep

(* Each step of an Apple verification is one too, or gives up. *)
LEMMA ApplePurchaseStages ==
  ASSUME RepositoryTypeOK, JobsMatchKinds, NEW h \in Handlers,
         ApplePurchaseStep(h, AppleAnswers)
  PROVE  ClientStep(h) \/ Rollback(h)
<1>1. ASSUME job[h].kind = "apple_verify"
      PROVE  job[h].event = Nil /\ job[h].user # Nil /\ job[h].purchase # Nil
  BY <1>1 DEF JobsMatchKinds, MatchesKind, Verifications
<1>2. CASE AppleReconciled(h, AppleAnswers)
  <2>1. PICK answer \in AppleAnswers :
          Answered(h, [job[h] EXCEPT !.status = answer.status,
                                     !.expiresAt = answer.expiresAt], "find")
    BY <1>2 DEF AppleReconciled, AnswersFor
  <2> DEFINE j == [job[h] EXCEPT !.status = answer.status,
                                 !.expiresAt = answer.expiresAt]
  <2>2. answer.expiresAt \in Nat /\ answer.status \in Status
    BY ApplePurchaseAssumption DEF AppleAnswer
  <2>3. j \in Job /\ j.ids = job[h].ids /\ j.event = job[h].event
    BY <2>2, JobType DEF Job
  <2>4. j.event = Nil
    BY <1>1, <1>2, <2>3 DEF AppleReconciled, CallsApple
  <2> QED
    BY <2>1, <2>3, <2>4 DEF Reply, EventBefore, ClientStep
<1>3. CASE AppleUnavailable(h, AppleAnswers)
  BY <1>1, <1>3, JobType
     DEF AppleUnavailable, CallsApple, Reply, EventBefore, ClientStep
<1>4. CASE AppleRefused(h, AppleAnswers)
  BY <1>4 DEF AppleRefused, CallsApple, Rollback
<1>5. CASE UpsertAppleVerified(h)
  <2>1. PICK existing \in Stored(job[h].purchase) :
          Stage(h, [op |-> "upsert", row |-> AppleVerified(existing, job[h], now)])
    BY <1>5 DEF UpsertAppleVerified
  <2>2. job[h].user # Nil
    BY <1>1, <1>5 DEF UpsertAppleVerified, FindsForAppleVerify
  <2>3. StageUpsert(h)
    <3> DEFINE row == AppleVerified(existing, job[h], now)
    <3>1. /\ row \in Row /\ existing \in subs
          /\ row.id = existing.id /\ row.purchase = existing.purchase
      BY <2>2, StoredType, BuiltRows
    <3> QED BY <2>1, <3>1 DEF StageUpsert
  <2> QED
    BY <2>3 DEF ClientStep
<1>6. CASE CreateAppleVerified(h)
  <2>1. PICK id \in FreshIDs :
          Stage(h, [op |-> "create", row |-> AppleVerifiedRow(id, job[h], now)])
    BY <1>6 DEF CreateAppleVerified
  <2>2. job[h].user # Nil /\ job[h].purchase # Nil
    BY <1>1, <1>6 DEF CreateAppleVerified, FindsForAppleVerify
  <2>3. id \in RowIDs /\ now \in Nat
    BY RepositoryAssumption DEF FreshIDs, RepositoryTypeOK
  <2>4. StageCreate(h)
    BY <2>1, <2>2, <2>3, JobType, NewRows DEF StageCreate
  <2> QED
    BY <2>4 DEF ClientStep
<1> QED
  BY <1>2, <1>3, <1>4, <1>5, <1>6 DEF ApplePurchaseStep

(* So is each step of a Google webhook. *)
LEMMA GoogleWebhookStages ==
  ASSUME RepositoryTypeOK, JobsMatchKinds, NEW h \in Handlers,
         GoogleWebhookStep(h, GoogleAnswers)
  PROVE  ClientStep(h) \/ Rollback(h)
<1>1. ASSUME job[h].kind = "google_webhook"
      PROVE  job[h].event # Nil
  BY <1>1 DEF JobsMatchKinds, MatchesKind, Webhooks
<1>2. CASE GoogleStateFetched(h, GoogleAnswers)
  <2>1. PICK n \in NotificationOf(h), answer \in GoogleAnswers :
          Answered(h, [job[h] EXCEPT !.status = mapGoogleStatus(n.type, answer, now),
                                     !.expiresAt = answer.expiresAt,
                                     !.cancelledAt = answer.cancelledAt], "record")
    BY <1>2 DEF GoogleStateFetched
  <2> DEFINE j == [job[h] EXCEPT !.status = mapGoogleStatus(n.type, answer, now),
                                 !.expiresAt = answer.expiresAt,
                                 !.cancelledAt = answer.cancelledAt]
  <2>2. /\ mapGoogleStatus(n.type, answer, now) \in Status
        /\ answer.expiresAt \in Nat /\ answer.cancelledAt \in Nat
    BY GoogleWebhookAssumption, GoogleStatusType DEF GoogleAnswer
  <2>3. j \in Job /\ j.ids = job[h].ids /\ j.event = job[h].event
    BY <2>2, JobType DEF Job
  <2>4. j.event # Nil
    BY <1>1, <1>2, <2>3 DEF GoogleStateFetched, CallsGoogleForWebhook
  <2> QED
    BY <2>1, <2>3, <2>4 DEF Reply, EventBefore, ClientStep
<1>3. CASE GoogleStateMissing(h, GoogleAnswers)
  BY <1>1, <1>3 DEF GoogleStateMissing, CallsGoogleForWebhook, ReplyRecording, ClientStep
<1>4. CASE GoogleStateFailed(h, GoogleAnswers)
  BY <1>4 DEF GoogleStateFailed, CallsGoogleForWebhook, Rollback
<1>5. CASE SkipUnknownToken(h) \/ SkipStaleGoogle(h)
  BY <1>5 DEF SkipUnknownToken, SkipStaleGoogle, ClientStep
<1>6. CASE UpdateFromGoogle(h)
  <2>1. PICK existing \in Stored(job[h].purchase) :
          Stage(h, [op |-> "update", row |-> GoogleApplied(existing, job[h], now)])
    BY <1>6 DEF UpdateFromGoogle
  <2>2. StageUpdate(h)
    <3> DEFINE row == GoogleApplied(existing, job[h], now)
    <3>1. /\ row \in Row /\ existing \in subs
          /\ row.id = existing.id /\ row.purchase = existing.purchase
      BY StoredType, BuiltRows
    <3> QED BY <2>1, <3>1 DEF StageUpdate
  <2> QED
    BY <2>2 DEF ClientStep
<1> QED
  BY <1>2, <1>3, <1>4, <1>5, <1>6 DEF GoogleWebhookStep

(* And each step of a Google verification. *)
LEMMA GooglePurchaseStages ==
  ASSUME RepositoryTypeOK, JobsMatchKinds, NEW h \in Handlers,
         GooglePurchaseStep(h, GoogleAnswers)
  PROVE  ClientStep(h) \/ Rollback(h)
<1>1. ASSUME job[h].kind = "google_verify"
      PROVE  job[h].event = Nil /\ job[h].user # Nil /\ job[h].purchase # Nil
  BY <1>1 DEF JobsMatchKinds, MatchesKind, Verifications
<1>2. CASE GooglePurchaseFetched(h, GoogleAnswers)
  <2>1. PICK answer \in GoogleAnswers :
          Answered(h, [job[h] EXCEPT !.status = mapGoogleStatus("OTHER", answer, now),
                                     !.expiresAt = answer.expiresAt], "find")
    BY <1>2 DEF GooglePurchaseFetched
  <2> DEFINE j == [job[h] EXCEPT !.status = mapGoogleStatus("OTHER", answer, now),
                                 !.expiresAt = answer.expiresAt]
  <2>2. mapGoogleStatus("OTHER", answer, now) \in Status /\ answer.expiresAt \in Nat
    BY GoogleWebhookAssumption, GoogleStatusType DEF GoogleAnswer
  <2>3. j \in Job /\ j.ids = job[h].ids /\ j.event = job[h].event
    BY <2>2, JobType DEF Job
  <2>4. j.event = Nil
    BY <1>1, <1>2, <2>3 DEF GooglePurchaseFetched, CallsGoogleForVerify
  <2> QED
    BY <2>1, <2>3, <2>4 DEF Reply, EventBefore, ClientStep
<1>3. CASE GooglePurchaseRefused(h, GoogleAnswers)
  BY <1>3 DEF GooglePurchaseRefused, CallsGoogleForVerify, Rollback
<1>4. CASE UpsertGoogleVerified(h)
  <2>1. PICK existing \in Stored(job[h].purchase) :
          Stage(h, [op |-> "upsert", row |-> GoogleVerified(existing, job[h], now)])
    BY <1>4 DEF UpsertGoogleVerified
  <2>2. job[h].user # Nil
    BY <1>1, <1>4 DEF UpsertGoogleVerified, FindsForGoogleVerify
  <2>3. StageUpsert(h)
    <3> DEFINE row == GoogleVerified(existing, job[h], now)
    <3>1. /\ row \in Row /\ existing \in subs
          /\ row.id = existing.id /\ row.purchase = existing.purchase
      BY <2>2, StoredType, BuiltRows
    <3> QED BY <2>1, <3>1 DEF StageUpsert
  <2> QED
    BY <2>3 DEF ClientStep
<1>5. CASE CreateGoogleVerified(h)
  <2>1. PICK id \in FreshIDs :
          Stage(h, [op |-> "create", row |-> GoogleVerifiedRow(id, job[h], now)])
    BY <1>5 DEF CreateGoogleVerified
  <2>2. job[h].user # Nil /\ job[h].purchase # Nil
    BY <1>1, <1>5 DEF CreateGoogleVerified, FindsForGoogleVerify
  <2>3. id \in RowIDs /\ now \in Nat
    BY RepositoryAssumption DEF FreshIDs, RepositoryTypeOK
  <2>4. StageCreate(h)
    BY <2>1, <2>2, <2>3, JobType, NewRows DEF StageCreate
  <2> QED
    BY <2>4 DEF ClientStep
<1> QED
  BY <1>2, <1>3, <1>4, <1>5 DEF GooglePurchaseStep
-----------------------------------------------------------------------------
(* A handler's job keeps what its kind says of it as long as nothing but its *)
(* status, dates and ids change.                                             *)
SameRequest(j, k) ==
  /\ j.kind = k.kind /\ j.event = k.event
  /\ j.user = k.user /\ j.purchase = k.purchase

(* Opening a request with such a job keeps every job such. *)
LEMMA OpenMatches ==
  ASSUME RepositoryTypeOK, JobsMatchKinds, NEW h \in Handlers, NEW j, NEW at,
         Open(h, j, at), MatchesKind(j)
  PROVE  JobsMatchKinds'
BY DEF RepositoryTypeOK, JobsMatchKinds, Open, MatchesKind

(* Each kind of request arrives with what its kind promises. *)
LEMMA ReceiveMatches ==
  ASSUME RepositoryTypeOK, JobsMatchKinds, NEW h \in Handlers, Receive(h)
  PROVE  JobsMatchKinds'
<1> USE DEF Webhooks, Verifications
<1>1. CASE ReceiveAppleNotification(h)
  <2>1. PICK n \in AppleNotifications : Open(h, AppleJob(n, now), "record")
    BY <1>1 DEF ReceiveAppleNotification
  <2>2. n.event # Nil /\ n.purchase # Nil
    BY AppleWebhookAssumption, RepositoryAssumption DEF AppleNotification
  <2>3. MatchesKind(AppleJob(n, now))
    BY <2>2 DEF MatchesKind, AppleJob, NoJob
  <2> QED
    BY <2>1, <2>3, OpenMatches
<1>2. CASE ReceiveAppleVerify(h)
  <2>1. PICK user \in Users, receipt \in AppleReceipts :
          Open(h, [NoJob EXCEPT !.kind = "apple_verify", !.user = user,
                                !.purchase = receipt.purchase, !.status = "active",
                                !.expiresAt = receipt.expiresAt],
               IF AppleAPIConfigured THEN "call" ELSE "find")
    BY <1>2 DEF ReceiveAppleVerify
  <2> DEFINE j == [NoJob EXCEPT !.kind = "apple_verify", !.user = user,
                                !.purchase = receipt.purchase, !.status = "active",
                                !.expiresAt = receipt.expiresAt]
  <2>2. receipt.purchase # Nil /\ user # Nil
    BY ApplePurchaseAssumption, RepositoryAssumption DEF AppleReceipt
  <2>3. MatchesKind(j)
    BY <2>2 DEF MatchesKind, NoJob
  <2> QED
    BY <2>1, <2>3, OpenMatches
<1>3. CASE ReceiveGoogleNotification(h)
  <2>1. PICK n \in GoogleNotifications :
          Open(h, [NoJob EXCEPT !.kind = "google_webhook", !.event = n.event,
                                !.purchase = n.purchase,
                                !.eventAt = GoogleEventAt(n)], "call")
    BY <1>3 DEF ReceiveGoogleNotification
  <2> DEFINE j == [NoJob EXCEPT !.kind = "google_webhook", !.event = n.event,
                                !.purchase = n.purchase,
                                !.eventAt = GoogleEventAt(n)]
  <2>2. n.event # Nil /\ n.purchase # Nil
    BY GoogleWebhookAssumption, RepositoryAssumption DEF GoogleNotification
  <2>3. MatchesKind(j)
    BY <2>2 DEF MatchesKind, NoJob
  <2> QED
    BY <2>1, <2>3, OpenMatches
<1>4. CASE ReceiveGoogleVerify(h)
  <2>1. PICK user \in Users, token \in GoogleTokens :
          Open(h, [NoJob EXCEPT !.kind = "google_verify", !.user = user,
                                !.purchase = token], "call")
    BY <1>4 DEF ReceiveGoogleVerify
  <2> DEFINE j == [NoJob EXCEPT !.kind = "google_verify", !.user = user,
                                !.purchase = token]
  <2>2. token # Nil /\ user # Nil
    BY GooglePurchaseAssumption, RepositoryAssumption
  <2>3. MatchesKind(j)
    BY <2>2 DEF MatchesKind, NoJob
  <2> QED
    BY <2>1, <2>3, OpenMatches
<1>5. CASE ReceiveDelete(h)
  <2>1. PICK user \in Users : OpenDelete(h, user)
    BY <1>5 DEF ReceiveDelete
  <2> DEFINE j == [NoJob EXCEPT !.kind = "delete", !.user = user,
                                !.ids = {r.id : r \in {s \in subs : s.user = user}}]
  <2>2. MatchesKind(j)
    BY DEF MatchesKind, NoJob
  <2> QED
    BY <2>1, <2>2, OpenMatches DEF OpenDelete
<1> QED
  BY <1>1, <1>2, <1>3, <1>4, <1>5 DEF Receive

(* A step that leaves every job with its request, or takes it away. *)
LEMMA KeptMatches ==
  ASSUME JobsMatchKinds,
         \A o \in Handlers : SameRequest(job'[o], job[o]) \/ job'[o] = NoJob
  PROVE  JobsMatchKinds'
<1>1. MatchesKind(NoJob)
  BY DEF MatchesKind, NoJob, Webhooks, Verifications
<1>2. ASSUME NEW o \in Handlers, SameRequest(job'[o], job[o])
      PROVE  MatchesKind(job'[o])
  BY <1>2 DEF SameRequest, MatchesKind, JobsMatchKinds
<1> QED
  BY <1>1, <1>2 DEF JobsMatchKinds

(* The steps of a handler change no request but to end it. *)
LEMMA StepKeepsRequests ==
  ASSUME RepositoryTypeOK, NEW h \in Handlers, HandlerStep(h) \/ Rollback(h),
         NEW o \in Handlers
  PROVE  SameRequest(job'[o], job[o]) \/ job'[o] = NoJob
<1> USE DEF SameRequest
<1>1. CASE Close(h)
  BY <1>1 DEF Close, RepositoryTypeOK
<1>2. CASE UNCHANGED job
  BY <1>2
<1>3. ASSUME NEW status, NEW expiresAt, NEW cancelledAt, NEW at,
             Answered(h, [job[h] EXCEPT !.status = status, !.expiresAt = expiresAt,
                                        !.cancelledAt = cancelledAt], at)
      PROVE  SameRequest(job'[o], job[o])
  BY <1>3, JobType DEF Answered, Job, RepositoryTypeOK
<1>4. ASSUME NEW status, NEW expiresAt, NEW at,
             Answered(h, [job[h] EXCEPT !.status = status, !.expiresAt = expiresAt], at)
      PROVE  SameRequest(job'[o], job[o])
  BY <1>4, JobType DEF Answered, Job, RepositoryTypeOK
<1>5. CASE AppleWebhookStep(h)
  BY <1>2, <1>5 DEF AppleWebhookStep, SkipUnresolved, SkipStaleNotification,
                    UpdateFromNotification, CreateFromNotification, StageNothing, Stage
<1>6. CASE ApplePurchaseStep(h, AppleAnswers)
  <2>1. CASE AppleReconciled(h, AppleAnswers)
    BY <1>4, <2>1 DEF AppleReconciled
  <2>2. CASE AppleUnavailable(h, AppleAnswers)
    BY <2>2 DEF AppleUnavailable, Answered, RepositoryTypeOK
  <2> QED
    BY <1>1, <1>2, <1>6, <2>1, <2>2
       DEF ApplePurchaseStep, AppleRefused, UpsertAppleVerified, CreateAppleVerified, Stage
<1>7. CASE GoogleWebhookStep(h, GoogleAnswers)
  <2>1. CASE GoogleStateFetched(h, GoogleAnswers)
    BY <1>3, <2>1 DEF GoogleStateFetched
  <2> QED
    BY <1>1, <1>2, <1>7, <2>1
       DEF GoogleWebhookStep, GoogleStateMissing, GoogleStateFailed, SkipUnknownToken,
           SkipStaleGoogle, UpdateFromGoogle, StageNothing, Stage
<1>8. CASE GooglePurchaseStep(h, GoogleAnswers)
  <2>1. CASE GooglePurchaseFetched(h, GoogleAnswers)
    BY <1>4, <2>1 DEF GooglePurchaseFetched
  <2> QED
    BY <1>1, <1>2, <1>8, <2>1
       DEF GooglePurchaseStep, GooglePurchaseRefused, UpsertGoogleVerified,
           CreateGoogleVerified, Stage
<1>9. CASE RepositoryStep(h)
  <2>1. CASE ExecDelete(h)
    BY <2>1, JobType DEF ExecDelete, Job, RepositoryTypeOK
  <2> QED
    BY <1>1, <1>2, <1>9, <2>1
       DEF RepositoryStep, GoOn, Conclude, RecordEvent, SkipDuplicateEvent,
           ExecWrite, WriteFails, Commit
<1> QED
  BY <1>1, <1>5, <1>6, <1>7, <1>8, <1>9
     DEF HandlerStep, Proceed, RepositoryStep, Rollback
-----------------------------------------------------------------------------
(* The steps that build a statement, and those that take a store's answer.   *)
Stages(h) ==
  \/ UpdateFromNotification(h) \/ CreateFromNotification(h)
  \/ UpsertAppleVerified(h) \/ CreateAppleVerified(h)
  \/ UpdateFromGoogle(h)
  \/ UpsertGoogleVerified(h) \/ CreateGoogleVerified(h)

Fetches(h) ==
  \/ AppleReconciled(h, AppleAnswers) \/ AppleUnavailable(h, AppleAnswers)
  \/ GoogleStateFetched(h, GoogleAnswers) \/ GooglePurchaseFetched(h, GoogleAnswers)

(* A step that stages nothing leaves the statements alone or ends one.       *)
LEMMA StatementsChange ==
  ASSUME RepositoryTypeOK, [ServiceNext]_vars
  PROVE  \/ UNCHANGED write
         \/ \E h \in Handlers : Close(h) \/ Stages(h)
<1>1. ASSUME NEW h \in Handlers, Proceed(h, AppleAnswers, GoogleAnswers)
      PROVE  UNCHANGED write \/ Close(h) \/ Stages(h)
  BY <1>1
     DEF Proceed, Stages, AppleWebhookStep, SkipUnresolved, SkipStaleNotification,
         ApplePurchaseStep, AppleReconciled, AppleUnavailable, AppleRefused,
         GoogleWebhookStep, GoogleStateFetched, GoogleStateMissing, GoogleStateFailed,
         SkipUnknownToken, SkipStaleGoogle, GooglePurchaseStep, GooglePurchaseFetched,
         GooglePurchaseRefused, GoOn, RecordEvent, ExecWrite, WriteFails,
         StageNothing, Answered
<1>2. ASSUME NEW h \in Handlers, Conclude(h) \/ Rollback(h)
      PROVE  UNCHANGED write \/ Close(h)
  BY <1>2 DEF Conclude, SkipDuplicateEvent, Commit, ExecDelete, Rollback
<1>3. ASSUME NEW h \in Handlers, Receive(h)
      PROVE  UNCHANGED write
  BY <1>3 DEF Receive, ReceiveAppleNotification, ReceiveAppleVerify, ReceiveGoogleNotification,
              ReceiveGoogleVerify, ReceiveDelete, OpenDelete, Open
<1> QED
  BY <1>1, <1>2, <1>3
     DEF ServiceNext, HandlerStep, RecordInformational, RecordNonSubscription, Tick, vars

(* Every other step of a handler leaves its job as it was, or ends it.       *)
LEMMA JobsChange ==
  ASSUME RepositoryTypeOK, NEW h \in Handlers, HandlerStep(h) \/ Rollback(h)
  PROVE  \/ Close(h) \/ Fetches(h) \/ ExecDelete(h)
         \/ /\ job' = job
            /\ pc[h] # "call"
            /\ \A o \in Handlers \ {h} : pc'[o] = pc[o]
<1>1. CASE Proceed(h, AppleAnswers, GoogleAnswers)
  <2>1. CASE Stages(h)
    BY <2>1
       DEF Stages, UpdateFromNotification, CreateFromNotification, UpsertAppleVerified,
           CreateAppleVerified, UpdateFromGoogle, UpsertGoogleVerified,
           CreateGoogleVerified, Stage, RepositoryTypeOK
  <2>2. CASE RecordEvent(h) \/ ExecWrite(h) \/ WriteFails(h) \/ StageNothing(h)
    BY <2>2 DEF RecordEvent, ExecWrite, WriteFails, StageNothing, RepositoryTypeOK
  <2> QED
    BY <1>1, <2>1, <2>2
       DEF Proceed, GoOn, Stages, Fetches, AppleWebhookStep, SkipUnresolved,
           SkipStaleNotification, ApplePurchaseStep, AppleRefused, GoogleWebhookStep,
           GoogleStateMissing, GoogleStateFailed, SkipUnknownToken, SkipStaleGoogle,
           GooglePurchaseStep, GooglePurchaseRefused
<1>2. CASE Conclude(h) \/ Rollback(h)
  BY <1>2 DEF Conclude, SkipDuplicateEvent, Commit, Rollback
<1> QED
  BY <1>1, <1>2 DEF HandlerStep
-----------------------------------------------------------------------------
(* Every step of the service is one of the repository's specification. *)
LEMMA ServiceStep ==
  ASSUME RepositoryTypeOK, JobsMatchKinds, [ServiceNext]_vars
  PROVE  [RepositoryNext]_vars
<1>1. CASE RecordInformational \/ RecordNonSubscription
  <2>1. RecordAlone
    BY <1>1, AppleWebhookAssumption, GoogleWebhookAssumption
       DEF RecordInformational, RecordNonSubscription, RecordAlone,
           AppleNotification, GoogleNotification
  <2> QED
    BY <2>1 DEF RepositoryNext
<1>2. ASSUME NEW h \in Handlers, Receive(h)
      PROVE  RepositoryNext
  <2>1. ClientStep(h)
    BY <1>2, ReceiveOpens DEF ClientStep
  <2> QED
    BY <2>1 DEF RepositoryNext
<1>3. ASSUME NEW h \in Handlers, HandlerStep(h)
      PROVE  RepositoryNext
  <2>1. ClientStep(h) \/ RepositoryStep(h) \/ Rollback(h)
    BY <1>3, AppleWebhookStages, ApplePurchaseStages, GoogleWebhookStages,
       GooglePurchaseStages DEF HandlerStep, Proceed, RepositoryStep
  <2> QED
    BY <2>1 DEF RepositoryNext
<1> QED
  BY <1>1, <1>2, <1>3 DEF ServiceNext, RepositoryNext

(* The jobs match their kinds after every step of the service. *)
LEMMA JobsStep ==
  ASSUME RepositoryTypeOK, JobsMatchKinds, [ServiceNext]_vars
  PROVE  JobsMatchKinds'
<1>1. CASE UNCHANGED job
  BY <1>1 DEF JobsMatchKinds, MatchesKind
<1>2. ASSUME NEW h \in Handlers, HandlerStep(h) \/ Rollback(h)
      PROVE  JobsMatchKinds'
  BY <1>2, StepKeepsRequests, KeptMatches
<1> QED
  BY <1>1, <1>2, ReceiveMatches
     DEF ServiceNext, RecordInformational, RecordNonSubscription, Tick, vars

(* Initially no handler has a request. *)
LEMMA JobsInit == RepositoryInit => JobsMatchKinds
BY DEF RepositoryInit, JobsMatchKinds, MatchesKind, NoJob, Webhooks, Verifications

(* The whole service, both webhooks, both verifications and the account      *)
(* cleanup, uses the database as RepositorySpec describes: events before     *)
(* reads, new ids for new rows, rows overwritten only after they were read.  *)
THEOREM ServiceImplementsRepository == ServiceSpec => RepositorySpec
<1>1. RepositoryInit => RepositoryTypeOK /\ JobsMatchKinds
  BY TypeInit, JobsInit
<1>2. RepositoryTypeOK /\ JobsMatchKinds /\ [ServiceNext]_vars
      => (RepositoryTypeOK /\ JobsMatchKinds)'
  BY ServiceStep, TypeStep, JobsStep
<1>3. RepositoryTypeOK /\ JobsMatchKinds /\ [ServiceNext]_vars => [RepositoryNext]_vars
  BY ServiceStep
<1> QED
  BY <1>1, <1>2, <1>3, PTL DEF ServiceSpec, RepositorySpec

(* Types, one row per purchase, events held once, and statements that hold   *)
(* once sent: whatever the handlers of the service interleave.               *)
THEOREM ServiceCorrect == ServiceSpec => []RepositoryInvariant
BY ServiceImplementsRepository, RepositoryCorrect, PTL

(* No two rows of the service carry the same purchase. *)
THEOREM ServiceOneRowPerPurchase == ServiceSpec => []OneRowPerPurchase
<1>1. RepositoryInvariant => OneRowPerPurchase
  BY DEF RepositoryInvariant
<1> QED
  BY <1>1, ServiceCorrect, PTL

(* Two deliveries of a notification never both hold its event row, so of all *)
(* that are in progress one at most gets to apply it.                        *)
THEOREM ServiceHoldsEventsOnce == ServiceSpec => []EventHeldOnce
<1>1. RepositoryInvariant => EventHeldOnce
  BY DEF RepositoryInvariant
<1> QED
  BY <1>1, ServiceCorrect, PTL

(* A notification changes rows only in the step that records it. *)
THEOREM ServiceAppliesOnce == ServiceSpec => AppliedWithItsEvent
BY ServiceImplementsRepository, AppliedOnce, PTL

(* Nothing a rolled back transaction held is ever recorded. *)
THEOREM ServiceEventsCommitted == ServiceSpec => RecordedOnlyByCommit
BY ServiceImplementsRepository, EventsCommitted, PTL

(* No webhook and no other account's verify moves a row to another account. *)
THEOREM ServiceOwnersFixed == ServiceSpec => OwnerNeverChanges
BY ServiceImplementsRepository, OwnersFixed, PTL

(* No webhook in flight brings back a row its account's cleanup removed. *)
THEOREM ServiceRevivesNothing == ServiceSpec => UpdateNeverRevives
BY ServiceImplementsRepository, NothingRevived, PTL
=============================================================================
