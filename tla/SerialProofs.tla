---------------------------- MODULE SerialProofs ----------------------------
(***************************************************************************)
(* What requests about one purchase that do not overlap bring about        *)
(* (SerialServiceSpec): a handler's decision, taken from a row it did not  *)
(* lock, is still the right one when it commits.                           *)
(***************************************************************************)
EXTENDS ServiceProofs, SubscriptionRequirements

(* The ordering and transition test of a webhook with job j, of row r. *)
Applies(j, r) == ShouldApplyUpdate(r, j.status, j.expiresAt, j.eventAt)

(* row is what the handler of job j makes of r, and what it makes of nothing; *)
(* updated_at is when.                                                       *)
MadeFrom(j, r, row) ==
  \/ /\ j.kind = "apple_webhook" /\ Applies(j, r)
     /\ row = AppleApplied(r, j, row.updatedAt)
  \/ /\ j.kind = "google_webhook" /\ Applies(j, r)
     /\ row = GoogleApplied(r, j, row.updatedAt)
  \/ j.kind = "apple_verify" /\ row = AppleVerified(r, j, row.updatedAt)
  \/ j.kind = "google_verify" /\ row = GoogleVerified(r, j, row.updatedAt)

MadeNew(j, row) ==
  \/ /\ j.kind = "apple_webhook" /\ j.user # Nil
     /\ row = AppleNewRow(row.id, j, row.updatedAt)
  \/ j.kind = "apple_verify" /\ row = AppleVerifiedRow(row.id, j, row.updatedAt)
  \/ j.kind = "google_verify" /\ row = GoogleVerifiedRow(row.id, j, row.updatedAt)

(* The decision j's handler has taken is the one r calls for: w is made from *)
(* it, or r is ahead of a notification that writes nothing.                  *)
Fits(j, w, r) ==
  IF w = NoWrite THEN j.kind \in Webhooks /\ ~Applies(j, r)
  ELSE w.op # "create" /\ r.id = w.row.id /\ MadeFrom(j, r, w.row)

Decided(h) == pc[h] \in {"write", "commit"}

(* A statement is about its handler's purchase; a new row is the handler's;  *)
(* and a row that is found there is the one the handler has decided from.    *)
DecisionsStand ==
  \A h \in Handlers : Decided(h) =>
    /\ Staged(h) => write[h].row.purchase = job[h].purchase
    /\ Staged(h) /\ write[h].op = "create" => MadeNew(job[h], write[h].row)
    /\ \A r \in Stored(job[h].purchase) : Fits(job[h], write[h], r)

(* Only requests about a purchase read and write a row. *)
Busy(h) == pc[h] \in {"call", "record", "find", "write", "commit"}

JobsName ==
  \A h \in Handlers : Busy(h) => job[h].kind \in Webhooks \cup Verifications

SerialInvariant == RepositoryInvariant /\ JobsMatchKinds /\ OnePerPurchase
                   /\ JobsName /\ DecisionsStand
-----------------------------------------------------------------------------
(* Every step of the service is that of one handler, or leaves the table and *)
(* the handlers alone.                                                       *)
Acts(k) == Receive(k) \/ HandlerStep(k) \/ Rollback(k)

LEMMA ActsStep ==
  ASSUME RepositoryTypeOK, JobsMatchKinds, NEW k \in Handlers, Acts(k)
  PROVE  Step(k)
<1>1. CASE Receive(k)
  BY <1>1, ReceiveOpens DEF Step, ClientStep
<1>2. CASE HandlerStep(k)
  BY <1>2, AppleWebhookStages, ApplePurchaseStages, GoogleWebhookStages,
     GooglePurchaseStages DEF Step, HandlerStep, Proceed, RepositoryStep
<1> QED
  BY <1>1, <1>2 DEF Acts, Step

LEMMA ServiceActs ==
  ASSUME [ServiceNext]_vars
  PROVE  \/ UNCHANGED <<subs, pc, job, write>>
         \/ \E k \in Handlers : Acts(k)
BY DEF ServiceNext, Acts, RecordInformational, RecordNonSubscription, Tick, vars

(* A handler that has decided sends its statement, or ends. *)
LEMMA DecidedGoesOn ==
  ASSUME RepositoryTypeOK, NEW k \in Handlers, Acts(k), Decided(k)
  PROVE  ExecWrite(k) \/ Close(k)
BY DEF Acts, Decided, Receive, ReceiveAppleNotification, ReceiveAppleVerify,
       ReceiveGoogleNotification, ReceiveGoogleVerify, ReceiveDelete, OpenDelete, Open,
       HandlerStep, Proceed, AppleWebhookStep, SkipUnresolved, SkipStaleNotification,
       UpdateFromNotification, CreateFromNotification, FindsForApple,
       ApplePurchaseStep, AppleReconciled, AppleUnavailable, AppleRefused, CallsApple,
       UpsertAppleVerified, CreateAppleVerified, FindsForAppleVerify,
       GoogleWebhookStep, GoogleStateFetched, GoogleStateMissing, GoogleStateFailed,
       CallsGoogleForWebhook, SkipUnknownToken, SkipStaleGoogle, UpdateFromGoogle,
       FindsForGoogle, GooglePurchaseStep, GooglePurchaseFetched, GooglePurchaseRefused,
       CallsGoogleForVerify, UpsertGoogleVerified, CreateGoogleVerified,
       FindsForGoogleVerify, GoOn, RecordEvent, WriteFails, Conclude, SkipDuplicateEvent,
       Commit, ExecDelete, Rollback

(* A handler decides in one step, from what it finds.                        *)
Skips(h) == SkipUnresolved(h) \/ SkipStaleNotification(h)
            \/ SkipUnknownToken(h) \/ SkipStaleGoogle(h)

LEMMA DecidesInOneStep ==
  ASSUME RepositoryTypeOK, NEW k \in Handlers, Acts(k), ~Decided(k), Decided(k)'
  PROVE  Stages(k) \/ Skips(k)
<1>1. CASE Close(k) \/ ExecDelete(k)
  BY <1>1 DEF Close, ExecDelete, Decided, RepositoryTypeOK
<1>2. CASE Receive(k)
  <2>1. pc'[k] \in {"call", "record", "find", "delete"}
    BY <1>2 DEF Receive, ReceiveAppleNotification, ReceiveAppleVerify, ReceiveGoogleNotification,
                ReceiveGoogleVerify, ReceiveDelete, OpenDelete, Open, RepositoryTypeOK
  <2> QED BY <2>1 DEF Decided
<1>3. CASE Fetches(k)
  <2>1. pc'[k] \in {"record", "find"}
    BY <1>3 DEF Fetches, AppleReconciled, AppleUnavailable, GoogleStateFetched,
                GooglePurchaseFetched, Answered, RepositoryTypeOK
  <2> QED BY <2>1 DEF Decided
<1>4. CASE RecordEvent(k) \/ ExecWrite(k)
  BY <1>4 DEF RecordEvent, ExecWrite, Decided, RepositoryTypeOK
<1> QED
  BY <1>1, <1>2, <1>3, <1>4
     DEF Acts, HandlerStep, Proceed, AppleWebhookStep, ApplePurchaseStep, AppleRefused,
         GoogleWebhookStep, GoogleStateMissing, GoogleStateFailed, GooglePurchaseStep,
         GooglePurchaseRefused, Stages, Skips, Fetches, GoOn, WriteFails, Conclude,
         SkipDuplicateEvent, Commit, Rollback

(* What a decision depends on: all of a job but its ids. *)
SameDecision(j, k) ==
  /\ SameRequest(j, k)
  /\ j.status = k.status /\ j.expiresAt = k.expiresAt
  /\ j.eventAt = k.eventAt /\ j.cancelledAt = k.cancelledAt

LEMMA FitsSame ==
  ASSUME NEW j, NEW k, SameDecision(j, k), NEW w, NEW r, Fits(j, w, r)
  PROVE  Fits(k, w, r)
BY DEF SameDecision, SameRequest, Fits, MadeFrom, Applies, AppleApplied, GoogleApplied,
       AppleVerified, GoogleVerified

LEMMA MadeNewSame ==
  ASSUME NEW j, NEW k, SameDecision(j, k), NEW row, MadeNew(j, row)
  PROVE  MadeNew(k, row)
BY DEF SameDecision, SameRequest, MadeNew, AppleNewRow, AppleVerifiedRow, GoogleVerifiedRow

(* A cleanup takes ids off the list of another one, and nothing else of a    *)
(* job changes but by its own handler's steps.                               *)
LEMMA OthersKept ==
  ASSUME RepositoryTypeOK, NEW k \in Handlers, Step(k), NEW o \in Handlers \ {k}
  PROVE  SameDecision(job'[o], job[o])
<1> USE DEF SameDecision, SameRequest
<1>1. CASE ExecDelete(k)
  <2>1. job'[o] = [job[o] EXCEPT !.ids = @ \ job[k].ids]
    BY <1>1 DEF ExecDelete
  <2> QED BY <2>1, JobType DEF Job
<1>2. CASE Close(k)
  BY <1>2 DEF Close, RepositoryTypeOK
<1>3. CASE ~ExecDelete(k) /\ ~Close(k)
  <2>1. job'[o] = job[o]
    BY <1>3 DEF Step, ClientStep, OpenRequest, Open, Reply, Answered, ReplyRecording,
                StageCreate, StageUpdate, StageUpsert, Stage, StageNothing, OpenDelete,
                RepositoryStep, GoOn, Conclude, RecordEvent, SkipDuplicateEvent, ExecWrite,
                WriteFails, Commit, Rollback, RepositoryTypeOK
  <2> QED BY <2>1
<1> QED BY <1>1, <1>2, <1>3

(* A handler that has decided and goes on keeps its job and its statement.   *)
LEMMA DecidedKept ==
  ASSUME RepositoryTypeOK, JobsMatchKinds, [ServiceNext]_vars,
         NEW h \in Handlers, Decided(h), Decided(h)'
  PROVE  SameDecision(job'[h], job[h]) /\ write'[h] = write[h]
<1>1. CASE UNCHANGED <<subs, pc, job, write>>
  BY <1>1 DEF SameDecision, SameRequest
<1>2. ASSUME NEW k \in Handlers, Acts(k), k # h
      PROVE  SameDecision(job'[h], job[h]) /\ write'[h] = write[h]
  BY <1>2, ActsStep, OthersKept, FrameStep DEF Frame
<1>3. CASE Acts(h)
  BY <1>3, DecidedGoesOn
     DEF ExecWrite, Close, Decided, SameDecision, SameRequest, RepositoryTypeOK
<1> QED BY <1>1, <1>2, <1>3, ServiceActs
-----------------------------------------------------------------------------
(* A store's answer leaves a job its kind. *)
LEMMA FetchesKind ==
  ASSUME RepositoryTypeOK, NEW k \in Handlers, Fetches(k)
  PROVE  job[k].kind \in Webhooks \cup Verifications /\ job'[k].kind = job[k].kind
<1>1. CASE AppleReconciled(k, AppleAnswers)
  BY <1>1, JobType DEF AppleReconciled, CallsApple, Answered, Job, RepositoryTypeOK,
                       Verifications
<1>2. CASE AppleUnavailable(k, AppleAnswers)
  BY <1>2 DEF AppleUnavailable, CallsApple, Answered, RepositoryTypeOK, Verifications
<1>3. CASE GoogleStateFetched(k, GoogleAnswers)
  BY <1>3, JobType DEF GoogleStateFetched, CallsGoogleForWebhook, Answered, Job,
                       RepositoryTypeOK, Webhooks
<1>4. CASE GooglePurchaseFetched(k, GoogleAnswers)
  BY <1>4, JobType DEF GooglePurchaseFetched, CallsGoogleForVerify, Answered, Job,
                       RepositoryTypeOK, Verifications
<1> QED BY <1>1, <1>2, <1>3, <1>4 DEF Fetches

(* What a handler does before it ends is for a request about a purchase. *)
LEMMA ProceedsBusy ==
  ASSUME NEW k \in Handlers, Proceed(k, AppleAnswers, GoogleAnswers)
  PROVE  Busy(k)
BY DEF Busy, Proceed, AppleWebhookStep, SkipUnresolved, SkipStaleNotification,
       UpdateFromNotification, CreateFromNotification, FindsForApple,
       ApplePurchaseStep, AppleReconciled, AppleUnavailable, AppleRefused, CallsApple,
       UpsertAppleVerified, CreateAppleVerified, FindsForAppleVerify,
       GoogleWebhookStep, GoogleStateFetched, GoogleStateMissing, GoogleStateFailed,
       CallsGoogleForWebhook, SkipUnknownToken, SkipStaleGoogle, UpdateFromGoogle,
       FindsForGoogle, GooglePurchaseStep, GooglePurchaseFetched, GooglePurchaseRefused,
       CallsGoogleForVerify, UpsertGoogleVerified, CreateGoogleVerified,
       FindsForGoogleVerify, GoOn, RecordEvent, ExecWrite, WriteFails

(* A handler that reads or writes a row has a request about a purchase. *)
LEMMA NamesStep ==
  ASSUME RepositoryTypeOK, JobsMatchKinds, JobsName, [ServiceNext]_vars
  PROVE  JobsName'
<1> DEFINE Good(h) == Busy(h) => job[h].kind \in Webhooks \cup Verifications
<1>1. CASE UNCHANGED <<subs, pc, job, write>>
  BY <1>1 DEF JobsName, Busy
<1>2. ASSUME NEW k \in Handlers, Acts(k), NEW o \in Handlers \ {k}
      PROVE  Good(o)'
  <2>1. SameDecision(job'[o], job[o]) /\ pc'[o] = pc[o]
    BY <1>2, ActsStep, OthersKept, FrameStep DEF Frame
  <2> QED BY <2>1 DEF JobsName, Busy, SameDecision, SameRequest
<1>3. ASSUME NEW k \in Handlers, Receive(k)
      PROVE  Good(k)'
  <2> USE DEF Open, NoJob, Webhooks, Verifications, RepositoryTypeOK, Busy
  <2>1. CASE ReceiveAppleNotification(k)
    BY <2>1 DEF ReceiveAppleNotification, AppleJob
  <2>2. CASE ReceiveAppleVerify(k)
    BY <2>2 DEF ReceiveAppleVerify
  <2>3. CASE ReceiveGoogleNotification(k)
    BY <2>3 DEF ReceiveGoogleNotification
  <2>4. CASE ReceiveGoogleVerify(k)
    BY <2>4 DEF ReceiveGoogleVerify
  <2>5. CASE ReceiveDelete(k)
    BY <2>5 DEF ReceiveDelete, OpenDelete
  <2> QED BY <1>3, <2>1, <2>2, <2>3, <2>4, <2>5 DEF Receive
<1>4. ASSUME NEW k \in Handlers, HandlerStep(k) \/ Rollback(k)
      PROVE  Good(k)'
  <2>1. CASE Close(k) \/ ExecDelete(k)
    <3>1. pc'[k] = "idle"
      BY <2>1 DEF Close, ExecDelete, RepositoryTypeOK
    <3> QED BY <3>1 DEF Busy
  <2>2. CASE Fetches(k)
    BY <2>2, FetchesKind
  <2>3. CASE job' = job /\ pc[k] # "call" /\ ~Close(k) /\ ~ExecDelete(k)
    <3>1. Busy(k)' => Busy(k)
      BY <1>4, <2>3, ProceedsBusy
         DEF HandlerStep, Conclude, SkipDuplicateEvent, Commit, Rollback
    <3> QED BY <2>3, <3>1 DEF JobsName
  <2> QED BY <1>4, <2>1, <2>2, <2>3, JobsChange
<1> QED
  BY <1>1, <1>2, <1>3, <1>4, ServiceActs DEF JobsName, Acts
-----------------------------------------------------------------------------
(* The rows a decision was taken from are the handler's alone: as long as it *)
(* is under way no other request adds one or changes one.                    *)
LEMMA StoredShrinks ==
  ASSUME SerialInvariant, [ServiceNext]_vars, NEW h \in Handlers, Decided(h), Decided(h)'
  PROVE  {r \in subs' : r.purchase = job[h].purchase} \subseteq Stored(job[h].purchase)
<1> USE DEF SerialInvariant
<1>1. RepositoryTypeOK
  BY DEF RepositoryInvariant
<1>2. CASE subs' \subseteq subs
  BY <1>2 DEF Stored
<1>3. CASE ~(subs' \subseteq subs)
  <2>1. PICK k \in Handlers : Commit(k) /\ Staged(k)
    BY <1>1, <1>3, ServiceActs, ActsStep, TableChanges
  <2>2. k # h
    BY <1>1, <2>1, FrameClose DEF Commit, Decided
  <2>3. PICK user \in Users :
          LET new == [write[k].row EXCEPT !.user = user]
          IN  /\ Persist(write[k]) = (subs \ WithID(write[k].row.id)) \cup {new}
              /\ new.purchase = write[k].row.purchase
    BY <2>1, CommittedRow
  <2>4. write[k].row.purchase = job[k].purchase
    BY <2>1 DEF DecisionsStand, Decided, Commit
  <2>5. job[h].purchase # Nil
    BY DEF JobsName, Busy, Decided, JobsMatchKinds, MatchesKind
  <2>6. job[h].purchase # job[k].purchase
    BY <2>2, <2>5 DEF OnePerPurchase
  <2> QED BY <2>1, <2>3, <2>4, <2>6 DEF Commit, Stored
<1> QED BY <1>2, <1>3

(* A handler that writes nothing has found no row, or one that is ahead.     *)
LEMMA SkipFits ==
  ASSUME SerialInvariant, NEW h \in Handlers, Skips(h)
  PROVE  /\ job' = job /\ subs' = subs /\ write'[h] = NoWrite
         /\ \A r \in Stored(job[h].purchase) : Fits(job[h], NoWrite, r)
<1> USE DEF Skips, SkipUnresolved, SkipStaleNotification, SkipUnknownToken, SkipStaleGoogle,
            FindsForApple, FindsForGoogle
<1>1. job' = job /\ subs' = subs /\ write' = write /\ pc[h] = "find"
  BY DEF StageNothing
<1>2. write[h] = NoWrite
  BY <1>1 DEF SerialInvariant, RepositoryInvariant, PhasesMatch, Staged
<1>3. \A r, s \in Stored(job[h].purchase) : r = s
  BY DEF SerialInvariant, RepositoryInvariant, OneRowPerPurchase, Stored
<1> QED BY <1>1, <1>2, <1>3 DEF Fits, Applies, Webhooks

(* A handler that has found a row makes its new version of that row.         *)
LEMMA OverwriteFits ==
  ASSUME SerialInvariant, NEW h \in Handlers, NEW op \in {"update", "upsert"}, NEW row,
         NEW r \in Stored(job[h].purchase), MadeFrom(job[h], r, row), row \in Row,
         row.id = r.id, row.purchase = r.purchase, Stage(h, [op |-> op, row |-> row])
  PROVE  /\ job' = job /\ subs' = subs /\ write'[h] = [op |-> op, row |-> row]
         /\ row.purchase = job[h].purchase
         /\ \A s \in Stored(job[h].purchase) : Fits(job[h], write'[h], s)
<1>1. job' = job /\ subs' = subs /\ write'[h] = [op |-> op, row |-> row]
  BY DEF Stage, SerialInvariant, RepositoryInvariant, RepositoryTypeOK
<1>2. \A s \in Stored(job[h].purchase) : s = r
  BY DEF SerialInvariant, RepositoryInvariant, OneRowPerPurchase, Stored
<1>3. write'[h] # NoWrite
  BY <1>1, StatementIsNotNoWrite
<1> QED BY <1>1, <1>2, <1>3 DEF Fits, Stored

(* Whichever row a handler stages, it is what its decision calls for.        *)
LEMMA StageFits ==
  ASSUME SerialInvariant, NEW h \in Handlers, Stages(h)
  PROVE  /\ job' = job /\ subs' = subs
         /\ write'[h].row.purchase = job[h].purchase
         /\ write'[h].op = "create" => MadeNew(job[h], write'[h].row)
         /\ \A r \in Stored(job[h].purchase) : Fits(job[h], write'[h], r)
<1>1. RepositoryTypeOK /\ JobsMatchKinds /\ job[h] \in Job /\ now \in Nat
  BY RepositoryAssumption, JobType DEF SerialInvariant, RepositoryInvariant, RepositoryTypeOK
<1>2. ASSUME NEW op \in {"update", "upsert"}, NEW row, NEW r \in Stored(job[h].purchase),
             MadeFrom(job[h], r, row), row \in Row,
             row.id = r.id, row.purchase = r.purchase, Stage(h, [op |-> op, row |-> row])
      PROVE  /\ job' = job /\ subs' = subs
             /\ write'[h].row.purchase = job[h].purchase
             /\ write'[h].op # "create"
             /\ \A s \in Stored(job[h].purchase) : Fits(job[h], write'[h], s)
  BY <1>2, OverwriteFits
<1>3. CASE UpdateFromNotification(h)
  <2>1. PICK r \in Stored(job[h].purchase) :
          /\ Applies(job[h], r)
          /\ Stage(h, [op |-> "update", row |-> AppleApplied(r, job[h], now)])
    BY <1>3 DEF UpdateFromNotification, Applies
  <2> DEFINE row == AppleApplied(r, job[h], now)
  <2>2. r \in Row
    BY <1>1, StoredType
  <2>3. row \in Row /\ row.id = r.id /\ row.purchase = r.purchase
    BY <1>1, <2>2, BuiltRows
  <2>4. row.updatedAt = now
    BY <2>2 DEF AppleApplied, Row
  <2>5. MadeFrom(job[h], r, row)
    BY <1>3, <2>1, <2>4 DEF UpdateFromNotification, FindsForApple, MadeFrom
  <2> QED BY <1>2, <2>1, <2>3, <2>5
<1>4. CASE UpdateFromGoogle(h)
  <2>1. PICK r \in Stored(job[h].purchase) :
          /\ Applies(job[h], r)
          /\ Stage(h, [op |-> "update", row |-> GoogleApplied(r, job[h], now)])
    BY <1>4 DEF UpdateFromGoogle, Applies
  <2> DEFINE row == GoogleApplied(r, job[h], now)
  <2>2. r \in Row
    BY <1>1, StoredType
  <2>3. row \in Row /\ row.id = r.id /\ row.purchase = r.purchase
    BY <1>1, <2>2, BuiltRows
  <2>4. row.updatedAt = now
    BY <2>2 DEF GoogleApplied, Row
  <2>5. MadeFrom(job[h], r, row)
    BY <1>4, <2>1, <2>4 DEF UpdateFromGoogle, FindsForGoogle, MadeFrom
  <2> QED BY <1>2, <2>1, <2>3, <2>5
<1>5. CASE UpsertAppleVerified(h)
  <2>1. PICK r \in Stored(job[h].purchase) :
          Stage(h, [op |-> "upsert", row |-> AppleVerified(r, job[h], now)])
    BY <1>5 DEF UpsertAppleVerified
  <2> DEFINE row == AppleVerified(r, job[h], now)
  <2>2. r \in Row /\ job[h].user # Nil
    BY <1>1, <1>5, StoredType
       DEF UpsertAppleVerified, FindsForAppleVerify, JobsMatchKinds, MatchesKind, Verifications
  <2>3. row \in Row /\ row.id = r.id /\ row.purchase = r.purchase
    BY <1>1, <2>2, BuiltRows
  <2>4. row.updatedAt = now
    BY <2>2 DEF AppleVerified, Row
  <2>5. MadeFrom(job[h], r, row)
    BY <1>5, <2>4 DEF UpsertAppleVerified, FindsForAppleVerify, MadeFrom
  <2> QED BY <1>2, <2>1, <2>3, <2>5
<1>6. CASE UpsertGoogleVerified(h)
  <2>1. PICK r \in Stored(job[h].purchase) :
          Stage(h, [op |-> "upsert", row |-> GoogleVerified(r, job[h], now)])
    BY <1>6 DEF UpsertGoogleVerified
  <2> DEFINE row == GoogleVerified(r, job[h], now)
  <2>2. r \in Row /\ job[h].user # Nil
    BY <1>1, <1>6, StoredType
       DEF UpsertGoogleVerified, FindsForGoogleVerify, JobsMatchKinds, MatchesKind,
           Verifications
  <2>3. row \in Row /\ row.id = r.id /\ row.purchase = r.purchase
    BY <1>1, <2>2, BuiltRows
  <2>4. row.updatedAt = now
    BY <2>2 DEF GoogleVerified, Row
  <2>5. MadeFrom(job[h], r, row)
    BY <1>6, <2>4 DEF UpsertGoogleVerified, FindsForGoogleVerify, MadeFrom
  <2> QED BY <1>2, <2>1, <2>3, <2>5
<1>7. CASE CreateFromNotification(h) \/ CreateAppleVerified(h) \/ CreateGoogleVerified(h)
  <2>1. \E row : /\ Stage(h, [op |-> "create", row |-> row])
                 /\ row.purchase = job[h].purchase
                 /\ MadeNew(job[h], row)
    <3>1. CASE CreateFromNotification(h)
      <4>1. PICK id \in FreshIDs :
              Stage(h, [op |-> "create", row |-> AppleNewRow(id, job[h], now)])
        BY <3>1 DEF CreateFromNotification
      <4> DEFINE new == AppleNewRow(id, job[h], now)
      <4>2. /\ new.id = id /\ new.updatedAt = now /\ new.purchase = job[h].purchase
            /\ MadeNew(job[h], new)
        BY <3>1 DEF CreateFromNotification, FindsForApple, AppleNewRow, MadeNew
      <4> QED BY <4>1, <4>2
    <3>2. CASE CreateAppleVerified(h)
      <4>1. PICK id \in FreshIDs :
              Stage(h, [op |-> "create", row |-> AppleVerifiedRow(id, job[h], now)])
        BY <3>2 DEF CreateAppleVerified
      <4> DEFINE new == AppleVerifiedRow(id, job[h], now)
      <4>2. /\ new.id = id /\ new.updatedAt = now /\ new.purchase = job[h].purchase
            /\ MadeNew(job[h], new)
        BY <3>2 DEF CreateAppleVerified, FindsForAppleVerify, AppleVerifiedRow, MadeNew
      <4> QED BY <4>1, <4>2
    <3>3. CASE CreateGoogleVerified(h)
      <4>1. PICK id \in FreshIDs :
              Stage(h, [op |-> "create", row |-> GoogleVerifiedRow(id, job[h], now)])
        BY <3>3 DEF CreateGoogleVerified
      <4> DEFINE new == GoogleVerifiedRow(id, job[h], now)
      <4>2. /\ new.id = id /\ new.updatedAt = now /\ new.purchase = job[h].purchase
            /\ MadeNew(job[h], new)
        BY <3>3 DEF CreateGoogleVerified, FindsForGoogleVerify, GoogleVerifiedRow, MadeNew
      <4> QED BY <4>1, <4>2
    <3> QED BY <1>7, <3>1, <3>2, <3>3
  <2> PICK row : /\ Stage(h, [op |-> "create", row |-> row])
                 /\ row.purchase = job[h].purchase
                 /\ MadeNew(job[h], row)
    BY <2>1
  <2>2. job' = job /\ subs' = subs /\ write'[h] = [op |-> "create", row |-> row]
    BY <1>1 DEF Stage, RepositoryTypeOK
  <2>3. Stored(job[h].purchase) = {}
    BY <1>7 DEF CreateFromNotification, CreateAppleVerified, CreateGoogleVerified
  <2> QED BY <2>2, <2>3
<1> QED BY <1>2, <1>3, <1>4, <1>5, <1>6, <1>7 DEF Stages

(* A decision stands until its handler ends, if requests about a purchase    *)
(* do not overlap.                                                           *)
LEMMA DecisionsStep ==
  ASSUME SerialInvariant, [ServiceNext]_vars
  PROVE  DecisionsStand'
<1>1. RepositoryTypeOK /\ JobsMatchKinds
  BY DEF SerialInvariant, RepositoryInvariant
<1> SUFFICES ASSUME NEW h \in Handlers, Decided(h)'
             PROVE  /\ Staged(h)' => write'[h].row.purchase = job'[h].purchase
                    /\ Staged(h)' /\ write'[h].op = "create"
                         => MadeNew(job'[h], write'[h].row)
                    /\ \A r \in subs' : r.purchase = job'[h].purchase
                         => Fits(job'[h], write'[h], r)
  BY DEF DecisionsStand, Stored
<1>2. CASE Decided(h)
  <2>1. SameDecision(job'[h], job[h]) /\ write'[h] = write[h]
    BY <1>1, <1>2, DecidedKept
  <2>2. SameDecision(job[h], job'[h]) /\ job'[h].purchase = job[h].purchase
    BY <2>1 DEF SameDecision, SameRequest
  <2>3. ASSUME NEW r \in subs', r.purchase = job[h].purchase
        PROVE  Fits(job'[h], write[h], r)
    <3>1. Fits(job[h], write[h], r)
      BY <1>2, <2>3, StoredShrinks DEF SerialInvariant, DecisionsStand
    <3> QED BY <2>2, <3>1, FitsSame
  <2>4. ASSUME MadeNew(job[h], write[h].row)
        PROVE  MadeNew(job'[h], write[h].row)
    BY <2>2, <2>4, MadeNewSame
  <2> QED BY <1>2, <2>1, <2>2, <2>3, <2>4 DEF SerialInvariant, DecisionsStand, Staged
<1>3. CASE ~Decided(h)
  <2>1. Acts(h)
    BY <1>1, <1>3, ServiceActs, ActsStep, FrameStep DEF Decided, Frame
  <2>2. Stages(h) \/ Skips(h)
    BY <1>1, <1>3, <2>1, DecidesInOneStep
  <2> QED BY <2>2, StageFits, SkipFits DEF Staged, Stored
<1> QED BY <1>2, <1>3

(* The invariant holds initially. *)
LEMMA SerialInit == RepositoryInit => SerialInvariant
<1> SUFFICES ASSUME RepositoryInit PROVE SerialInvariant
  OBVIOUS
<1>1. RepositoryInvariant /\ JobsMatchKinds
  BY InvariantInit, JobsInit
<1>2. OnePerPurchase /\ JobsName /\ DecisionsStand
  BY NoJobType DEF RepositoryInit, OnePerPurchase, JobsName, Busy, DecisionsStand, Decided
<1> QED BY <1>1, <1>2 DEF SerialInvariant

(* And each step after which no two requests are about one purchase keeps it.*)
LEMMA SerialStep ==
  ASSUME SerialInvariant, [ServiceNext]_vars, OnePerPurchase'
  PROVE  SerialInvariant'
<1>1. RepositoryInvariant /\ RepositoryTypeOK /\ JobsMatchKinds /\ JobsName
  BY DEF SerialInvariant, RepositoryInvariant
<1>2. RepositoryInvariant'
  BY <1>1, ServiceStep, InvariantStep
<1> QED BY <1>1, <1>2, JobsStep, NamesStep, DecisionsStep DEF SerialInvariant
-----------------------------------------------------------------------------
(* A row that changes is replaced by what a handler has made of it, as it    *)
(* still is at the commit.                                                   *)
Replaces(k, r, s) ==
  /\ Commit(k) /\ Staged(k)
  /\ MadeFrom(job[k], r, write[k].row)
  /\ s = [write[k].row EXCEPT !.user = r.user]

LEMMA RowsReplaced ==
  ASSUME SerialInvariant, [ServiceNext]_vars,
         NEW r \in subs, NEW s \in subs', r.id = s.id, s # r
  PROVE  \E k \in Handlers : Replaces(k, r, s)
<1> USE DEF SerialInvariant
<1>1. RepositoryTypeOK
  BY DEF RepositoryInvariant
<1>2. s \notin subs
  BY DEF RepositoryInvariant, OneRowPerPurchase
<1>3. PICK k \in Handlers : Commit(k) /\ Staged(k)
  BY <1>1, <1>2, ServiceActs, ActsStep, TableChanges
<1>4. PICK user \in Users :
        LET new == [write[k].row EXCEPT !.user = user]
        IN  /\ Persist(write[k]) = (subs \ WithID(write[k].row.id)) \cup {new}
            /\ new.id = write[k].row.id
            /\ \A q \in WithID(write[k].row.id) : new.user = q.user
  BY <1>3, CommittedRow
<1> DEFINE new == [write[k].row EXCEPT !.user = user]
<1>5. s = new /\ r \in WithID(write[k].row.id) /\ new.user = r.user
  BY <1>2, <1>3, <1>4 DEF Commit, WithID
<1>6. new.user = user
  BY <1>3, StagedType DEF RepositoryInvariant, Row
<1>7. r.purchase = write[k].row.purchase
  BY <1>3, <1>5 DEF RepositoryInvariant, IDsMeanOnePurchase, WithID
<1>8. write[k].row.purchase = job[k].purchase /\ Decided(k)
  BY <1>3 DEF DecisionsStand, Decided, Commit
<1>9. Fits(job[k], write[k], r)
  BY <1>7, <1>8 DEF DecisionsStand, Stored
<1> QED BY <1>3, <1>5, <1>6, <1>9 DEF Fits, Staged, Replaces

(* The version a handler makes is no older than the one it replaces.         *)
LEMMA MadeLater ==
  ASSUME NEW j \in Job, NEW r \in Row, NEW row, MadeFrom(j, r, row)
  PROVE  row.lastEventAt >= r.lastEventAt
<1>1. j.eventAt \in Nat /\ r.lastEventAt \in Nat
  BY DEF Job, Row
<1>2. CASE row.lastEventAt = r.lastEventAt
  BY <1>1, <1>2
<1>3. CASE /\ Applies(j, r)
           /\ row.lastEventAt = IF j.eventAt # NoTime THEN j.eventAt ELSE r.lastEventAt
  BY <1>1, <1>3 DEF Applies, ShouldApplyUpdate, Before, NoTime
<1> QED
  BY <1>2, <1>3
     DEF MadeFrom, AppleApplied, GoogleApplied, AppleVerified, GoogleVerified, Row

(* What a webhook makes of a row passed its ordering and transition test.    *)
LEMMA MadeByWebhook ==
  ASSUME NEW j, NEW r \in Row, NEW row, MadeFrom(j, r, row), j.kind \in Webhooks
  PROVE  /\ Applies(j, r)
         /\ row.status = j.status /\ row.expiresAt = j.expiresAt
BY DEF MadeFrom, AppleApplied, GoogleApplied, Row, Webhooks

(* Fields of the row a commit puts in another one's place. *)
LEMMA ReplacedFields ==
  ASSUME RepositoryTypeOK, NEW k \in Handlers, NEW r \in subs, NEW s, Replaces(k, r, s)
  PROVE  /\ r \in Row /\ job[k] \in Job
         /\ s.status = write[k].row.status
         /\ s.expiresAt = write[k].row.expiresAt
         /\ s.lastEventAt = write[k].row.lastEventAt
BY StagedType, JobType DEF RepositoryTypeOK, Replaces, Row

(* A commit leaves no purchase without the row it has. *)
LEMMA CommitKeepsRows ==
  ASSUME RepositoryInvariant, NEW k \in Handlers, Commit(k), NEW p, Stored(p) # {}
  PROVE  Stored(p)' # {}
<1>1. CASE ~Staged(k)
  BY <1>1 DEF Commit, Persist, Staged, Stored
<1>2. CASE Staged(k)
  <2>1. PICK r \in subs : r.purchase = p
    BY DEF Stored
  <2>2. PICK user \in Users :
          LET new == [write[k].row EXCEPT !.user = user]
          IN  /\ Persist(write[k]) = (subs \ WithID(write[k].row.id)) \cup {new}
              /\ new.purchase = write[k].row.purchase
    BY <1>2, CommittedRow
  <2>3. r \in WithID(write[k].row.id) => r.purchase = write[k].row.purchase
    BY <1>2 DEF RepositoryInvariant, IDsMeanOnePurchase, WithID
  <2> QED BY <2>1, <2>2, <2>3 DEF Commit, Stored
<1> QED BY <1>1, <1>2

(* The initial condition and the steps of SerialServiceSpec keep the         *)
(* invariant; what follows from it for a step holds of every step.           *)
THEOREM SerialCorrect == SerialServiceSpec => []SerialInvariant
<1>1. SerialInvariant /\ [ServiceNext /\ OnePerPurchase']_vars => SerialInvariant'
  <2> SUFFICES ASSUME SerialInvariant, [ServiceNext /\ OnePerPurchase']_vars
               PROVE  SerialInvariant'
    OBVIOUS
  <2>1. OnePerPurchase'
    BY DEF SerialInvariant, OnePerPurchase, vars
  <2> QED BY <2>1, SerialStep
<1> QED BY <1>1, SerialInit, PTL DEF SerialServiceSpec

(* last_event_at of a row never goes back: a notification never overwrites   *)
(* what a later one wrote, although it was compared with a row that was read *)
(* without a lock, and although verifications write in between.              *)
THEOREM SerialOrdersEvents == SerialServiceSpec => LastEventAtNeverRegresses
<1>1. ASSUME SerialInvariant, [ServiceNext]_vars, NEW r \in subs, NEW s \in subs',
             r.id = s.id
      PROVE  s.lastEventAt >= r.lastEventAt
  <2>1. RepositoryTypeOK
    BY <1>1 DEF SerialInvariant, RepositoryInvariant
  <2>2. CASE s = r
    BY <2>1, <2>2 DEF RepositoryTypeOK, Row
  <2>3. CASE s # r
    <3>1. PICK k \in Handlers : Replaces(k, r, s)
      BY <1>1, <2>3, RowsReplaced
    <3> QED BY <2>1, <3>1, ReplacedFields, MadeLater DEF Replaces
  <2> QED BY <2>2, <2>3
<1>2. SerialInvariant /\ [ServiceNext /\ OnePerPurchase']_vars
      => [\A r \in subs, s \in subs' : r.id = s.id => s.lastEventAt >= r.lastEventAt]_vars
  BY <1>1
<1> QED
  BY <1>2, SerialCorrect, PTL DEF SerialServiceSpec, LastEventAtNeverRegresses

(* No webhook of either store changes a row that is revoked when it commits, *)
(* although it looked at the row earlier and took no lock then.              *)
THEOREM SerialKeepsRevoked == SerialServiceSpec => WebhookKeepsRevoked
<1>1. ASSUME SerialInvariant, [ServiceNext]_vars, NEW h \in Handlers,
             pc[h] = "commit", pc'[h] = "idle",
             job[h].kind \in {"apple_webhook", "google_webhook"},
             NEW r \in subs, NEW s \in subs', r.id = s.id, r.status = "revoked"
      PROVE  s = r
  <2>1. RepositoryTypeOK
    BY <1>1 DEF SerialInvariant, RepositoryInvariant
  <2>2. SUFFICES ASSUME s # r PROVE FALSE
    OBVIOUS
  <2>3. PICK k \in Handlers : Replaces(k, r, s)
    BY <1>1, <2>2, RowsReplaced
  <2>4. k = h
    BY <1>1, <2>1, <2>3, FrameClose DEF Replaces, Commit, Frame
  <2>5. Applies(job[h], r)
    BY <1>1, <2>1, <2>3, <2>4, ReplacedFields, MadeByWebhook DEF Replaces, Webhooks
  <2> QED BY <1>1, <2>5 DEF Applies, ShouldApplyUpdate
<1>2. SerialInvariant /\ [ServiceNext /\ OnePerPurchase']_vars
      => [\A h \in Handlers :
            /\ pc[h] = "commit" /\ pc'[h] = "idle"
            /\ job[h].kind \in {"apple_webhook", "google_webhook"}
            => \A r \in subs, s \in subs' :
                 r.id = s.id /\ r.status = "revoked" => s = r]_vars
  BY <1>1
<1> QED BY <1>2, SerialCorrect, PTL DEF SerialServiceSpec, WebhookKeepsRevoked

(* The Google handlers work for purchases of Google. *)
GoogleAsks ==
  \A h \in Handlers :
    job[h].kind \in {"google_webhook", "google_verify"} => job[h].purchase \in GooglePurchases

(* It is so from the arrival of a request on. *)
LEMMA GoogleAsksStep ==
  ASSUME RepositoryTypeOK, GoogleAsks, [ServiceNext]_vars
  PROVE  GoogleAsks'
<1>1. CASE UNCHANGED <<subs, pc, job, write>>
  BY <1>1 DEF GoogleAsks
<1>2. ASSUME NEW k \in Handlers, HandlerStep(k) \/ Rollback(k), NEW o \in Handlers
      PROVE  job'[o].kind \in {"google_webhook", "google_verify"}
             => job'[o].purchase \in GooglePurchases
  BY <1>2, StepKeepsRequests DEF GoogleAsks, SameRequest, NoJob
<1>3. ASSUME NEW k \in Handlers, Receive(k), NEW o \in Handlers
      PROVE  job'[o].kind \in {"google_webhook", "google_verify"}
             => job'[o].purchase \in GooglePurchases
  <2> USE <1>3 DEF Open, NoJob, GoogleAsks, RepositoryTypeOK
  <2>1. CASE ReceiveAppleNotification(k)
    BY <2>1 DEF ReceiveAppleNotification, AppleJob
  <2>2. CASE ReceiveAppleVerify(k)
    BY <2>2 DEF ReceiveAppleVerify
  <2>3. CASE ReceiveGoogleNotification(k)
    BY <2>3 DEF ReceiveGoogleNotification, GooglePurchases
  <2>4. CASE ReceiveGoogleVerify(k)
    BY <2>4 DEF ReceiveGoogleVerify, GooglePurchases
  <2>5. CASE ReceiveDelete(k)
    BY <2>5 DEF ReceiveDelete, OpenDelete
  <2> QED BY <2>1, <2>2, <2>3, <2>4, <2>5 DEF Receive
<1> QED
  BY <1>1, <1>2, <1>3, ServiceActs DEF Acts, GoogleAsks

(* What a handler of Apple's makes of a dated row keeps the date, or is      *)
(* running again.                                                            *)
LEMMA MadeKeepsDate ==
  ASSUME NEW j, NEW r \in Row, NEW row, MadeFrom(j, r, row),
         j.kind \notin {"google_webhook", "google_verify"},
         r.cancelledAt # NoTime, row.cancelledAt # r.cancelledAt
  PROVE  row.cancelledAt = NoTime /\ row.status \in {"active", "grace_period"}
<1>1. CASE row = AppleApplied(r, j, row.updatedAt)
  <2>1. row.status = j.status
    BY <1>1 DEF AppleApplied, Row
  <2>2. row.cancelledAt = CASE j.status = "cancelled" ->
                                 IF r.cancelledAt = NoTime THEN row.updatedAt
                                 ELSE r.cancelledAt
                            [] j.status = "active" -> NoTime
                            [] OTHER -> r.cancelledAt
    BY <1>1 DEF AppleApplied, Row
  <2> QED BY <2>1, <2>2
<1>2. CASE row = AppleVerified(r, j, row.updatedAt)
  <2>1. row.status = j.status
    BY <1>2 DEF AppleVerified, Row
  <2>2. row.cancelledAt = IF j.status \in {"active", "grace_period"} THEN NoTime
                          ELSE r.cancelledAt
    BY <1>2 DEF AppleVerified, Row
  <2> QED BY <2>1, <2>2
<1> QED BY <1>1, <1>2 DEF MadeFrom

(* The date at which an App Store purchase's cancellation was first          *)
(* processed stays until the subscription runs again, although each writer   *)
(* takes it from the row it has read without a lock.                         *)
THEOREM SerialKeepsCancellation == SerialServiceSpec => FirstCancellationKept
<1>1. ASSUME SerialInvariant, GoogleAsks, [ServiceNext]_vars,
             NEW r \in subs, NEW s \in subs', r.id = s.id,
             r.purchase \notin GooglePurchases,
             r.cancelledAt # NoTime, s.cancelledAt # r.cancelledAt
      PROVE  s.cancelledAt = NoTime /\ s.status \in {"active", "grace_period"}
  <2>1. RepositoryTypeOK
    BY <1>1 DEF SerialInvariant, RepositoryInvariant
  <2>2. PICK k \in Handlers : Replaces(k, r, s)
    BY <1>1, RowsReplaced
  <2>3. /\ r \in Row /\ s.status = write[k].row.status
        /\ s.cancelledAt = write[k].row.cancelledAt
    BY <2>1, <2>2, StagedType, ReplacedFields DEF Replaces, Row
  <2>4. r.purchase = job[k].purchase
    <3>1. r.id = write[k].row.id
      BY <1>1, <2>1, <2>2, StagedType DEF Replaces, Row
    <3>2. r.purchase = write[k].row.purchase
      BY <1>1, <2>2, <3>1 DEF SerialInvariant, RepositoryInvariant, IDsMeanOnePurchase,
                              Replaces
    <3> QED
      BY <1>1, <2>2, <3>2 DEF SerialInvariant, DecisionsStand, Decided, Commit, Replaces
  <2>5. job[k].kind \notin {"google_webhook", "google_verify"}
    BY <1>1, <2>4 DEF GoogleAsks
  <2> QED BY <1>1, <2>2, <2>3, <2>5, MadeKeepsDate DEF Replaces
<1>2. SerialInvariant /\ GoogleAsks /\ [ServiceNext /\ OnePerPurchase']_vars => GoogleAsks'
  BY GoogleAsksStep DEF SerialInvariant, RepositoryInvariant
<1>3. RepositoryInit => GoogleAsks
  BY DEF RepositoryInit, GoogleAsks, NoJob
<1>4. SerialInvariant /\ GoogleAsks /\ [ServiceNext /\ OnePerPurchase']_vars
      => [\A r \in subs, s \in subs' :
            /\ r.id = s.id /\ r.purchase \notin GooglePurchases
            /\ r.cancelledAt # NoTime /\ s.cancelledAt # r.cancelledAt
            => s.cancelledAt = NoTime /\ s.status \in {"active", "grace_period"}]_vars
  BY <1>1
<1> QED
  BY <1>2, <1>3, <1>4, SerialCorrect, PTL DEF SerialServiceSpec, FirstCancellationKept
-----------------------------------------------------------------------------
(* With Apple's notifications alone, every version of a row was made by a    *)
(* webhook from the one before it.                                           *)
OnlyApple == \A h \in Handlers : job[h].kind \in {"none", "apple_webhook"}

(* The webhook's own steps are steps of the service. *)
LEMMA AppleIsService ==
  ASSUME [AppleWebhookNext]_vars
  PROVE  [ServiceNext]_vars
BY DEF AppleWebhookNext, ServiceNext, Receive, HandlerStep, Proceed, GoOn, Conclude

(* No other request comes in. *)
LEMMA OnlyAppleStep ==
  ASSUME OnlyApple, RepositoryTypeOK, [AppleWebhookNext]_vars
  PROVE  OnlyApple'
<1> USE DEF OnlyApple
<1>1. CASE UNCHANGED job
  BY <1>1
<1>2. ASSUME NEW h \in Handlers, ReceiveAppleNotification(h)
      PROVE  OnlyApple'
  BY <1>2 DEF ReceiveAppleNotification, AppleJob, NoJob, Open, RepositoryTypeOK
<1>3. ASSUME NEW h \in Handlers, Close(h)
      PROVE  OnlyApple'
  BY <1>3 DEF Close, NoJob, RepositoryTypeOK
<1> QED
  BY <1>1, <1>2, <1>3
     DEF AppleWebhookNext, RecordInformational, Tick, AppleWebhookStep, SkipUnresolved,
         SkipStaleNotification, UpdateFromNotification, CreateFromNotification, Stage,
         StageNothing, RecordEvent, SkipDuplicateEvent, ExecWrite, WriteFails, Commit,
         Rollback, vars

(* The same invariant holds of it. *)
THEOREM SerialAppleCorrect == SerialAppleWebhookSpec => [](SerialInvariant /\ OnlyApple)
<1>1. RepositoryInit => SerialInvariant /\ OnlyApple
  BY SerialInit DEF RepositoryInit, NoJob, OnlyApple
<1>2. SerialInvariant /\ OnlyApple /\ [AppleWebhookNext /\ OnePerPurchase']_vars
      => (SerialInvariant /\ OnlyApple)'
  <2> SUFFICES ASSUME SerialInvariant, OnlyApple, [AppleWebhookNext /\ OnePerPurchase']_vars
               PROVE  SerialInvariant' /\ OnlyApple'
    OBVIOUS
  <2>1. OnePerPurchase'
    BY DEF SerialInvariant, OnePerPurchase, vars
  <2> QED
    BY <2>1, AppleIsService, SerialStep, OnlyAppleStep
       DEF SerialInvariant, RepositoryInvariant
<1> QED BY <1>1, <1>2, PTL DEF SerialAppleWebhookSpec

(* A changed row carries status, expiry and date of an event that passed the *)
(* test against the row it replaces.                                         *)
LEMMA AppleReplaces ==
  ASSUME SerialInvariant, OnlyApple, [AppleWebhookNext]_vars,
         NEW r \in subs, NEW s \in subs', r.id = s.id, s # r
  PROVE  /\ r \in Row
         /\ \E eventAt : ShouldApplyUpdate(r, s.status, s.expiresAt, eventAt)
         /\ s.lastEventAt >= r.lastEventAt
<1>1. RepositoryTypeOK
  BY DEF SerialInvariant, RepositoryInvariant
<1>2. PICK k \in Handlers : Replaces(k, r, s)
  BY AppleIsService, RowsReplaced
<1>3. job[k].kind \in Webhooks
  BY <1>2 DEF Replaces, OnlyApple, MadeFrom, Webhooks
<1>4. /\ r \in Row /\ Applies(job[k], r)
      /\ s.status = job[k].status /\ s.expiresAt = job[k].expiresAt
  BY <1>1, <1>2, <1>3, ReplacedFields, MadeByWebhook DEF Replaces
<1>5. s.lastEventAt >= r.lastEventAt
  BY <1>1, <1>2, ReplacedFields, MadeLater DEF Replaces
<1> QED BY <1>4, <1>5 DEF Applies

(* Once a refund or a revocation is applied, no notification that follows,   *)
(* whatever its date, takes the row out of "revoked".                        *)
THEOREM AppleRevokedIsTerminal == SerialAppleWebhookSpec => RevokedIsTerminal
<1>1. ASSUME SerialInvariant, OnlyApple, [AppleWebhookNext]_vars,
             NEW r \in subs, NEW s \in subs', r.id = s.id, r.status = "revoked"
      PROVE  s.status = "revoked"
  BY <1>1, AppleReplaces DEF ShouldApplyUpdate
<1>2. SerialInvariant /\ OnlyApple /\ [AppleWebhookNext /\ OnePerPurchase']_vars
      => [\A r \in subs, s \in subs' :
            r.id = s.id /\ r.status = "revoked" => s.status = "revoked"]_vars
  BY <1>1
<1> QED
  BY <1>2, SerialAppleCorrect, PTL DEF SerialAppleWebhookSpec, RevokedIsTerminal

(* No notification but a revocation brings the end of a paid period forward, *)
(* in whatever order they are delivered.                                     *)
THEOREM AppleOnlyRevocationShortens == SerialAppleWebhookSpec => OnlyRevocationShortens
<1>1. ASSUME SerialInvariant, OnlyApple, [AppleWebhookNext]_vars,
             NEW r \in subs, NEW s \in subs', r.id = s.id,
             Before(s.expiresAt, r.expiresAt)
      PROVE  s.status = "revoked"
  <2>1. s # r
    BY <1>1 DEF Before, SerialInvariant, RepositoryInvariant, RepositoryTypeOK, Row
  <2> QED BY <1>1, <2>1, AppleReplaces DEF ShouldApplyUpdate
<1>2. SerialInvariant /\ OnlyApple /\ [AppleWebhookNext /\ OnePerPurchase']_vars
      => [\A r \in subs, s \in subs' :
            r.id = s.id /\ Before(s.expiresAt, r.expiresAt) => s.status = "revoked"]_vars
  BY <1>1
<1> QED
  BY <1>2, SerialAppleCorrect, PTL DEF SerialAppleWebhookSpec, OnlyRevocationShortens

(* Two successive versions of a row are a pair of the transition table, for  *)
(* the row as it is at the commit and not only for the one that was read.    *)
THEOREM AppleOnlyLegalTransitions == SerialAppleWebhookSpec => OnlyLegalTransitions
<1>1. ASSUME SerialInvariant, OnlyApple, [AppleWebhookNext]_vars,
             NEW r \in subs, NEW s \in subs', Changed(r, s)
      PROVE  CanTransition(r.status, s.status)
  BY <1>1, AppleReplaces DEF ShouldApplyUpdate, Changed
<1>2. SerialInvariant /\ OnlyApple /\ [AppleWebhookNext /\ OnePerPurchase']_vars
      => [\A r \in subs, s \in subs' :
            Changed(r, s) => CanTransition(r.status, s.status)]_vars
  BY <1>1
<1> QED
  BY <1>2, SerialAppleCorrect, PTL DEF SerialAppleWebhookSpec, OnlyLegalTransitions

(* And the date of the last event applied never goes back. *)
THEOREM AppleOrdersEvents == SerialAppleWebhookSpec => LastEventAtNeverRegresses
<1>1. SerialInvariant /\ OnlyApple /\ [AppleWebhookNext /\ OnePerPurchase']_vars
      => [ServiceNext /\ OnePerPurchase']_vars
  BY AppleIsService DEF vars
<1> QED
  BY <1>1, SerialAppleCorrect, SerialOrdersEvents, PTL
     DEF SerialAppleWebhookSpec, SerialServiceSpec
=============================================================================
