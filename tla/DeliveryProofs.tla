--------------------------- MODULE DeliveryProofs ---------------------------
(***************************************************************************)
(* The service between its stores behaves as SubscriptionService: the      *)
(* stores answer only about purchases they know.  What a store takes for   *)
(* processed is recorded, whatever is lost, late or delivered again.  And  *)
(* where requests about one purchase do not overlap, a purchase that ends  *)
(* plainly, or whose life is in order (StoreLives), ends with the access   *)
(* that its store grants.                                                  *)
(***************************************************************************)
EXTENDS StoreLives, SerialProofs, DatesProofs, Integers

(* The stores' part of the state. *)
StoresTyped ==
  /\ life \in DOMAIN Lives
  /\ stage \in [Purchases -> Nat]
  /\ \A p \in Purchases : stage[p] <= Len(StagesOf(p))

(* A request about a purchase comes after the purchase was made. *)
JobsEntered ==
  \A h \in Handlers :
    job[h].purchase # Nil => stage[job[h].purchase] > 0

(* A cleanup has no notification to settle. *)
CleanupsBare == \A h \in Handlers : pc[h] = "delete" => job[h].event = Nil

DeliveryInvariant ==
  /\ RepositoryTypeOK
  /\ JobsMatchKinds
  /\ StoresTyped
  /\ JobsEntered
  /\ CleanupsBare
  /\ SettledIsRecorded

(* Nothing has happened yet.                                                 *)
LEMMA DeliveryInitial == DeliveryInit => DeliveryInvariant
<1> SUFFICES ASSUME DeliveryInit PROVE DeliveryInvariant
  OBVIOUS
<1>1. RepositoryTypeOK /\ JobsMatchKinds
  BY TypeInit, JobsInit DEF DeliveryInit
<1>2. StoresTyped
  <2>1. \A p \in Purchases : StagesOf(p) \in Seq(LifeStage)
    BY DeliveryAssumption DEF DeliveryInit, StagesOf
  <2>2. \A p \in Purchases : Len(StagesOf(p)) \in Nat
    BY <2>1
  <2> QED BY <2>2 DEF DeliveryInit, StoresTyped
<1>3. JobsEntered /\ CleanupsBare
  BY DEF DeliveryInit, RepositoryInit, JobsEntered, CleanupsBare, NoJob
<1>4. SettledIsRecorded
  BY DEF DeliveryInit, SettledIsRecorded
<1> QED BY <1>1, <1>2, <1>3, <1>4 DEF DeliveryInvariant

(* What the APIs say of a purchase that was made is among the answers the    *)
(* service is specified for.                                                 *)
LEMMA AnswersKnown ==
  ASSUME StoresTyped, NEW p \in Purchases, stage[p] > 0
  PROVE  Today(p).apple \subseteq AppleAnswers /\ Says(p) \subseteq GoogleAnswers
<1>1. StagesOf(p) \in Seq(LifeStage)
  BY DeliveryAssumption DEF StoresTyped, StagesOf
<1>2. stage[p] \in 1..Len(StagesOf(p))
  BY <1>1 DEF StoresTyped
<1>3. Today(p) \in LifeStage
  BY <1>1, <1>2 DEF Today
<1> QED BY <1>3 DEF LifeStage, Says

(* Fewer answers, fewer behaviours. *)
LEMMA ProceedMonotone ==
  ASSUME NEW h, NEW apple \in SUBSET AppleAnswers, NEW google \in SUBSET GoogleAnswers,
         Proceed(h, apple, google)
  PROVE  HandlerStep(h)
<1>1. ApplePurchaseStep(h, apple) => ApplePurchaseStep(h, AppleAnswers)
  BY DEF ApplePurchaseStep, AppleReconciled, AppleUnavailable, AppleRefused, AnswersFor
<1>2. GoogleWebhookStep(h, google) => GoogleWebhookStep(h, GoogleAnswers)
  BY DEF GoogleWebhookStep, GoogleStateFetched, GoogleStateMissing, GoogleStateFailed
<1>3. GooglePurchaseStep(h, google) => GooglePurchaseStep(h, GoogleAnswers)
  BY DEF GooglePurchaseStep, GooglePurchaseFetched, GooglePurchaseRefused
<1> QED BY <1>1, <1>2, <1>3 DEF Proceed, HandlerStep

(* Every step of the service between its stores is a step of the service. *)
LEMMA DeliveryStep ==
  ASSUME DeliveryInvariant, [DeliveryNext]_deliveryVars
  PROVE  [ServiceNext]_vars
<1>1. CASE UNCHANGED deliveryVars \/ Heal \/ \E p \in Purchases : EnterStage(p)
  BY <1>1 DEF deliveryVars, Heal, EnterStage
<1>2. CASE Tick
  BY <1>2 DEF ServiceNext
<1>3. ASSUME NEW h \in Handlers,
             (\E event \in EventIDs : Deliver(h, event)) \/ Submit(h) \/ Cleanup(h)
      PROVE  ServiceNext
  BY <1>3 DEF Deliver, Submit, Cleanup, ServiceNext, Receive
<1>4. ASSUME NEW h \in Handlers, Work(h)
      PROVE  ServiceNext
  <2>1. CASE Answer(h)
    BY <2>1 DEF Answer, ServiceNext, HandlerStep
  <2>2. ASSUME NEW p \in Purchases, Advance(h, p)
        PROVE  ServiceNext
    <3>1. stage[p] > 0
      BY <2>2, RepositoryAssumption DEF Advance, DeliveryInvariant, JobsEntered
    <3>2. HandlerStep(h)
      BY <2>2, <3>1, AnswersKnown, ProceedMonotone DEF Advance, DeliveryInvariant
    <3> QED BY <3>2 DEF ServiceNext
  <2> QED BY <1>4, <2>1, <2>2 DEF Work
<1>5. ASSUME NEW h \in Handlers, Fail(h)
      PROVE  ServiceNext
  BY <1>5 DEF Fail, ServiceNext
<1> QED
  BY <1>1, <1>2, <1>3, <1>4, <1>5 DEF DeliveryNext, StoreNext, Arrive

(* The stages go on, and the events the stores wait for are recorded first. *)
LEMMA StoresStep ==
  ASSUME DeliveryInvariant, [DeliveryNext]_deliveryVars
  PROVE  StoresTyped'
<1>1. CASE UNCHANGED <<life, stage>>
  BY <1>1 DEF DeliveryInvariant, StoresTyped, StagesOf
<1>2. ASSUME NEW p \in Purchases, EnterStage(p)
      PROVE  StoresTyped'
  <2>1. StagesOf(p) \in Seq(LifeStage)
    BY DeliveryAssumption DEF DeliveryInvariant, StoresTyped, StagesOf
  <2>2. Len(StagesOf(p)) \in Nat /\ stage[p] \in Nat
    BY <2>1 DEF DeliveryInvariant, StoresTyped
  <2>3. \A q : StagesOf(q)' = StagesOf(q)
    BY <1>2 DEF EnterStage, StagesOf
  <2> QED BY <1>2, <2>2, <2>3 DEF DeliveryInvariant, EnterStage, StoresTyped
<1> QED
  BY <1>1, <1>2 DEF DeliveryNext, StoreNext, Arrive, deliveryVars, storeVars, Heal, Deliver,
                    Submit, Cleanup, Work, Answer, Advance, Fail

(* No purchase goes back to before it was made. *)
LEMMA StagesGrow ==
  ASSUME DeliveryInvariant, [DeliveryNext]_deliveryVars, NEW p \in Purchases,
         stage[p] > 0
  PROVE  stage'[p] > 0
<1>1. CASE UNCHANGED stage
  BY <1>1
<1>2. CASE \E q \in Purchases : EnterStage(q)
  BY <1>2 DEF DeliveryInvariant, StoresTyped, EnterStage
<1> QED
  BY <1>1, <1>2 DEF DeliveryNext, StoreNext, Arrive, deliveryVars, storeVars, Heal, Deliver,
                    Submit, Cleanup, Work, Answer, Advance, Fail

(* A handler keeps its purchase until it has none, unless a request arrives. *)
LEMMA EnteredStep ==
  ASSUME DeliveryInvariant, [DeliveryNext]_deliveryVars
  PROVE  JobsEntered'
<1> SUFFICES ASSUME NEW o \in Handlers, job'[o].purchase # Nil
             PROVE  stage'[job'[o].purchase] > 0
  BY DEF JobsEntered
<1>0. /\ RepositoryTypeOK /\ JobsEntered
      /\ job \in [Handlers -> Job]
      /\ \A h \in Handlers : job[h].purchase \in Purchases \cup {Nil}
  BY DEF DeliveryInvariant, RepositoryTypeOK, Job
<1>1. CASE job'[o].purchase = job[o].purchase
  BY <1>0, <1>1, StagesGrow DEF JobsEntered
<1>2. CASE UNCHANGED job
  BY <1>1, <1>2
<1>3. ASSUME NEW h \in Handlers, HandlerStep(h) \/ Rollback(h)
      PROVE  job'[o].purchase = job[o].purchase
  BY <1>0, <1>3, StepKeepsRequests, RepositoryAssumption DEF SameRequest, NoJob
<1>4. ASSUME NEW h \in Handlers, Receive(h), o # h
      PROVE  job'[o] = job[o]
  BY <1>0, <1>4, ReceiveOpens DEF OpenRequest, OpenDelete, Open
<1>5. ASSUME NEW h \in Handlers, NEW event \in EventIDs, Deliver(h, event), o = h
      PROVE  stage'[job'[o].purchase] > 0
  <2>1. job'[o].purchase \in Purchases
    <3>1. RepositoryTypeOK'
      BY <1>0, DeliveryStep, ServiceStep, TypeStep DEF DeliveryInvariant
    <3> QED BY <3>1 DEF RepositoryTypeOK, Job
  <2>2. Emitted(job'[o].purchase) # {} /\ stage' = stage
    BY <1>5 DEF Deliver, storeVars
  <2>3. 1..stage[job'[o].purchase] # {}
    BY <2>2 DEF Emitted, Entered
  <2> QED BY <2>1, <2>2, <2>3 DEF DeliveryInvariant, StoresTyped
<1>6. ASSUME NEW h \in Handlers, Submit(h), o = h
      PROVE  stage'[job'[o].purchase] > 0
  BY <1>6 DEF Submit, storeVars
<1>7. ASSUME NEW h \in Handlers, Cleanup(h), o = h
      PROVE  job'[o].purchase = Nil
  BY <1>0, <1>7 DEF Cleanup, ReceiveDelete, OpenDelete, Open, NoJob
<1>8. ASSUME NEW h \in Handlers,
             (\E event \in EventIDs : Deliver(h, event)) \/ Submit(h) \/ Cleanup(h)
      PROVE  Receive(h)
  BY <1>8 DEF Deliver, Submit, Cleanup, Receive
<1>9. ASSUME NEW h \in Handlers,
             (\E event \in EventIDs : Deliver(h, event)) \/ Submit(h) \/ Cleanup(h)
      PROVE  stage'[job'[o].purchase] > 0
  BY <1>1, <1>4, <1>5, <1>6, <1>7, <1>8, <1>9
<1>10. ASSUME NEW h \in Handlers, Work(h) \/ Fail(h)
       PROVE  HandlerStep(h) \/ Rollback(h)
  <2>1. ASSUME NEW p \in Purchases, Advance(h, p)
        PROVE  HandlerStep(h)
    <3>1. stage[p] > 0
      BY <2>1, RepositoryAssumption DEF Advance, DeliveryInvariant, JobsEntered
    <3> QED BY <2>1, <3>1, AnswersKnown, ProceedMonotone DEF Advance, DeliveryInvariant
  <2> QED BY <1>10, <2>1 DEF Work, Answer, Fail, HandlerStep
<1> QED
  BY <1>1, <1>2, <1>3, <1>9, <1>10
     DEF DeliveryNext, StoreNext, Arrive, deliveryVars, vars, Tick, EnterStage, Heal

(* Only a cleanup is at its DELETE. *)
LEMMA CleanupsStep ==
  ASSUME RepositoryTypeOK, CleanupsBare, [RepositoryNext]_vars
  PROVE  CleanupsBare'
<1>1. CASE UNCHANGED <<pc, job>>
  BY <1>1 DEF CleanupsBare
<1>2. ASSUME NEW h \in Handlers, Step(h)
      PROVE  CleanupsBare'
  <2>1. Frame(h)
    BY <1>2, FrameStep
  <2>2. pc'[h] = "delete" => job'[h].event = Nil
    <3>1. CASE \E user \in Users : OpenDelete(h, user)
      BY <3>1 DEF OpenDelete, Open, NoJob, RepositoryTypeOK
    <3>2. CASE RepositoryStep(h) \/ Rollback(h)
      BY <3>2 DEF RepositoryStep, GoOn, Conclude, Rollback, RecordEvent,
                  SkipDuplicateEvent, ExecWrite, WriteFails, Commit, ExecDelete,
                  Close, RepositoryTypeOK
    <3>3. CASE OpenRequest(h) \/ Reply(h) \/ ReplyRecording(h) \/ StageCreate(h)
               \/ StageUpdate(h) \/ StageUpsert(h) \/ StageNothing(h)
      BY <3>3 DEF OpenRequest, Open, Reply, Answered, ReplyRecording, Close,
                  StageCreate, StageUpdate, StageUpsert, Stage, StageNothing,
                  RepositoryTypeOK
    <3> QED BY <1>2, <3>1, <3>2, <3>3 DEF Step, ClientStep
  <2> QED BY <2>1, <2>2 DEF CleanupsBare, Frame
<1> QED
  BY <1>1, <1>2 DEF RepositoryNext, RecordAlone, Tick, vars, Step

(* A success answer is that of a commit that records the event, or of a      *)
(* duplicate whose event is recorded.                                        *)
LEMMA SettledStep ==
  ASSUME DeliveryInvariant, [DeliveryNext]_deliveryVars, events \subseteq events'
  PROVE  SettledIsRecorded'
<1>1. CASE settled' = settled
  BY <1>1 DEF DeliveryInvariant, SettledIsRecorded
<1>2. ASSUME NEW h \in Handlers, Answer(h)
      PROVE  SettledIsRecorded'
  <2>1. {job[h].event} \ {Nil} \subseteq events'
    BY <1>2 DEF Answer, Conclude, SkipDuplicateEvent, Commit, ExecDelete,
                DeliveryInvariant, CleanupsBare
  <2> QED BY <1>2, <2>1 DEF Answer, DeliveryInvariant, SettledIsRecorded
<1> QED
  BY <1>1, <1>2 DEF DeliveryNext, StoreNext, Arrive, deliveryVars, storeVars, EnterStage, Heal,
                    Deliver, Submit, Cleanup, Work, Advance, Fail

(* Nothing that is recorded is forgotten. *)
LEMMA EventsGrow ==
  ASSUME [RepositoryNext]_vars
  PROVE  events \subseteq events'
BY DEF RepositoryNext, RecordAlone, RecordOnly, Tick, vars, ClientStep, OpenRequest,
       Reply, ReplyRecording, StageCreate, StageUpdate, StageUpsert, StageNothing,
       OpenDelete, Open, Answered, Stage, RepositoryStep, GoOn, Conclude, RecordEvent,
       SkipDuplicateEvent, ExecWrite, WriteFails, Commit, Rollback, ExecDelete

(* The invariant is inductive.                                               *)
LEMMA DeliveryInductive ==
  DeliveryInvariant /\ [DeliveryNext]_deliveryVars => DeliveryInvariant'
<1> SUFFICES ASSUME DeliveryInvariant, [DeliveryNext]_deliveryVars
             PROVE  DeliveryInvariant'
  OBVIOUS
<1>1. RepositoryTypeOK /\ JobsMatchKinds /\ CleanupsBare
  BY DEF DeliveryInvariant
<1>2. [ServiceNext]_vars
  BY DeliveryStep
<1>3. [RepositoryNext]_vars
  BY <1>1, <1>2, ServiceStep
<1>4. RepositoryTypeOK' /\ JobsMatchKinds' /\ CleanupsBare'
  BY <1>1, <1>2, <1>3, TypeStep, JobsStep, CleanupsStep
<1>5. StoresTyped' /\ JobsEntered'
  BY StoresStep, EnteredStep
<1>6. SettledIsRecorded'
  BY <1>3, EventsGrow, SettledStep
<1> QED BY <1>4, <1>5, <1>6 DEF DeliveryInvariant

(* What a store takes for processed is recorded. *)
THEOREM DeliverySettles == DeliverySpec => []SettledIsRecorded
<1>1. DeliveryInvariant => SettledIsRecorded
  BY DEF DeliveryInvariant
<1> QED BY <1>1, DeliveryInitial, DeliveryInductive, PTL DEF DeliverySpec

(* Between stores that know their purchases the service does what            *)
(* ServiceSpec describes.                                                    *)
THEOREM DeliveryImplementsService == DeliverySpec => ServiceSpec
<1>1. DeliveryInit => RepositoryInit
  BY DEF DeliveryInit
<1>2. DeliveryInvariant /\ [DeliveryNext]_deliveryVars => [ServiceNext]_vars
  BY DeliveryStep
<1> QED
  BY <1>1, <1>2, DeliveryInitial, DeliveryInductive, PTL DEF DeliverySpec, ServiceSpec

(* A notification is applied in the step that records it, or not at all,     *)
(* however often and in whatever order it is delivered.                      *)
THEOREM DeliveryAppliesOnce == DeliverySpec => AppliedWithItsEvent
BY DeliveryImplementsService, ServiceAppliesOnce, PTL

(* And between its stores no Google row loses its expiry, nor an App Store   *)
(* row the date of its cancellation, whichever webhooks and verifications    *)
(* overlap.                                                                  *)
THEOREM DeliveryDates ==
  StoresDate => (DeliverySpec => [](GoogleRowsExpire /\ AppleCancellationsDated))
<1> SUFFICES ASSUME StoresDate
             PROVE  DeliverySpec => [](GoogleRowsExpire /\ AppleCancellationsDated)
  OBVIOUS
<1>1. ServiceSpec => []GoogleRowsExpire
  BY ServiceGoogleRowsExpire
<1>2. ServiceSpec => []AppleCancellationsDated
  BY ServiceCancellationsDated
<1> QED BY <1>1, <1>2, DeliveryImplementsService, PTL
-----------------------------------------------------------------------------
(* While no request arrives about a purchase that has one already, requests  *)
(* about one purchase do not overlap: nothing but an arrival gives a handler *)
(* a purchase.                                                               *)
LEMMA OneStays ==
  ASSUME DeliveryInvariant, OnePerPurchase, [SerialDeliveryNext]_deliveryVars
  PROVE  OnePerPurchase'
<1>0. RepositoryTypeOK /\ NoJob.purchase = Nil
  BY NoJobType DEF DeliveryInvariant
<1>1. CASE UNCHANGED job
  BY <1>1 DEF OnePerPurchase
<1>2. ASSUME NEW k \in Handlers, HandlerStep(k) \/ Rollback(k)
      PROVE  OnePerPurchase'
  <2>1. \A o \in Handlers : SameRequest(job'[o], job[o]) \/ job'[o] = NoJob
    BY <1>0, <1>2, StepKeepsRequests
  <2> QED BY <1>0, <2>1 DEF SameRequest, OnePerPurchase
<1>3. ASSUME NEW h \in Handlers, Work(h)
      PROVE  HandlerStep(h)
  <2>1. CASE Answer(h)
    BY <2>1 DEF Answer, HandlerStep
  <2>2. ASSUME NEW p \in Purchases, Advance(h, p)
        PROVE  HandlerStep(h)
    <3>1. stage[p] > 0
      BY <2>2, <1>3, RepositoryAssumption DEF Advance, DeliveryInvariant, JobsEntered
    <3> QED BY <2>2, <3>1, AnswersKnown, ProceedMonotone DEF Advance, DeliveryInvariant
  <2> QED BY <1>3, <2>1, <2>2 DEF Work
<1> QED
  BY <1>1, <1>2, <1>3
     DEF SerialDeliveryNext, StoreNext, Tick, EnterStage, Fail, deliveryVars, vars

(* Without overlap the service between its stores does what                  *)
(* SerialServiceSpec describes.                                              *)
THEOREM SerialDeliveryImplements == SerialDeliverySpec => SerialServiceSpec
<1>1. DeliveryInit => RepositoryInit /\ DeliveryInvariant /\ OnePerPurchase
  BY DeliveryInitial, SerialInit DEF DeliveryInit, SerialInvariant
<1>2. [SerialDeliveryNext]_deliveryVars => [DeliveryNext]_deliveryVars
  BY DEF SerialDeliveryNext, DeliveryNext
<1>3. DeliveryInvariant /\ OnePerPurchase /\ [SerialDeliveryNext]_deliveryVars
      => (DeliveryInvariant /\ OnePerPurchase)'
  BY <1>2, DeliveryInductive, OneStays
<1>4. DeliveryInvariant /\ OnePerPurchase /\ [SerialDeliveryNext]_deliveryVars
      => [ServiceNext /\ OnePerPurchase']_vars
  BY <1>2, DeliveryStep, OneStays
<1> QED
  BY <1>1, <1>3, <1>4, PTL DEF SerialDeliverySpec, SerialServiceSpec

(* However late, often and out of order the stores deliver, a row never goes *)
(* back to what an earlier event said of the purchase.                       *)
THEOREM DeliveryOrdersEvents == SerialDeliverySpec => LastEventAtNeverRegresses
BY SerialDeliveryImplements, SerialOrdersEvents, PTL

(* And the date of a cancellation stays until the subscription runs again.   *)
THEOREM DeliveryKeepsCancellation == SerialDeliverySpec => FirstCancellationKept
BY SerialDeliveryImplements, SerialKeepsCancellation, PTL
-----------------------------------------------------------------------------
(* What the requests under way and the rows have to do with the stages the   *)
(* purchases have entered, while requests about one purchase do not overlap. *)

NotificationAt(p, m) == StagesOf(p)[m].notification

(* Row r, or the request j, says what one of the views has said by time t. *)
Known(r, views, t) ==
  \E v \in views : r.status = v.status /\ r.expiresAt = v.expiresAt /\ v.at <= t

(* The last notification is recorded. *)
Ended(p) == Today(p).notification.event \in events

(* What the row may say: where the last notification settles the purchase,   *)
(* what it settles to, and all that was learned of it before.                *)
RowViews(p) ==
  IF Ended(p) /\ SettlesAt(p, StagesOf(p), stage[p])
    THEN Settled(p, StagesOf(p), stage[p])
    ELSE Past(p, StagesOf(p), stage[p])

(* The stages at which a request under way may have asked an API. *)
Asked(p) == IF Ended(p) THEN {stage[p]} ELSE 1..stage[p]

(* last_event_at is the date of a notification of the first k stages. *)
EventDated(r, stages, k) ==
  r.lastEventAt # NoTime =>
    \E m \in 1..k : r.lastEventAt = EventAt(stages[m].notification)

RowsFollow ==
  \A p \in Purchases : \A r \in subs :
    r.purchase = p => /\ stage[p] > 0
                      /\ Known(r, RowViews(p), now)
                      /\ EventDated(r, StagesOf(p), stage[p])

(* Job j is for notification n. *)
Names(j, n) ==
  /\ j.event = n.event /\ j.eventAt = EventAt(n)
  /\ IF n \in AppleNotifications
       THEN j.kind = "apple_webhook" /\ j.user = n.account
       ELSE j.kind = "google_webhook"

(* The request at step `at' is a delivery of the m-th notification; once it  *)
(* knows a status, that is what it has learned at one of the stages `asked'. *)
Delivers(j, at, stages, asked, t, m) ==
  /\ Names(j, stages[m].notification)
  /\ at # "call" =>
       \E i \in asked : i >= m /\ Known(j, EventViews(stages[m], stages[i]), t)

WebhooksFollow ==
  \A p \in Purchases : \A h \in Handlers :
    job[h].kind \in Webhooks /\ job[h].purchase = p =>
      \E m \in 1..stage[p] : Delivers(job[h], pc[h], StagesOf(p), Asked(p), now, m)

(* A verification of p waits with what it was called with, or has an answer. *)
Verifies(j, at, p, stages, asked, t) ==
  IF at # "call" THEN \E i \in asked : Known(j, AnswerViews(p, stages[i]), t)
  ELSE IF j.kind = "google_verify" THEN p \in GoogleTokens
  ELSE \E r \in AppleReceipts :
         r.purchase = p /\ j.status = "active" /\ j.expiresAt = r.expiresAt

VerificationsFollow ==
  \A p \in Purchases : \A h \in Handlers :
    job[h].kind \in Verifications /\ job[h].purchase = p =>
      Verifies(job[h], pc[h], p, StagesOf(p), Asked(p), now)

EventsSent == events \subseteq AllEmitted

(* Where a notification that names an account is recorded there is a row. *)
RowsMade ==
  \A p \in Purchases : \A m \in 1..stage[p] :
    NotificationAt(p, m).event \in events /\ NamesAccount(NotificationAt(p, m))
    => Stored(p) # {}

(* A decision taken from a row, and a webhook's that does not name nobody,   *)
(* find one when they are committed.                                         *)
Founded ==
  \A h \in Handlers :
    /\ Decided(h)
    /\ IF Staged(h) THEN write[h].op # "create"
       ELSE job[h].kind = "apple_webhook" /\ job[h].user # Nil
    => Stored(job[h].purchase) # {}

NoCleanups == \A h \in Handlers : pc[h] # "delete"

StagesBegun == \A p \in Purchases : stage[p] > 0 => Today(p).date <= now

LifeInvariant ==
  /\ DeliveryInvariant
  /\ SerialInvariant
  /\ NoCleanups
  /\ StagesBegun
  /\ EventsSent
  /\ WebhooksFollow
  /\ VerificationsFollow
  /\ Founded
  /\ RowsMade
  /\ RowsFollow
-----------------------------------------------------------------------------
(* The stages a purchase has entered are stages of its life. *)
LEMMA StageTypes ==
  ASSUME StoresTyped, NEW p \in Purchases
  PROVE  /\ stage[p] \in Nat
         /\ 1..stage[p] \subseteq DOMAIN StagesOf(p)
         /\ \A m \in DOMAIN StagesOf(p) :
              /\ StagesOf(p)[m] \in LifeStage
              /\ NotificationAt(p, m) \in AppleNotifications \cup GoogleNotifications
              /\ NotificationAt(p, m).purchase = p
              /\ StagesOf(p)[m].date \in Nat
         /\ StagesOf(p) \in Seq(LifeStage)
<1>1. StagesOf(p) \in Seq(LifeStage)
  BY DeliveryAssumption DEF StoresTyped, StagesOf
<1>2. /\ stage[p] \in Nat /\ Len(StagesOf(p)) \in Nat
      /\ stage[p] <= Len(StagesOf(p))
      /\ DOMAIN StagesOf(p) = 1..Len(StagesOf(p))
  BY <1>1 DEF StoresTyped
<1>3. ASSUME NEW m \in DOMAIN StagesOf(p)
      PROVE  /\ StagesOf(p)[m] \in LifeStage
             /\ StagesOf(p)[m].notification.purchase = p
  <2>1. life \in DOMAIN Lives
    BY DEF StoresTyped
  <2> QED BY <1>1, <1>2, <2>1, DeliveryAssumption DEF StagesOf
<1> QED BY <1>1, <1>2, <1>3 DEF LifeStage, NotificationAt

(* What could be learned goes on to have been. *)
LEMMA PastGrows ==
  ASSUME NEW p, NEW stages, NEW k \in Nat, NEW m \in 1..k
  PROVE  /\ Past(p, stages, m) \subseteq Past(p, stages, k)
         /\ Offered(p, stages, m) \subseteq Past(p, stages, k)
BY DEF Past

(* What settles was learned at some stage.                                   *)
LEMMA SettledIsPast ==
  ASSUME NEW p, NEW stages, NEW k \in Nat \ {0}
  PROVE  Settled(p, stages, k) \subseteq Past(p, stages, k)
<1>1. Offered(p, stages, k) \subseteq Past(p, stages, k)
  BY PastGrows
<1>2. /\ AnswerViews(p, stages[k]) \subseteq Offered(p, stages, k)
      /\ Own(stages, k) \subseteq Offered(p, stages, k)
      /\ Late(stages, k) \subseteq Offered(p, stages, k)
  BY DEF Offered, Own, Late
<1> QED BY <1>1, <1>2 DEF Settled

(* A view is learned at an instant. *)
LEMMA ViewsDated ==
  ASSUME NEW p, NEW s, NEW t
  PROVE  /\ \A v \in EventViews(s, t) : v.at \in During(t) /\ v.at \in Int
         /\ \A v \in AnswerViews(p, s) : v.at \in During(s) /\ v.at \in Int
BY DEF EventViews, AnswerViews, GoogleViews, View, During

(* All that was learned has its instant.                                     *)
LEMMA PastDated ==
  ASSUME NEW p, NEW stages, NEW k, NEW v \in Past(p, stages, k)
  PROVE  v.at \in Int
<1>1. PICK i \in 1..k : v \in Offered(p, stages, i)
  BY DEF Past
<1> QED BY <1>1, ViewsDated DEF Offered

(* What has been said by now has been said later. *)
LEMMA KnownOn ==
  ASSUME NEW r, NEW views, NEW t \in Nat, Known(r, views, t),
         \A v \in views : v.at \in Int,
         NEW more, views \subseteq more, NEW u \in Nat, t <= u
  PROVE  Known(r, more, u)
<1>1. PICK v \in views : r.status = v.status /\ r.expiresAt = v.expiresAt /\ v.at <= t
  BY DEF Known
<1>2. v.at \in Int /\ v.at <= u
  BY <1>1
<1> QED BY <1>1, <1>2 DEF Known

(* The test of a webhook is that of its view, but for the dates. *)
LEMMA AppliesAccepts ==
  ASSUME NEW j, NEW r, NEW v, NEW w,
         r.status = v.status, r.expiresAt = v.expiresAt,
         j.status = w.status, j.expiresAt = w.expiresAt
  PROVE  Applies(j, r) <=> Accepts(v, w) /\ ~Before(j.eventAt, r.lastEventAt)
BY DEF Applies, Accepts, ShouldApplyUpdate, Before, NoTime
-----------------------------------------------------------------------------
(* The steps there are, by what they do to a request. *)
Learns(h) ==
  \/ AppleReconciled(h, Today(job[h].purchase).apple)
  \/ AppleUnavailable(h, Today(job[h].purchase).apple)
  \/ GoogleStateFetched(h, Says(job[h].purchase))
  \/ GooglePurchaseFetched(h, Says(job[h].purchase))

Ends(h) == Close(h) /\ UNCHANGED <<subs, events>>

GoesOn(h) ==
  /\ UNCHANGED <<subs, events, job>>
  /\ pc[h] # "call" /\ pc'[h] \in {"find", "write", "commit"}
  /\ \A o \in Handlers \ {h} : pc'[o] = pc[o]

Moves(h) ==
  /\ UNCHANGED <<now, life, stage>>
  /\ Arrive(h) \/ Learns(h) \/ Ends(h) \/ GoesOn(h) \/ Commit(h)

(* Every step is one of these, or leaves the requests alone.                 *)
LEMMA LifeSteps ==
  ASSUME DeliveryInvariant, NoCleanups, [SerialDeliveryNext]_deliveryVars
  PROVE  \/ UNCHANGED <<vars, life, stage>>
         \/ Tick /\ UNCHANGED <<life, stage>>
         \/ \E p \in Purchases : EnterStage(p)
         \/ \E h \in Handlers : Moves(h)
<1>0. RepositoryTypeOK
  BY DEF DeliveryInvariant
<1>1. CASE UNCHANGED deliveryVars
  BY <1>1 DEF deliveryVars, storeVars
<1>2. CASE Tick /\ UNCHANGED storeVars
  BY <1>2 DEF storeVars
<1>3. ASSUME NEW h \in Handlers, Arrive(h)
      PROVE  Moves(h)
  BY <1>3 DEF Arrive, Submit, Deliver, ReceiveAppleNotification, ReceiveGoogleNotification,
              ReceiveAppleVerify, ReceiveGoogleVerify, Open, storeVars, Moves
<1>4. ASSUME NEW h \in Handlers, Answer(h)
      PROVE  Moves(h)
  <2>1. ~ExecDelete(h)
    BY DEF NoCleanups, ExecDelete
  <2> QED
    BY <1>4, <2>1 DEF Answer, Conclude, SkipDuplicateEvent, Commit, Close, Moves, Ends
<1>5. ASSUME NEW h \in Handlers, Fail(h)
      PROVE  Moves(h)
  BY <1>5 DEF Fail, Rollback, Close, storeVars, Moves, Ends
<1>6. ASSUME NEW h \in Handlers, NEW p \in Purchases, Advance(h, p)
      PROVE  Moves(h)
  <2>1. /\ job[h].purchase = p /\ UNCHANGED <<life, stage>>
        /\ Proceed(h, Today(p).apple, Says(p))
    BY <1>6 DEF Advance, storeVars
  <2>2. stage[p] > 0
    BY <2>1, RepositoryAssumption DEF DeliveryInvariant, JobsEntered
  <2>3. \A a \in Says(p) : a.outcome # "not_found"
    <3>1. stage[p] \in DOMAIN StagesOf(p) /\ life \in DOMAIN Lives
      BY <2>2, StageTypes DEF DeliveryInvariant, StoresTyped
    <3> QED BY <3>1, DeliveryAssumption DEF Says, Today, StagesOf
  <2>4. CASE Stages(h)
    <3>1. UNCHANGED <<subs, events, job, now>> /\ pc[h] = "find"
          /\ pc' = [pc EXCEPT ![h] = "write"]
      BY <2>4
         DEF Stages, UpdateFromNotification, CreateFromNotification, UpsertAppleVerified,
             CreateAppleVerified, UpdateFromGoogle, UpsertGoogleVerified,
             CreateGoogleVerified, Stage
    <3> QED BY <1>0, <2>1, <3>1 DEF Moves, GoesOn, RepositoryTypeOK
  <2>5. CASE Skips(h) \/ RecordEvent(h) \/ ExecWrite(h)
    <3>1. UNCHANGED <<subs, events, job, now>> /\ pc[h] # "call"
          /\ \E at \in {"find", "commit"} : pc' = [pc EXCEPT ![h] = at]
      BY <2>5
         DEF Skips, SkipUnresolved, SkipStaleNotification, SkipUnknownToken,
             SkipStaleGoogle, StageNothing, RecordEvent, ExecWrite
    <3> QED BY <1>0, <2>1, <3>1 DEF Moves, GoesOn, RepositoryTypeOK
  <2>6. CASE AppleRefused(h, Today(p).apple) \/ GoogleStateFailed(h, Says(p))
             \/ GooglePurchaseRefused(h, Says(p)) \/ WriteFails(h)
    BY <2>1, <2>6
       DEF AppleRefused, GoogleStateFailed, GooglePurchaseRefused, WriteFails, Close,
           Moves, Ends
  <2>7. CASE Learns(h)
    BY <2>1, <2>7
       DEF Learns, AppleReconciled, AppleUnavailable, GoogleStateFetched,
           GooglePurchaseFetched, Answered, Moves
  <2>8. ~GoogleStateMissing(h, Says(p))
    BY <2>3 DEF GoogleStateMissing
  <2> QED
    BY <2>1, <2>4, <2>5, <2>6, <2>7, <2>8
       DEF Proceed, AppleWebhookStep, ApplePurchaseStep, GoogleWebhookStep,
           GooglePurchaseStep, GoOn, Stages, Skips, Learns
<1> QED
  BY <1>1, <1>2, <1>3, <1>4, <1>5, <1>6
     DEF SerialDeliveryNext, StoreNext, Work, Fail

(* An event belongs to one notification, and that to one stage of a purchase. *)
LEMMA SameEvent ==
  ASSUME EventsIdentify, StoresTyped,
         NEW p \in Purchases, NEW i \in DOMAIN StagesOf(p),
         NEW q \in Purchases, NEW j \in DOMAIN StagesOf(q),
         NotificationAt(p, i).event = NotificationAt(q, j).event
  PROVE  p = q /\ i = j /\ NotificationAt(p, i) = NotificationAt(q, j)
<1>1. p = q /\ NotificationAt(p, i) = NotificationAt(q, j)
  BY StageTypes DEF EventsIdentify
<1> QED BY <1>1 DEF EventsIdentify, StoresTyped, StagesOf, NotificationAt

(* A purchase that enters a stage was not at its end before, nor is it now.  *)
LEMMA NotYet ==
  ASSUME EventsIdentify, StoresTyped, EventsSent, NEW p \in Purchases, EnterStage(p)
  PROVE  /\ stage[p] + 1 \in DOMAIN StagesOf(p)
         /\ NotificationAt(p, stage[p] + 1).event \notin events
<1>1. stage[p] + 1 \in DOMAIN StagesOf(p)
  BY StageTypes DEF EnterStage
<1>2. ASSUME NotificationAt(p, stage[p] + 1).event \in events
      PROVE  FALSE
  <2>1. PICK q \in Purchases : NotificationAt(p, stage[p] + 1).event \in Emitted(q)
    BY <1>2 DEF EventsSent, AllEmitted
  <2>2. PICK j \in 1..stage[q] :
          NotificationAt(p, stage[p] + 1).event = NotificationAt(q, j).event
    BY <2>1 DEF Emitted, Entered, NotificationAt
  <2>3. j \in DOMAIN StagesOf(q)
    BY StageTypes
  <2>4. p = q /\ stage[p] + 1 = j
    BY <1>1, <2>2, <2>3, SameEvent
  <2> QED BY <2>2, <2>4, StageTypes
<1> QED BY <1>1, <1>2

(* A handler that commits works for a purchase. *)
LEMMA CommitPurchase ==
  ASSUME LifeInvariant, NEW h \in Handlers, Commit(h)
  PROVE  job[h].purchase \in Purchases /\ stage[job[h].purchase] > 0
<1>1. job[h].kind \in Webhooks \cup Verifications
  BY DEF LifeInvariant, SerialInvariant, JobsName, Busy, Commit
<1>2. MatchesKind(job[h])
  BY DEF LifeInvariant, SerialInvariant, JobsMatchKinds
<1>3. job[h] \in Job
  BY JobType DEF LifeInvariant, DeliveryInvariant
<1> QED
  BY <1>1, <1>2, <1>3 DEF MatchesKind, Job, LifeInvariant, DeliveryInvariant, JobsEntered

(* The event a commit records is one of its purchase. *)
LEMMA CommitRecords ==
  ASSUME LifeInvariant, NEW h \in Handlers, Commit(h)
  PROVE  \/ /\ job[h].kind \in Verifications /\ events' = events
         \/ /\ job[h].kind \in Webhooks
            /\ events' = events \cup {job[h].event}
            /\ \E m \in 1..stage[job[h].purchase] :
                 job[h].event = NotificationAt(job[h].purchase, m).event
<1>1. job[h].kind \in Webhooks \cup Verifications
  BY DEF LifeInvariant, SerialInvariant, JobsName, Busy, Commit
<1>2. MatchesKind(job[h])
  BY DEF LifeInvariant, SerialInvariant, JobsMatchKinds
<1>3. CASE job[h].kind \in Verifications
  BY <1>2, <1>3 DEF MatchesKind, Commit
<1>4. CASE job[h].kind \in Webhooks
  <2>1. PICK m \in 1..stage[job[h].purchase] :
          Names(job[h], NotificationAt(job[h].purchase, m))
    BY <1>4, CommitPurchase
       DEF LifeInvariant, WebhooksFollow, Delivers, NotificationAt
  <2> QED BY <1>2, <1>4, <2>1 DEF MatchesKind, Commit, Names
<1> QED BY <1>1, <1>3, <1>4

(* Unless a request about it commits, what is possible for a purchase stays  *)
(* so.                                                                       *)
LEMMA LifeKept ==
  ASSUME EventsIdentify, LifeInvariant, [SerialDeliveryNext]_deliveryVars,
         NEW p \in Purchases, stage[p] > 0,
         \A h \in Handlers : Commit(h) => job[h].purchase # p
  PROVE  /\ Asked(p) \subseteq Asked(p)'
         /\ RowViews(p) \subseteq RowViews(p)'
<1> USE DEF LifeInvariant
<1>0. StoresTyped /\ RepositoryTypeOK
  BY DEF DeliveryInvariant
<1>1. stage[p] \in Nat /\ stage[p] \in DOMAIN StagesOf(p)
  BY <1>0, StageTypes
<1>2. CASE UNCHANGED <<life, stage, events>>
  BY <1>2 DEF Asked, RowViews, Ended, Today, StagesOf
<1>3. ASSUME NEW q \in Purchases, EnterStage(q), q # p
      PROVE  UNCHANGED <<life, events>> /\ stage'[p] = stage[p]
  BY <1>0, <1>3 DEF EnterStage, StoresTyped, vars
<1>4. ASSUME UNCHANGED life, stage'[p] = stage[p], Ended(p)' = Ended(p)
      PROVE  Asked(p)' = Asked(p) /\ RowViews(p)' = RowViews(p)
  BY <1>4 DEF Asked, RowViews, StagesOf
<1>5. CASE EnterStage(p)
  <2>1. /\ stage'[p] = stage[p] + 1 /\ events' = events
        /\ StagesOf(p)' = StagesOf(p)
    BY <1>0, <1>5 DEF EnterStage, StoresTyped, vars, StagesOf
  <2>2. ~Ended(p)'
    BY <1>0, <1>5, <2>1, NotYet DEF Ended, Today, NotificationAt
  <2>3. Asked(p)' = 1..(stage[p] + 1)
    BY <2>1, <2>2 DEF Asked
  <2>4. RowViews(p)' = Past(p, StagesOf(p), stage[p] + 1)
    BY <2>1, <2>2 DEF RowViews
  <2>5. Past(p, StagesOf(p), stage[p]) \subseteq Past(p, StagesOf(p), stage[p] + 1)
    BY <1>1, PastGrows
  <2>6. Settled(p, StagesOf(p), stage[p]) \subseteq Past(p, StagesOf(p), stage[p])
    BY <1>1, SettledIsPast
  <2>7. Asked(p) \subseteq 1..(stage[p] + 1)
    BY <1>1 DEF Asked
  <2> QED BY <2>3, <2>4, <2>5, <2>6, <2>7 DEF RowViews
<1>6. ASSUME NEW h \in Handlers, Moves(h), Commit(h)
      PROVE  Ended(p)' = Ended(p)
  <2> DEFINE q == job[h].purchase
  <2>1. q \in Purchases /\ q # p
    BY <1>6, CommitPurchase
  <2>2. Today(p)' = Today(p)
    BY <1>6 DEF Moves, Today, StagesOf
  <2>3. ASSUME NEW m \in 1..stage[q],
               Today(p).notification.event = NotificationAt(q, m).event
        PROVE  FALSE
    <3>1. m \in DOMAIN StagesOf(q)
      BY <1>0, <2>1, StageTypes
    <3>2. NotificationAt(p, stage[p]).event = NotificationAt(q, m).event
      BY <2>3 DEF Today, NotificationAt
    <3> QED BY <1>0, <1>1, <2>1, <3>1, <3>2, SameEvent
  <2> QED BY <1>6, <2>2, <2>3, CommitRecords DEF Ended
<1>7. ASSUME NEW h \in Handlers, Moves(h), ~Commit(h)
      PROVE  UNCHANGED <<life, stage, events>>
  BY <1>7
     DEF Moves, Arrive, Deliver, Submit, ReceiveAppleNotification, ReceiveGoogleNotification,
         ReceiveAppleVerify, ReceiveGoogleVerify, Open, Learns, AppleReconciled,
         AppleUnavailable, GoogleStateFetched, GooglePurchaseFetched, Answered, Ends, GoesOn
<1>8. UNCHANGED <<life, stage, events>> \/ (\E q \in Purchases : EnterStage(q))
      \/ (\E h \in Handlers : Moves(h) /\ Commit(h))
  BY <1>7, LifeSteps DEF Tick, vars
<1>9. ASSUME NEW h \in Handlers, Moves(h), Commit(h)
      PROVE  Asked(p)' = Asked(p) /\ RowViews(p)' = RowViews(p)
  BY <1>4, <1>6, <1>9 DEF Moves
<1>10. ASSUME NEW q \in Purchases, EnterStage(q), q # p
       PROVE  Asked(p)' = Asked(p) /\ RowViews(p)' = RowViews(p)
  <2>1. UNCHANGED <<life, events>> /\ stage'[p] = stage[p]
    BY <1>3, <1>10
  <2>2. Ended(p)' = Ended(p)
    BY <2>1 DEF Ended, Today, StagesOf
  <2> QED BY <1>4, <2>1, <2>2
<1> QED BY <1>2, <1>5, <1>8, <1>9, <1>10
-----------------------------------------------------------------------------
(* The parts of the invariant, one by one. *)
LEMMA LifeIsSerial ==
  ASSUME LifeInvariant, [SerialDeliveryNext]_deliveryVars
  PROVE  /\ [DeliveryNext]_deliveryVars
         /\ [ServiceNext]_vars
         /\ OnePerPurchase'
         /\ RepositoryTypeOK /\ RepositoryTypeOK'
         /\ StoresTyped /\ StoresTyped'
<1>1. [DeliveryNext]_deliveryVars
  BY DEF SerialDeliveryNext, DeliveryNext
<1>2. DeliveryInvariant'
  BY <1>1, DeliveryInductive DEF LifeInvariant
<1> QED
  BY <1>1, <1>2, DeliveryStep, OneStays DEF LifeInvariant, SerialInvariant, DeliveryInvariant

(* No cleanup begins.                                                        *)
LEMMA NoCleanupsStep ==
  ASSUME LifeInvariant, [SerialDeliveryNext]_deliveryVars
  PROVE  NoCleanups'
<1>0. RepositoryTypeOK
  BY DEF LifeInvariant, DeliveryInvariant
<1>1. ASSUME NEW h \in Handlers, Moves(h)
      PROVE  NoCleanups'
  <2>1. CASE Arrive(h)
    BY <1>0, <2>1
       DEF Arrive, Deliver, Submit, ReceiveAppleNotification, ReceiveGoogleNotification,
           ReceiveAppleVerify, ReceiveGoogleVerify, Open, LifeInvariant, NoCleanups,
           RepositoryTypeOK
  <2>2. CASE Learns(h)
    BY <1>0, <2>2
       DEF Learns, AppleReconciled, AppleUnavailable, GoogleStateFetched,
           GooglePurchaseFetched, Answered, LifeInvariant, NoCleanups, RepositoryTypeOK
  <2>3. CASE Ends(h) \/ Commit(h)
    BY <1>0, <2>3 DEF Ends, Commit, Close, LifeInvariant, NoCleanups, RepositoryTypeOK
  <2>4. CASE GoesOn(h)
    BY <2>4 DEF GoesOn, LifeInvariant, NoCleanups
  <2> QED BY <1>1, <2>1, <2>2, <2>3, <2>4 DEF Moves
<1> QED
  BY <1>0, <1>1, LifeSteps
     DEF LifeInvariant, DeliveryInvariant, NoCleanups, Tick, EnterStage, vars

(* The clock does not run back behind the stage a purchase is at. *)
LEMMA StagesBegunStep ==
  ASSUME LifeInvariant, [SerialDeliveryNext]_deliveryVars
  PROVE  StagesBegun'
<1>0. RepositoryTypeOK /\ StoresTyped /\ StagesBegun
  BY LifeIsSerial DEF LifeInvariant
<1> USE DEF StagesBegun, Today, StagesOf
<1>1. CASE UNCHANGED <<life, stage, now>>
  BY <1>0, <1>1
<1>2. CASE Tick /\ UNCHANGED <<life, stage>>
  <2>1. now \in Nat
    BY <1>0, RepositoryAssumption DEF RepositoryTypeOK
  <2>2. \A p \in Purchases : stage[p] > 0 => Today(p).date \in Nat
    BY <1>0, StageTypes
  <2> QED BY <1>0, <1>2, <2>1, <2>2 DEF Tick
<1>3. ASSUME NEW p \in Purchases, EnterStage(p)
      PROVE  StagesBegun'
  <2>1. /\ stage' = [stage EXCEPT ![p] = @ + 1] /\ UNCHANGED <<life, now>>
        /\ StagesOf(p)[stage[p] + 1].date <= now
    BY <1>3 DEF EnterStage, vars
  <2> QED BY <1>0, <2>1 DEF StoresTyped
<1> QED
  BY <1>1, <1>2, <1>3, LifeSteps DEF LifeInvariant, Moves, vars

(* Only what was sent is recorded. *)
LEMMA EventsSentStep ==
  ASSUME LifeInvariant, [SerialDeliveryNext]_deliveryVars
  PROVE  EventsSent'
<1>0. StoresTyped /\ EventsSent
  BY LifeIsSerial DEF LifeInvariant
<1>1. ASSUME NEW p \in Purchases, UNCHANGED life, stage'[p] \in Nat, stage[p] <= stage'[p]
      PROVE  Emitted(p) \subseteq Emitted(p)'
  <2>1. 1..stage[p] \subseteq 1..stage'[p]
    BY <1>0, <1>1 DEF StoresTyped
  <2> QED BY <1>1, <2>1 DEF Emitted, Entered, StagesOf
<1>2. AllEmitted \subseteq AllEmitted'
  <2>1. CASE UNCHANGED <<life, stage>>
    BY <2>1 DEF AllEmitted, Emitted, Entered, StagesOf
  <2>2. ASSUME NEW p \in Purchases, EnterStage(p)
        PROVE  \A q \in Purchases : stage'[q] \in Nat /\ stage[q] <= stage'[q]
    BY <1>0, <2>2 DEF EnterStage, StoresTyped
  <2>3. ASSUME NEW p \in Purchases, EnterStage(p)
        PROVE  AllEmitted \subseteq AllEmitted'
    BY <1>1, <2>2, <2>3 DEF EnterStage, AllEmitted
  <2> QED
    BY <2>1, <2>3, LifeSteps DEF LifeInvariant, Moves
<1>3. ASSUME NEW h \in Handlers, Commit(h)
      PROVE  events' \subseteq AllEmitted
  BY <1>0, <1>3, CommitRecords, CommitPurchase
     DEF EventsSent, AllEmitted, Emitted, Entered, NotificationAt
<1>4. ASSUME NEW h \in Handlers, Moves(h), ~Commit(h)
      PROVE  events' = events
  BY <1>4
     DEF Moves, Arrive, Deliver, Submit, ReceiveAppleNotification, ReceiveGoogleNotification,
         ReceiveAppleVerify, ReceiveGoogleVerify, Open, Learns, AppleReconciled,
         AppleUnavailable, GoogleStateFetched, GooglePurchaseFetched, Answered, Ends, GoesOn
<1>5. events' = events \/ \E h \in Handlers : Commit(h)
  BY <1>4, LifeSteps DEF LifeInvariant, Tick, EnterStage, vars
<1> QED BY <1>0, <1>2, <1>3, <1>5 DEF EventsSent

(* No row goes away. *)
LEMMA RowStays ==
  ASSUME LifeInvariant, [SerialDeliveryNext]_deliveryVars, NEW p, Stored(p) # {}
  PROVE  {r \in subs' : r.purchase = p} # {}
<1>1. CASE UNCHANGED subs
  BY <1>1 DEF Stored
<1>2. ASSUME NEW h \in Handlers, Commit(h)
      PROVE  {r \in subs' : r.purchase = p} # {}
  BY <1>2, CommitKeepsRows DEF LifeInvariant, SerialInvariant, Stored
<1>3. ASSUME NEW h \in Handlers, Moves(h), ~Commit(h)
      PROVE  subs' = subs
  BY <1>3
     DEF Moves, Arrive, Deliver, Submit, ReceiveAppleNotification, ReceiveGoogleNotification,
         ReceiveAppleVerify, ReceiveGoogleVerify, Open, Learns, AppleReconciled,
         AppleUnavailable, GoogleStateFetched, GooglePurchaseFetched, Answered, Ends, GoesOn
<1> QED
  BY <1>1, <1>2, <1>3, LifeSteps DEF LifeInvariant, Tick, EnterStage, vars

(* A decision that leans on a row has it until the commit.                   *)
LEMMA FoundedStep ==
  ASSUME LifeInvariant, [SerialDeliveryNext]_deliveryVars
  PROVE  Founded'
<1>1. /\ SerialInvariant /\ RepositoryTypeOK /\ JobsMatchKinds /\ PhasesMatch
      /\ [ServiceNext]_vars
  BY LifeIsSerial DEF LifeInvariant, SerialInvariant, RepositoryInvariant
<1> DEFINE Leans(h) == IF Staged(h) THEN write[h].op # "create"
                       ELSE job[h].kind = "apple_webhook" /\ job[h].user # Nil
<1> SUFFICES ASSUME NEW h \in Handlers, Decided(h)', Leans(h)'
             PROVE  {r \in subs' : r.purchase = job'[h].purchase} # {}
  BY DEF Founded, Stored
<1>2. CASE Decided(h)
  <2>1. SameDecision(job'[h], job[h]) /\ write'[h] = write[h]
    BY <1>1, <1>2, DecidedKept
  <2>2. Leans(h)
    BY <2>1 DEF Staged, SameDecision, SameRequest
  <2>3. Stored(job[h].purchase) # {}
    BY <1>2, <2>2 DEF LifeInvariant, Founded
  <2>4. {r \in subs' : r.purchase = job[h].purchase} # {}
    BY <2>3, RowStays
  <2> QED BY <2>1, <2>4 DEF SameDecision, SameRequest
<1>3. CASE ~Decided(h)
  <2>1. Acts(h)
    BY <1>1, <1>3, ServiceActs, ActsStep, FrameStep DEF Decided, Frame
  <2>2. Stages(h) \/ Skips(h)
    BY <1>1, <1>3, <2>1, DecidesInOneStep
  <2>3. job' = job /\ subs' = subs
    BY <1>1, <2>2, StageFits, SkipFits
  <2>4. Stored(job[h].purchase) # {}
    <3>1. CASE Skips(h)
      <4>1. write'[h] = NoWrite
        BY <1>1, <3>1, SkipFits
      <4>2. job[h].kind = "apple_webhook" /\ job[h].user # Nil
        BY <2>3, <4>1 DEF Staged
      <4> QED
        BY <3>1, <4>2 DEF Skips, SkipUnresolved, SkipStaleNotification, SkipUnknownToken,
                          SkipStaleGoogle, FindsForGoogle
    <3>2. CASE UpdateFromNotification(h) \/ UpdateFromGoogle(h) \/ UpsertAppleVerified(h)
               \/ UpsertGoogleVerified(h)
      BY <3>2 DEF UpdateFromNotification, UpdateFromGoogle, UpsertAppleVerified,
                  UpsertGoogleVerified
    <3>3. CASE CreateFromNotification(h) \/ CreateAppleVerified(h) \/ CreateGoogleVerified(h)
      <4>1. PICK row : write'[h] = [op |-> "create", row |-> row]
        BY <1>1, <3>3 DEF CreateFromNotification, CreateAppleVerified, CreateGoogleVerified,
                          Stage, RepositoryTypeOK
      <4>2. write'[h].op = "create" /\ NoWrite.op # "create"
        BY <4>1 DEF NoWrite
      <4> QED BY <4>2 DEF Staged
    <3> QED BY <2>2, <3>1, <3>2, <3>3 DEF Stages
  <2> QED BY <2>3, <2>4 DEF Stored
<1> QED BY <1>2, <1>3

(* What a commit leaves in the table is the row it has made, and the rows it *)
(* did not concern.                                                          *)
LEMMA CommitLeaves ==
  ASSUME LifeInvariant, NEW h \in Handlers, Commit(h), Staged(h)
  PROVE  \E user \in Users :
           LET new == [write[h].row EXCEPT !.user = user]
           IN  /\ subs' = (subs \ WithID(write[h].row.id)) \cup {new}
               /\ new.purchase = job[h].purchase
               /\ new.status = write[h].row.status
               /\ new.expiresAt = write[h].row.expiresAt
               /\ new.lastEventAt = write[h].row.lastEventAt
<1>1. RepositoryInvariant /\ RepositoryTypeOK
  BY DEF LifeInvariant, SerialInvariant, RepositoryInvariant
<1>2. PICK user \in Users :
        LET new == [write[h].row EXCEPT !.user = user]
        IN  /\ Persist(write[h]) = (subs \ WithID(write[h].row.id)) \cup {new}
            /\ new.purchase = write[h].row.purchase
  BY <1>1, CommittedRow
<1>3. write[h].row.purchase = job[h].purchase
  BY DEF LifeInvariant, SerialInvariant, DecisionsStand, Decided, Commit
<1>4. write[h].row \in Row
  BY <1>1, StagedType
<1> QED BY <1>2, <1>3, <1>4 DEF Commit, Row

(* A notification that names an account is recorded with a row, or finds one. *)
LEMMA RowsMadeStep ==
  ASSUME EventsIdentify, LifeInvariant, [SerialDeliveryNext]_deliveryVars
  PROVE  RowsMade'
<1>0. StoresTyped /\ StoresTyped' /\ NoCleanups
      /\ DeliveryInvariant
  BY LifeIsSerial DEF LifeInvariant
<1>1. life' = life
  BY <1>0, LifeSteps DEF EnterStage, Moves
<1> SUFFICES ASSUME NEW p \in Purchases, NEW m \in 1..stage'[p],
                    NotificationAt(p, m).event \in events',
                    NamesAccount(NotificationAt(p, m))
             PROVE  {r \in subs' : r.purchase = p} # {}
  BY <1>1 DEF RowsMade, NotificationAt, StagesOf, NamesAccount, Stored
<1>2. m \in DOMAIN StagesOf(p)
  <2>1. StagesOf(p)' = StagesOf(p)
    BY <1>1 DEF StagesOf
  <2>2. StagesOf(p) \in Seq(LifeStage)
    BY <1>0, StageTypes
  <2>3. stage'[p] \in Nat /\ stage'[p] <= Len(StagesOf(p))
    BY <1>0, <2>1 DEF StoresTyped
  <2> QED BY <2>2, <2>3
<1>3. CASE NotificationAt(p, m).event \in events /\ m \in 1..stage[p]
  BY <1>3, RowStays DEF LifeInvariant, RowsMade
<1>4. CASE NotificationAt(p, m).event \in events /\ m \notin 1..stage[p]
  <2>1. EnterStage(p) /\ m = stage[p] + 1
    <3>1. stage'[p] # stage[p]
      BY <1>4
    <3>2. PICK q \in Purchases : EnterStage(q)
      BY <1>0, <3>1, LifeSteps DEF Moves
    <3>3. q = p
      BY <1>0, <3>1, <3>2 DEF EnterStage, StoresTyped
    <3> QED BY <1>0, <1>4, <3>2, <3>3 DEF EnterStage, StoresTyped
  <2> QED BY <1>0, <1>4, <2>1, NotYet DEF LifeInvariant
<1>5. CASE NotificationAt(p, m).event \notin events
  <2>1. PICK h \in Handlers : Commit(h)
    <3>1. events' # events
      BY <1>5
    <3>2. ASSUME NEW h \in Handlers, Moves(h), ~Commit(h)
          PROVE  events' = events
      BY <3>2
         DEF Moves, Arrive, Deliver, Submit, ReceiveAppleNotification,
             ReceiveGoogleNotification, ReceiveAppleVerify, ReceiveGoogleVerify, Open,
             Learns, AppleReconciled, AppleUnavailable, GoogleStateFetched,
             GooglePurchaseFetched, Answered, Ends, GoesOn
    <3> QED BY <1>0, <3>1, <3>2, LifeSteps DEF Tick, EnterStage, vars
  <2> DEFINE q == job[h].purchase
  <2>2. q \in Purchases
    BY <2>1, CommitPurchase
  <2>3. job[h].kind \in Webhooks /\ job[h].event = NotificationAt(p, m).event
    BY <1>5, <2>1, CommitRecords
  <2>4. PICK i \in 1..stage[q] : Names(job[h], NotificationAt(q, i))
    BY <2>2, <2>3 DEF LifeInvariant, WebhooksFollow, Delivers, NotificationAt
  <2>5. i \in DOMAIN StagesOf(q) /\ NotificationAt(p, m).event = NotificationAt(q, i).event
    BY <1>0, <2>2, <2>3, <2>4, StageTypes DEF Names
  <2>6. p = q /\ NotificationAt(p, m) = NotificationAt(q, i)
    BY <1>0, <1>2, <2>2, <2>5, SameEvent
  <2>7. job[h].kind = "apple_webhook" /\ job[h].user # Nil
    BY <2>4, <2>6 DEF Names, NamesAccount
  <2>8. CASE Staged(h)
    BY <2>1, <2>6, <2>8, CommitLeaves
  <2>9. CASE ~Staged(h)
    BY <2>1, <2>6, <2>7, <2>9, RowStays DEF LifeInvariant, Founded, Decided, Commit
  <2> QED BY <2>8, <2>9
<1> QED BY <1>3, <1>4, <1>5

(* A step of one handler leaves the requests of the others alone, and the    *)
(* lives of the purchases.                                                   *)
LEMMA OthersWait ==
  ASSUME RepositoryTypeOK, NEW h \in Handlers, Moves(h), NEW o \in Handlers \ {h}
  PROVE  job'[o] = job[o] /\ pc'[o] = pc[o]
BY DEF Moves, Arrive, Deliver, Submit, ReceiveAppleNotification, ReceiveGoogleNotification,
       ReceiveAppleVerify, ReceiveGoogleVerify, Open, Learns, AppleReconciled,
       AppleUnavailable, GoogleStateFetched, GooglePurchaseFetched, Answered, Ends, GoesOn,
       Commit, Close, RepositoryTypeOK

(* The life is chosen once; the clock and the stages only go on.             *)
LEMMA LifeStays ==
  ASSUME LifeInvariant, [SerialDeliveryNext]_deliveryVars
  PROVE  /\ life' = life
         /\ now \in Nat /\ now' \in Nat /\ now <= now'
         /\ \A p \in Purchases : /\ stage[p] \in Nat /\ stage'[p] \in Nat
                                 /\ stage[p] <= stage'[p]
<1>0. RepositoryTypeOK /\ RepositoryTypeOK' /\ StoresTyped /\ StoresTyped'
      /\ DeliveryInvariant /\ NoCleanups
  BY LifeIsSerial DEF LifeInvariant
<1>1. now \in Nat /\ now' \in Nat
  BY <1>0, RepositoryAssumption DEF RepositoryTypeOK
<1>2. ASSUME NEW p \in Purchases, EnterStage(p)
      PROVE  life' = life /\ now' = now
             /\ \A q \in Purchases : stage[q] <= stage'[q]
  BY <1>0, <1>2 DEF EnterStage, StoresTyped, vars
<1> QED
  BY <1>0, <1>1, <1>2, LifeSteps DEF StoresTyped, Moves, Tick, vars

(* Where one handler commits, no other works for the same purchase. *)
LEMMA NoneCommits ==
  ASSUME LifeInvariant, NEW p \in Purchases,
         NEW o \in Handlers, job[o].purchase = p, ~Commit(o),
         NEW h \in Handlers, Commit(h)
  PROVE  job[h].purchase # p
BY RepositoryAssumption DEF LifeInvariant, SerialInvariant, OnePerPurchase

(* A request that waits says what it said. *)
LEMMA DeliversOn ==
  ASSUME NEW j, NEW at, NEW stages, NEW asked, NEW t \in Nat, NEW m,
         Delivers(j, at, stages, asked, t, m),
         NEW at2, at2 # "call" => at # "call", NEW asked2, asked \subseteq asked2,
         NEW t2 \in Nat, t <= t2
  PROVE  Delivers(j, at2, stages, asked2, t2, m)
<1>1. ASSUME NEW i, Known(j, EventViews(stages[m], stages[i]), t)
      PROVE  Known(j, EventViews(stages[m], stages[i]), t2)
  BY <1>1, ViewsDated, KnownOn
<1> QED BY <1>1 DEF Delivers

(* So does a verification.                                                   *)
LEMMA VerifiesOn ==
  ASSUME NEW j, NEW at, NEW p, NEW stages, NEW asked, NEW t \in Nat,
         Verifies(j, at, p, stages, asked, t),
         NEW at2, at2 # "call" <=> at # "call",
         NEW asked2, asked \subseteq asked2, NEW t2 \in Nat, t <= t2
  PROVE  Verifies(j, at2, p, stages, asked2, t2)
<1>1. ASSUME NEW i, Known(j, AnswerViews(p, stages[i]), t)
      PROVE  Known(j, AnswerViews(p, stages[i]), t2)
  BY <1>1, ViewsDated, KnownOn
<1> QED BY <1>1 DEF Verifies

(* What a request has learned at the stage its purchase is at. *)
LEMMA WebhookWaits ==
  ASSUME EventsIdentify, LifeInvariant, [SerialDeliveryNext]_deliveryVars,
         NEW p \in Purchases, NEW o \in Handlers,
         job[o].kind \in Webhooks, job[o].purchase = p, job'[o] = job[o],
         pc'[o] # "call" => pc[o] # "call", ~Commit(o)
  PROVE  \E m \in 1..stage'[p] :
           Delivers(job'[o], pc'[o], StagesOf(p)', Asked(p)', now', m)
<1>1. PICK m \in 1..stage[p] : Delivers(job[o], pc[o], StagesOf(p), Asked(p), now, m)
  BY DEF LifeInvariant, WebhooksFollow
<1>2. stage[p] > 0
  BY <1>1, LifeStays
<1>3. Asked(p) \subseteq Asked(p)'
  BY <1>2, LifeKept, NoneCommits
<1>4. StagesOf(p)' = StagesOf(p)
  BY LifeStays DEF StagesOf
<1>5. Delivers(job'[o], pc'[o], StagesOf(p)', Asked(p)', now', m)
  BY <1>1, <1>3, <1>4, LifeStays, DeliversOn
<1> QED BY <1>1, <1>5, LifeStays

(* The same of a verification.                                               *)
LEMMA VerificationWaits ==
  ASSUME EventsIdentify, LifeInvariant, [SerialDeliveryNext]_deliveryVars,
         NEW p \in Purchases, NEW o \in Handlers,
         job[o].kind \in Verifications, job[o].purchase = p, job'[o] = job[o],
         pc'[o] # "call" <=> pc[o] # "call", ~Commit(o)
  PROVE  Verifies(job'[o], pc'[o], p, StagesOf(p)', Asked(p)', now')
<1>1. Verifies(job[o], pc[o], p, StagesOf(p), Asked(p), now)
  BY DEF LifeInvariant, VerificationsFollow
<1>2. stage[p] > 0
  BY RepositoryAssumption DEF LifeInvariant, DeliveryInvariant, JobsEntered
<1>3. Asked(p) \subseteq Asked(p)'
  BY <1>2, LifeKept, NoneCommits
<1>4. StagesOf(p)' = StagesOf(p)
  BY LifeStays DEF StagesOf
<1> QED BY <1>1, <1>3, <1>4, LifeStays, VerifiesOn

(* A request learns something while the store is at the stage it is at.      *)
LEMMA TodayAsked ==
  ASSUME LifeInvariant, NEW p \in Purchases, stage[p] > 0
  PROVE  /\ stage[p] \in Asked(p) /\ stage[p] \in Nat
         /\ Today(p) = StagesOf(p)[stage[p]]
         /\ now \in During(Today(p))
<1>1. StoresTyped /\ RepositoryTypeOK
  BY DEF LifeInvariant, DeliveryInvariant
<1>2. stage[p] \in Nat /\ stage[p] \in DOMAIN StagesOf(p)
  BY <1>1, StageTypes
<1>3. Today(p).date \in Nat /\ Today(p).date <= now
  BY <1>1, <1>2, StageTypes DEF LifeInvariant, StagesBegun, Today
<1> QED
  BY <1>1, <1>2, <1>3, RepositoryAssumption DEF Asked, During, Today, RepositoryTypeOK

(* The notification a delivery is for. *)
LEMMA Identified ==
  ASSUME EventsIdentify, StoresTyped, NEW p \in Purchases, NEW m \in 1..stage[p],
         NEW n \in AppleNotifications \cup GoogleNotifications,
         n.event = NotificationAt(p, m).event
  PROVE  n = NotificationAt(p, m)
BY StageTypes DEF EventsIdentify

(* What arrives is a delivery of a notification that was sent. *)
LEMMA DeliveryBegins ==
  ASSUME EventsIdentify, LifeInvariant, NEW p \in Purchases, NEW h \in Handlers,
         NEW event \in EventIDs, Deliver(h, event), job'[h].purchase = p
  PROVE  \E m \in 1..stage[p] :
           Delivers(job'[h], pc'[h], StagesOf(p), Asked(p), now, m)
<1>0. RepositoryTypeOK /\ StoresTyped
  BY DEF LifeInvariant, DeliveryInvariant
<1>1. PICK m \in 1..stage[p] : event = NotificationAt(p, m).event
  BY DEF Deliver, Emitted, Entered, NotificationAt
<1>2. stage[p] > 0
  BY <1>0, <1>1, StageTypes
<1>3. CASE ReceiveAppleNotification(h)
  <2>1. PICK n \in AppleNotifications :
          AppleProcessable(n, now) /\ Open(h, AppleJob(n, now), "record")
    BY <1>3 DEF ReceiveAppleNotification
  <2>2. job'[h] = AppleJob(n, now)
    BY <1>0, <2>1 DEF Open, RepositoryTypeOK
  <2>3. /\ job'[h].kind = "apple_webhook" /\ job'[h].event = n.event
        /\ job'[h].user = n.account /\ job'[h].status = mapAppleStatus(n, now)
        /\ job'[h].expiresAt = n.expiresAt /\ job'[h].eventAt = AppleEventAt(n)
    BY <2>2 DEF AppleJob, NoJob
  <2>4. n = NotificationAt(p, m)
    BY <1>0, <1>1, <2>3, Identified DEF Deliver
  <2>5. Names(job'[h], n)
    BY <2>3 DEF Names, EventAt
  <2> DEFINE v == View(mapAppleStatus(n, now), n.expiresAt, now)
  <2>6. v \in EventViews(StagesOf(p)[m], StagesOf(p)[stage[p]])
    BY <1>2, <2>1, <2>4, TodayAsked DEF EventViews, NotificationAt
  <2>7. Known(job'[h], EventViews(StagesOf(p)[m], StagesOf(p)[stage[p]]), now)
    <3>1. /\ job'[h].status = v.status /\ job'[h].expiresAt = v.expiresAt
          /\ v.at <= now
      BY <1>0, <2>3, RepositoryAssumption DEF View, RepositoryTypeOK
    <3> QED BY <2>6, <3>1 DEF Known
  <2>8. stage[p] >= m
    BY <1>2, TodayAsked
  <2> QED BY <1>2, <2>4, <2>5, <2>7, <2>8, TodayAsked DEF Delivers, NotificationAt
<1>4. CASE ReceiveGoogleNotification(h)
  <2>1. PICK n \in GoogleNotifications :
          Open(h, [NoJob EXCEPT !.kind = "google_webhook", !.event = n.event,
                                !.purchase = n.purchase, !.eventAt = GoogleEventAt(n)],
               "call")
    BY <1>4 DEF ReceiveGoogleNotification
  <2>2. /\ job'[h].kind = "google_webhook" /\ job'[h].event = n.event
        /\ job'[h].eventAt = GoogleEventAt(n) /\ pc'[h] = "call"
    BY <1>0, <2>1 DEF Open, NoJob, RepositoryTypeOK
  <2>3. n = NotificationAt(p, m)
    BY <1>0, <1>1, <2>2, Identified DEF Deliver
  <2>4. n \notin AppleNotifications
    BY <1>0, <2>1 DEF EventsIdentify
  <2>5. Names(job'[h], n)
    BY <2>2, <2>4 DEF Names, EventAt
  <2> QED BY <2>2, <2>3, <2>5 DEF Delivers, NotificationAt
<1> QED BY <1>3, <1>4 DEF Deliver

(* The answer about a notification's purchase is what its API says today.    *)
LEMMA WebhookLearns ==
  ASSUME EventsIdentify, LifeInvariant, NEW p \in Purchases, NEW h \in Handlers,
         job[h].purchase = p, GoogleStateFetched(h, Says(p))
  PROVE  \E m \in 1..stage[p] :
           Delivers(job'[h], pc'[h], StagesOf(p), Asked(p), now, m)
<1>0. RepositoryTypeOK /\ StoresTyped
  BY DEF LifeInvariant, DeliveryInvariant
<1>1. PICK n \in NotificationOf(h), answer \in Says(p) :
        /\ answer.outcome = "found"
        /\ Answered(h, [job[h] EXCEPT !.status = mapGoogleStatus(n.type, answer, now),
                                      !.expiresAt = answer.expiresAt,
                                      !.cancelledAt = answer.cancelledAt], "record")
  BY DEF GoogleStateFetched
<1>2. PICK m \in 1..stage[p] : Names(job[h], NotificationAt(p, m))
  BY DEF GoogleStateFetched, CallsGoogleForWebhook, LifeInvariant, WebhooksFollow, Delivers,
         NotificationAt, Webhooks
<1>3. stage[p] > 0 /\ stage[p] >= m
  BY <1>0, StageTypes
<1>4. n = NotificationAt(p, m)
  BY <1>0, <1>2, Identified DEF NotificationOf, Names
<1>5. n \notin AppleNotifications
  BY <1>0, <1>1 DEF EventsIdentify, NotificationOf
<1>6. /\ job'[h].event = job[h].event /\ job'[h].eventAt = job[h].eventAt
      /\ job'[h].kind = job[h].kind
      /\ job'[h].status = mapGoogleStatus(n.type, answer, now)
      /\ job'[h].expiresAt = answer.expiresAt
  BY <1>0, <1>1, JobType DEF Answered, RepositoryTypeOK, Job
<1> DEFINE v == View(mapGoogleStatus(n.type, answer, now), answer.expiresAt, now)
<1>7. v \in EventViews(StagesOf(p)[m], StagesOf(p)[stage[p]])
  BY <1>1, <1>3, <1>4, <1>5, TodayAsked DEF EventViews, GoogleViews, NotificationAt, Says
<1>8. Known(job'[h], EventViews(StagesOf(p)[m], StagesOf(p)[stage[p]]), now)
  <2>1. /\ job'[h].status = v.status /\ job'[h].expiresAt = v.expiresAt
        /\ v.at <= now
    BY <1>0, <1>6, RepositoryAssumption DEF View, RepositoryTypeOK
  <2> QED BY <1>7, <2>1 DEF Known
<1>9. Names(job'[h], n)
  BY <1>2, <1>4, <1>5, <1>6 DEF Names
<1> QED BY <1>3, <1>4, <1>8, <1>9, TodayAsked DEF Delivers, NotificationAt

(* A verification starts from a receipt, or from a token. *)
LEMMA VerificationBegins ==
  ASSUME LifeInvariant, NEW p \in Purchases, NEW h \in Handlers, Submit(h),
         job'[h].purchase = p, job'[h].kind \in Verifications
  PROVE  Verifies(job'[h], pc'[h], p, StagesOf(p), Asked(p), now)
<1>0. RepositoryTypeOK
  BY DEF LifeInvariant, DeliveryInvariant
<1>1. stage[p] > 0
  BY DEF Submit
<1>2. CASE ReceiveAppleVerify(h)
  <2>1. PICK receipt \in AppleReceipts :
          /\ receipt.purchase = p
          /\ job'[h].kind = "apple_verify"
          /\ job'[h].status = "active" /\ job'[h].expiresAt = receipt.expiresAt
          /\ pc'[h] = IF AppleAPIConfigured THEN "call" ELSE "find"
    BY <1>0, <1>2 DEF ReceiveAppleVerify, Open, NoJob, RepositoryTypeOK
  <2>2. CASE AppleAPIConfigured
    BY <2>1, <2>2 DEF Verifies
  <2>3. CASE ~AppleAPIConfigured
    <3> DEFINE v == View("active", receipt.expiresAt, now)
    <3>1. v \in AnswerViews(p, StagesOf(p)[stage[p]])
      BY <1>1, <2>1, <2>3, TodayAsked DEF AnswerViews
    <3>2. job'[h].status = v.status /\ job'[h].expiresAt = v.expiresAt /\ v.at <= now
      BY <1>0, <2>1, RepositoryAssumption DEF View, RepositoryTypeOK
    <3> QED BY <1>1, <2>1, <2>3, <3>1, <3>2, TodayAsked DEF Verifies, Known
  <2> QED BY <2>2, <2>3
<1>3. CASE ReceiveGoogleVerify(h)
  BY <1>0, <1>3 DEF ReceiveGoogleVerify, Open, NoJob, RepositoryTypeOK, Verifies
<1> QED BY <1>2, <1>3 DEF Submit

(* And learns what an API says today, or nothing but the receipt. *)
LEMMA VerificationLearns ==
  ASSUME LifeInvariant, NEW p \in Purchases, NEW h \in Handlers,
         job[h].purchase = p,
         \/ AppleReconciled(h, Today(p).apple) \/ AppleUnavailable(h, Today(p).apple)
         \/ GooglePurchaseFetched(h, Says(p))
  PROVE  Verifies(job'[h], pc'[h], p, StagesOf(p), Asked(p), now)
<1>0. RepositoryTypeOK /\ now <= now
  BY RepositoryAssumption DEF LifeInvariant, DeliveryInvariant, RepositoryTypeOK
<1>1. stage[p] > 0
  BY RepositoryAssumption DEF LifeInvariant, DeliveryInvariant, JobsEntered
<1> DEFINE answers == AnswerViews(p, StagesOf(p)[stage[p]])
<1>2. ASSUME NEW v \in answers, job'[h].status = v.status, job'[h].expiresAt = v.expiresAt,
             v.at = now, pc'[h] # "call"
      PROVE  Verifies(job'[h], pc'[h], p, StagesOf(p), Asked(p), now)
  BY <1>0, <1>1, <1>2, TodayAsked DEF Verifies, Known
<1>3. CASE AppleReconciled(h, Today(p).apple)
  <2>1. PICK a \in Today(p).apple :
          /\ a.purchase = p /\ a.outcome = "ok"
          /\ Answered(h, [job[h] EXCEPT !.status = a.status, !.expiresAt = a.expiresAt],
                      "find")
    BY <1>3 DEF AppleReconciled, AnswersFor
  <2>2. job'[h].status = a.status /\ job'[h].expiresAt = a.expiresAt /\ pc'[h] # "call"
    BY <1>0, <2>1, JobType DEF Answered, RepositoryTypeOK, Job
  <2> DEFINE v == View(a.status, a.expiresAt, now)
  <2>3. v \in answers
    BY <1>1, <2>1, TodayAsked DEF AnswerViews
  <2> QED BY <1>2, <2>2, <2>3 DEF View
<1>4. CASE AppleUnavailable(h, Today(p).apple)
  <2>1. /\ job'[h] = job[h] /\ pc'[h] # "call" /\ pc[h] = "call"
        /\ job[h].kind = "apple_verify"
        /\ \E a \in Today(p).apple : a.purchase = p /\ a.outcome = "unavailable"
    BY <1>0, <1>4 DEF AppleUnavailable, CallsApple, Answered, AnswersFor, RepositoryTypeOK
  <2>2. PICK r \in AppleReceipts :
          r.purchase = p /\ job[h].status = "active" /\ job[h].expiresAt = r.expiresAt
    BY <2>1 DEF LifeInvariant, VerificationsFollow, Verifies, Verifications
  <2> DEFINE v == View("active", r.expiresAt, now)
  <2>3. v \in answers
    BY <1>1, <2>1, <2>2, TodayAsked DEF AnswerViews
  <2> QED BY <1>2, <2>1, <2>2, <2>3 DEF View
<1>5. CASE GooglePurchaseFetched(h, Says(p))
  <2>1. PICK a \in Says(p) :
          /\ a.outcome = "found"
          /\ Answered(h, [job[h] EXCEPT !.status = mapGoogleStatus("OTHER", a, now),
                                        !.expiresAt = a.expiresAt], "find")
    BY <1>5 DEF GooglePurchaseFetched
  <2>2. /\ job'[h].status = mapGoogleStatus("OTHER", a, now)
        /\ job'[h].expiresAt = a.expiresAt /\ pc'[h] # "call"
    BY <1>0, <2>1, JobType DEF Answered, RepositoryTypeOK, Job
  <2>3. p \in GoogleTokens
    BY <1>5 DEF GooglePurchaseFetched, CallsGoogleForVerify, LifeInvariant,
                VerificationsFollow, Verifies, Verifications
  <2> DEFINE v == View(mapGoogleStatus("OTHER", a, now), a.expiresAt, now)
  <2>4. v \in GoogleViews("OTHER", Today(p))
    BY <1>1, <2>1, TodayAsked DEF GoogleViews, Says
  <2>5. v \in answers
    BY <1>1, <2>3, <2>4, TodayAsked DEF AnswerViews
  <2> QED BY <1>2, <2>2, <2>5 DEF View
<1> QED BY <1>3, <1>4, <1>5

(* What a step makes of the request of the handler that takes it: nothing,   *)
(* a new one, what it was, or one that has learned something.                *)
LEMMA MoverChanges ==
  ASSUME RepositoryTypeOK, NEW h \in Handlers, Moves(h), job'[h].purchase # Nil
  PROVE  /\ ~Commit(h)
         /\ \/ Arrive(h) /\ UNCHANGED <<life, stage, events, now>>
            \/ Learns(h) /\ UNCHANGED <<life, stage, events, now>>
               /\ job'[h].purchase = job[h].purchase /\ job'[h].kind = job[h].kind
            \/ job'[h] = job[h] /\ pc[h] # "call" /\ pc'[h] # "call"
<1>1. ~Close(h)
  BY FrameClose, NoJobType
<1>2. CASE Arrive(h)
  BY <1>1, <1>2 DEF Moves, Arrive, Submit, Deliver, ReceiveAppleNotification,
                    ReceiveGoogleNotification, ReceiveAppleVerify, ReceiveGoogleVerify, Open,
                    Commit
<1>3. CASE Learns(h)
  <2>1. /\ job[h].kind = job'[h].kind /\ job[h].purchase = job'[h].purchase
        /\ UNCHANGED <<events, now>>
    <3>1. job[h] \in Job
      BY JobType
    <3>2. CASE AppleUnavailable(h, Today(job[h].purchase).apple)
      BY <3>2 DEF AppleUnavailable, Answered, RepositoryTypeOK
    <3>3. CASE AppleReconciled(h, Today(job[h].purchase).apple)
      BY <3>1, <3>3 DEF AppleReconciled, Answered, RepositoryTypeOK, Job
    <3>4. CASE GoogleStateFetched(h, Says(job[h].purchase))
      BY <3>1, <3>4 DEF GoogleStateFetched, Answered, RepositoryTypeOK, Job
    <3>5. CASE GooglePurchaseFetched(h, Says(job[h].purchase))
      BY <3>1, <3>5 DEF GooglePurchaseFetched, Answered, RepositoryTypeOK, Job
    <3> QED BY <1>3, <3>2, <3>3, <3>4, <3>5 DEF Learns
  <2> QED BY <1>1, <1>3, <2>1 DEF Moves, Commit
<1> QED BY <1>1, <1>2, <1>3 DEF Moves, Ends, GoesOn, Commit

(* The request of a handler is the one it had, or one the handler has just   *)
(* received or learned about.                                                *)
LEMMA RequestsGoOn ==
  ASSUME LifeInvariant, [SerialDeliveryNext]_deliveryVars,
         NEW p \in Purchases, NEW o \in Handlers, job'[o].purchase = p
  PROVE  /\ ~Commit(o)
         /\ \/ job'[o] = job[o] /\ (pc'[o] # "call" <=> pc[o] # "call")
            \/ /\ UNCHANGED <<now, stage>>
               /\ StagesOf(p)' = StagesOf(p) /\ Asked(p)' = Asked(p)
               /\ \/ Arrive(o)
                  \/ Learns(o) /\ job[o].purchase = p /\ job'[o].kind = job[o].kind
<1>0. RepositoryTypeOK /\ DeliveryInvariant /\ NoCleanups /\ p # Nil
  BY RepositoryAssumption DEF LifeInvariant, DeliveryInvariant
<1>1. ~Commit(o)
  BY <1>0, FrameClose, NoJobType DEF Commit
<1>2. ASSUME UNCHANGED <<life, stage, events>>
      PROVE  StagesOf(p)' = StagesOf(p) /\ Asked(p)' = Asked(p)
  BY <1>2 DEF StagesOf, Asked, Ended, Today
<1>3. CASE Moves(o)
  BY <1>0, <1>2, <1>3, MoverChanges
<1>4. ASSUME NEW h \in Handlers, Moves(h), h # o
      PROVE  job'[o] = job[o] /\ pc'[o] = pc[o]
  BY <1>0, <1>4, OthersWait
<1> QED
  BY <1>0, <1>1, <1>3, <1>4, LifeSteps DEF Tick, EnterStage, vars

(* Every delivery under way is of a notification that was sent.              *)
LEMMA WebhooksStep ==
  ASSUME EventsIdentify, LifeInvariant, [SerialDeliveryNext]_deliveryVars
  PROVE  WebhooksFollow'
<1> SUFFICES ASSUME NEW p \in Purchases, NEW o \in Handlers,
                    job'[o].kind \in Webhooks, job'[o].purchase = p
             PROVE  \E m \in 1..stage'[p] :
                      Delivers(job'[o], pc'[o], StagesOf(p)', Asked(p)', now', m)
  BY DEF WebhooksFollow
<1>1. CASE Arrive(o) /\ UNCHANGED <<now, stage>> /\ StagesOf(p)' = StagesOf(p)
           /\ Asked(p)' = Asked(p)
  <2>1. ASSUME Submit(o) PROVE FALSE
    <3>1. CASE ReceiveAppleVerify(o)
      <4>1. job'[o].kind = "apple_verify"
        BY <3>1, LifeIsSerial DEF ReceiveAppleVerify, Open, NoJob, RepositoryTypeOK
      <4> QED BY <4>1 DEF Webhooks
    <3>2. CASE ReceiveGoogleVerify(o)
      <4>1. job'[o].kind = "google_verify"
        BY <3>2, LifeIsSerial DEF ReceiveGoogleVerify, Open, NoJob, RepositoryTypeOK
      <4> QED BY <4>1 DEF Webhooks
    <3> QED BY <2>1, <3>1, <3>2 DEF Submit
  <2> QED BY <1>1, <2>1, DeliveryBegins DEF Arrive
<1>2. CASE /\ Learns(o) /\ job[o].purchase = p /\ job'[o].kind = job[o].kind
           /\ UNCHANGED <<now, stage>> /\ StagesOf(p)' = StagesOf(p)
           /\ Asked(p)' = Asked(p)
  <2>1. GoogleStateFetched(o, Says(p))
    BY <1>2 DEF Learns, AppleReconciled, AppleUnavailable, CallsApple,
                GooglePurchaseFetched, CallsGoogleForVerify, Webhooks
  <2> QED BY <1>2, <2>1, WebhookLearns
<1> QED BY <1>1, <1>2, RequestsGoOn, WebhookWaits

(* Every verification under way says what it could learn.                    *)
LEMMA VerificationsStep ==
  ASSUME EventsIdentify, LifeInvariant, [SerialDeliveryNext]_deliveryVars
  PROVE  VerificationsFollow'
<1> SUFFICES ASSUME NEW p \in Purchases, NEW o \in Handlers,
                    job'[o].kind \in Verifications, job'[o].purchase = p
             PROVE  Verifies(job'[o], pc'[o], p, StagesOf(p)', Asked(p)', now')
  BY DEF VerificationsFollow
<1>1. CASE Arrive(o) /\ UNCHANGED <<now, stage>> /\ StagesOf(p)' = StagesOf(p)
           /\ Asked(p)' = Asked(p)
  <2>1. ASSUME NEW event \in EventIDs, Deliver(o, event)
        PROVE  FALSE
    <3>1. CASE ReceiveAppleNotification(o)
      <4>1. PICK n \in AppleNotifications : job'[o] = AppleJob(n, now)
        BY <3>1, LifeIsSerial DEF ReceiveAppleNotification, Open, RepositoryTypeOK
      <4> QED BY <4>1 DEF AppleJob, NoJob, Verifications
    <3>2. CASE ReceiveGoogleNotification(o)
      BY <3>2, LifeIsSerial
         DEF ReceiveGoogleNotification, Open, NoJob, RepositoryTypeOK, Verifications
    <3> QED BY <2>1, <3>1, <3>2 DEF Deliver
  <2> QED BY <1>1, <2>1, VerificationBegins DEF Arrive
<1>2. CASE /\ Learns(o) /\ job[o].purchase = p /\ job'[o].kind = job[o].kind
           /\ UNCHANGED <<now, stage>> /\ StagesOf(p)' = StagesOf(p)
           /\ Asked(p)' = Asked(p)
  <2>1. ~GoogleStateFetched(o, Says(p))
    BY <1>2 DEF GoogleStateFetched, CallsGoogleForWebhook, Verifications
  <2> QED BY <1>2, <2>1, VerificationLearns DEF Learns
<1> QED BY <1>1, <1>2, RequestsGoOn, VerificationWaits
-----------------------------------------------------------------------------
(* What a commit leaves of its purchase: the row it has made, which says     *)
(* what the request has learned, or the row that did not take that.          *)
Takes(h, s) ==
  /\ s.status = job[h].status /\ s.expiresAt = job[h].expiresAt
  /\ \/ s.lastEventAt = NoTime
     \/ \E r \in Stored(job[h].purchase) : s.lastEventAt = r.lastEventAt
     \/ job[h].kind \in Webhooks /\ s.lastEventAt = job[h].eventAt
  /\ job[h].kind \in Webhooks =>
       /\ \A r \in Stored(job[h].purchase) : Applies(job[h], r)
       /\ Stored(job[h].purchase) = {} => job[h].kind = "apple_webhook" /\ job[h].user # Nil

Leaves(h, s) == s \in subs /\ job[h].kind \in Webhooks /\ ~Applies(job[h], s)

(* There is no third: a decision still stands when it is committed.          *)
LEMMA CommitMakes ==
  ASSUME LifeInvariant, NEW h \in Handlers, Commit(h),
         NEW s \in subs', s.purchase = job[h].purchase
  PROVE  Takes(h, s) \/ Leaves(h, s)
<1> DEFINE p == job[h].purchase
<1>0. /\ RepositoryTypeOK /\ OneRowPerPurchase /\ DecisionsStand /\ Founded
      /\ Decided(h)
  BY DEF LifeInvariant, SerialInvariant, RepositoryInvariant, Decided, Commit
<1>1. CASE ~Staged(h)
  <2>1. s \in Stored(p)
    BY <1>1 DEF Commit, Persist, Staged, Stored
  <2>2. Fits(job[h], NoWrite, s)
    BY <1>0, <1>1, <2>1 DEF DecisionsStand, Staged
  <2> QED BY <2>1, <2>2 DEF Fits, Leaves, Stored
<1>2. CASE Staged(h)
  <2> DEFINE w == write[h].row
  <2>1. \A r \in Stored(p) : /\ write[h].op # "create" /\ r.id = w.id
                             /\ MadeFrom(job[h], r, w) /\ r \in Row
    BY <1>0, <1>2 DEF DecisionsStand, Staged, Fits, RepositoryTypeOK, Stored
  <2>2. /\ s.status = w.status /\ s.expiresAt = w.expiresAt
        /\ s.lastEventAt = w.lastEventAt
    <3>1. s \notin subs \ WithID(w.id)
      BY <2>1 DEF Stored, WithID
    <3> QED BY <1>2, <3>1, CommitLeaves
  <2>3. CASE Stored(p) # {}
    <3>1. PICK r \in Stored(p) : MadeFrom(job[h], r, w) /\ r \in Row
      BY <2>1, <2>3
    <3>2. /\ w.status = job[h].status /\ w.expiresAt = job[h].expiresAt
          /\ \/ w.lastEventAt = r.lastEventAt
             \/ job[h].kind \in Webhooks /\ w.lastEventAt = job[h].eventAt
      BY <3>1
         DEF MadeFrom, AppleApplied, GoogleApplied, AppleVerified, GoogleVerified, Row, Webhooks
    <3>3. job[h].kind \in Webhooks => \A q \in Stored(p) : Applies(job[h], q)
      BY <2>1, MadeByWebhook
    <3> QED BY <2>2, <2>3, <3>2, <3>3 DEF Takes
  <2>4. CASE Stored(p) = {}
    <3>1. MadeNew(job[h], w)
      BY <1>0, <1>2, <2>4 DEF Founded, DecisionsStand
    <3>2. /\ w.status = job[h].status /\ w.expiresAt = job[h].expiresAt
          /\ \/ w.lastEventAt = NoTime
             \/ job[h].kind \in Webhooks /\ w.lastEventAt = job[h].eventAt
          /\ job[h].kind \in Webhooks => job[h].kind = "apple_webhook" /\ job[h].user # Nil
      <4>1. CASE w = AppleNewRow(w.id, job[h], w.updatedAt)
                 /\ job[h].kind = "apple_webhook" /\ job[h].user # Nil
        BY <4>1 DEF AppleNewRow, Webhooks
      <4>2. CASE w = AppleVerifiedRow(w.id, job[h], w.updatedAt)
                 /\ job[h].kind = "apple_verify"
        BY <4>2 DEF AppleVerifiedRow, Webhooks
      <4>3. CASE w = GoogleVerifiedRow(w.id, job[h], w.updatedAt)
                 /\ job[h].kind = "google_verify"
        BY <4>3 DEF GoogleVerifiedRow, Webhooks
      <4> QED BY <3>1, <4>1, <4>2, <4>3 DEF MadeNew
    <3> QED BY <2>2, <2>4, <3>2 DEF Takes
  <2> QED BY <2>3, <2>4
<1> QED BY <1>1, <1>2

(* What the request that commits has learned is what its purchase's row may  *)
(* say, whatever the row that it replaces has said.                          *)
LEMMA LearnedFollows ==
  ASSUME LifeInvariant, NEW p \in Purchases, NEW h \in Handlers, Commit(h),
         job[h].purchase = p, job[h].kind \in Verifications
  PROVE  Known(job[h], RowViews(p), now)
<1>1. StoresTyped /\ stage[p] \in Nat /\ stage[p] > 0
  BY CommitPurchase, StageTypes DEF LifeInvariant, DeliveryInvariant
<1>2. PICK i \in Asked(p) : Known(job[h], AnswerViews(p, StagesOf(p)[i]), now)
  BY DEF LifeInvariant, VerificationsFollow, Verifies, Commit
<1>3. AnswerViews(p, StagesOf(p)[i]) \subseteq RowViews(p)
  <2>1. AnswerViews(p, StagesOf(p)[i]) \subseteq Past(p, StagesOf(p), stage[p])
    BY <1>1, PastGrows DEF Asked, Offered
  <2>2. Ended(p) =>
          AnswerViews(p, StagesOf(p)[i]) \subseteq Settled(p, StagesOf(p), stage[p])
    BY DEF Asked, Settled
  <2> QED BY <2>1, <2>2 DEF RowViews
<1> QED BY <1>2, <1>3 DEF Known

(* The date a webhook is dropped for is not the last notification's.         *)
LEMMA LastNotDropped ==
  ASSUME StoresTyped, NEW p \in Purchases, stage[p] > 0,
         EndsInOrder(StagesOf(p), stage[p]), NEW s, EventDated(s, StagesOf(p), stage[p])
  PROVE  ~Before(EventAt(NotificationAt(p, stage[p])), s.lastEventAt)
<1> DEFINE k == stage[p]
           at == EventAt(NotificationAt(p, k))
<1>1. k \in Nat /\ k \in DOMAIN StagesOf(p)
  BY StageTypes
<1>2. at \in Nat
  BY <1>1, StageTypes, AppleWebhookAssumption, GoogleWebhookAssumption
     DEF EventAt, AppleEventAt, GoogleEventAt, AppleNotification, GoogleNotification
<1>3. SUFFICES ASSUME s.lastEventAt # NoTime
               PROVE  ~Before(at, s.lastEventAt)
  BY DEF Before
<1>4. PICK m \in 1..k : s.lastEventAt = EventAt(NotificationAt(p, m))
  BY <1>3 DEF EventDated, NotificationAt
<1>5. CASE m = k
  BY <1>2, <1>4, <1>5 DEF Before
<1>6. CASE m # k
  <2>1. m \in 1..(k - 1)
    BY <1>1, <1>6
  <2> QED BY <1>4, <2>1 DEF EndsInOrder, NotificationAt
<1> QED BY <1>5, <1>6

(* Once a delivery of the m-th notification commits, the row says what that  *)
(* notification makes of it, or what did not let it in.                      *)
LEMMA DeliveredFollows ==
  ASSUME EventsIdentify, LifeInvariant, NEW p \in Purchases, NEW h \in Handlers, Commit(h),
         job[h].purchase = p, job[h].kind \in Webhooks,
         NEW s, Takes(h, s) \/ (Leaves(h, s) /\ s.purchase = p),
         NEW m \in 1..stage[p], Delivers(job[h], pc[h], StagesOf(p), Asked(p), now, m)
  PROVE  Known(s, IF /\ m = stage[p] \/ Ended(p)
                     /\ SettlesAt(p, StagesOf(p), stage[p])
                    THEN Settled(p, StagesOf(p), stage[p])
                    ELSE Past(p, StagesOf(p), stage[p]), now)
<1> DEFINE k == stage[p]
           st == StagesOf(p)
           j == job[h]
<1>1. /\ StoresTyped /\ k \in Nat /\ k > 0 /\ k \in DOMAIN st
  BY CommitPurchase, StageTypes DEF LifeInvariant, DeliveryInvariant
<1>2. PICK i \in Asked(p) : i >= m /\ Known(j, EventViews(st[m], st[i]), now)
  BY DEF Delivers, Commit
<1>3. i \in 1..k /\ m \in 1..i
  BY <1>1, <1>2 DEF Asked
<1>4. PICK w \in EventViews(st[m], st[i]) :
        j.status = w.status /\ j.expiresAt = w.expiresAt /\ w.at <= now
  BY <1>2 DEF Known
<1>5. w \in Past(p, st, k)
  <2>1. w \in Offered(p, st, i)
    BY <1>3, <1>4 DEF Offered
  <2> QED BY <1>1, <1>3, <2>1, PastGrows
<1>6. Settled(p, st, k) \subseteq Past(p, st, k)
  BY <1>1, SettledIsPast
<1>7. ASSUME NEW r \in subs, r.purchase = p
      PROVE  \E v \in RowViews(p) :
               /\ r.status = v.status /\ r.expiresAt = v.expiresAt /\ v.at <= now
               /\ v \in Past(p, st, k)
               /\ Applies(j, r) <=> Accepts(v, w) /\ ~Before(j.eventAt, r.lastEventAt)
  <2>1. PICK v \in RowViews(p) :
          r.status = v.status /\ r.expiresAt = v.expiresAt /\ v.at <= now
    BY <1>7 DEF LifeInvariant, RowsFollow, Known
  <2>2. v \in Past(p, st, k)
    BY <1>6, <2>1 DEF RowViews
  <2>3. Applies(j, r) <=> Accepts(v, w) /\ ~Before(j.eventAt, r.lastEventAt)
    BY <1>4, <2>1, AppliesAccepts
  <2> QED BY <2>1, <2>2, <2>3
<1>8. CASE m = k /\ SettlesAt(p, st, k)
  <2>1. w \in Own(st, k)
    BY <1>1, <1>3, <1>4, <1>8 DEF Own
  <2>2. CASE Takes(h, s)
    <3>1. w \in Settled(p, st, k)
      BY <2>1 DEF Settled
    <3> QED BY <1>4, <1>8, <2>2, <3>1 DEF Takes, Known
  <2>3. CASE Leaves(h, s) /\ s.purchase = p
    <3>1. PICK v \in RowViews(p) :
            /\ s.status = v.status /\ s.expiresAt = v.expiresAt /\ v.at <= now
            /\ v \in Past(p, st, k)
            /\ Applies(j, s) <=> Accepts(v, w) /\ ~Before(j.eventAt, s.lastEventAt)
      BY <1>7, <2>3 DEF Leaves
    <3>2. ~Before(j.eventAt, s.lastEventAt)
      BY <1>1, <1>8, <2>3, LastNotDropped
         DEF SettlesAt, Delivers, Names, NotificationAt, Leaves, LifeInvariant, RowsFollow
    <3>3. v \in Settled(p, st, k)
      BY <2>1, <2>3, <3>1, <3>2 DEF Settled, Leaves
    <3> QED BY <1>8, <3>1, <3>3 DEF Known
  <2> QED BY <2>2, <2>3
<1>9. CASE m # k /\ Ended(p) /\ SettlesAt(p, st, k)
  <2>1. w \in Late(st, k)
    <3>1. i = k /\ m \in 1..(k - 1)
      BY <1>1, <1>9 DEF Asked
    <3> QED BY <1>4, <3>1 DEF Late
  <2>2. CASE Takes(h, s)
    <3>1. PICK r \in Stored(p) : Applies(j, r)
      <4>1. CASE Stored(p) # {}
        BY <2>2, <4>1 DEF Takes
      <4>2. CASE Stored(p) = {}
        <5>1. j.kind = "apple_webhook" /\ j.user # Nil
          BY <2>2, <4>2 DEF Takes
        <5>2. NamesAccount(NotificationAt(p, m))
          BY <5>1 DEF Delivers, Names, NamesAccount, NotificationAt
        <5>3. m \in 1..(k - 1) /\ k \in 1..k
          BY <1>1, <1>9
        <5>4. NamesAccount(NotificationAt(p, k))
          BY <1>1, <1>9, <5>2, <5>3 DEF SettlesAt, EndsInOrder, NotificationAt
        <5>5. NotificationAt(p, k).event \in events
          BY <1>9 DEF Ended, Today, NotificationAt
        <5> QED BY <4>2, <5>3, <5>4, <5>5 DEF LifeInvariant, RowsMade
      <4> QED BY <4>1, <4>2
    <3>2. PICK v \in Settled(p, st, k) : Accepts(v, w)
      BY <1>7, <1>9, <3>1 DEF Stored, RowViews
    <3>3. w \in Settled(p, st, k)
      BY <1>9, <2>1, <3>2 DEF SettlesAt
    <3> QED BY <1>4, <1>9, <2>2, <3>3 DEF Takes, Known
  <2>3. CASE Leaves(h, s) /\ s.purchase = p
    BY <1>9, <2>3 DEF Leaves, LifeInvariant, RowsFollow, RowViews
  <2> QED BY <2>2, <2>3
<1>10. CASE ~((m = k \/ Ended(p)) /\ SettlesAt(p, st, k))
  <2>1. CASE Takes(h, s)
    BY <1>4, <1>5, <1>10, <2>1 DEF Takes, Known
  <2>2. CASE Leaves(h, s) /\ s.purchase = p
    <3>1. PICK v \in RowViews(p) :
            s.status = v.status /\ s.expiresAt = v.expiresAt /\ v.at <= now
      BY <2>2 DEF Leaves, LifeInvariant, RowsFollow, Known
    <3>2. v \in Past(p, st, k)
      BY <1>6, <3>1 DEF RowViews
    <3> QED BY <1>10, <3>1, <3>2 DEF Known
  <2> QED BY <2>1, <2>2
<1> QED BY <1>8, <1>9, <1>10

(* What a commit leaves of its purchase follows the stages it has entered.   *)
LEMMA CommitFollows ==
  ASSUME EventsIdentify, LifeInvariant, NEW h \in Handlers, Moves(h), Commit(h),
         NEW p \in Purchases, job[h].purchase = p,
         NEW s \in subs', s.purchase = p
  PROVE  /\ stage'[p] > 0
         /\ Known(s, RowViews(p)', now')
         /\ EventDated(s, StagesOf(p)', stage'[p])
<1> DEFINE k == stage[p]
           st == StagesOf(p)
<1>1. /\ StoresTyped /\ k \in Nat /\ k > 0 /\ k \in DOMAIN st
  BY CommitPurchase, StageTypes DEF LifeInvariant, DeliveryInvariant
<1>2. /\ stage' = stage /\ now' = now /\ StagesOf(p)' = st /\ Today(p)' = Today(p)
  BY DEF Moves, StagesOf, Today
<1>3. Takes(h, s) \/ Leaves(h, s)
  BY CommitMakes
<1>4. \A r \in subs : r.purchase = p => Known(r, RowViews(p), now) /\ EventDated(r, st, k)
  BY DEF LifeInvariant, RowsFollow
<1>5. EventDated(s, st, k)
  <2>1. CASE Leaves(h, s) \/ \E r \in Stored(p) : s.lastEventAt = r.lastEventAt
    BY <1>4, <2>1 DEF Leaves, Stored, EventDated
  <2>2. CASE s.lastEventAt = NoTime
    BY <2>2 DEF EventDated
  <2>3. CASE job[h].kind \in Webhooks /\ s.lastEventAt = job[h].eventAt
    <3>1. PICK m \in 1..k : Names(job[h], st[m].notification)
      BY <2>3 DEF LifeInvariant, WebhooksFollow, Delivers
    <3> QED BY <2>3, <3>1 DEF Names, EventDated
  <2> QED BY <1>3, <2>1, <2>2, <2>3 DEF Takes
<1>6. CASE job[h].kind \in Verifications
  <2>1. Known(job[h], RowViews(p), now)
    BY <1>6, LearnedFollows
  <2>2. Takes(h, s)
    BY <1>3, <1>6 DEF Leaves, Webhooks, Verifications
  <2>3. Known(s, RowViews(p), now)
    BY <2>1, <2>2 DEF Takes, Known
  <2>4. events' = events
    BY <1>6, CommitRecords DEF Webhooks, Verifications
  <2>5. RowViews(p)' = RowViews(p)
    BY <1>2, <2>4 DEF RowViews, Ended
  <2> QED BY <1>1, <1>2, <1>5, <2>3, <2>5
<1>7. CASE job[h].kind \in Webhooks
  <2>1. PICK m \in 1..k : Delivers(job[h], pc[h], st, Asked(p), now, m)
    BY <1>7 DEF LifeInvariant, WebhooksFollow
  <2> DEFINE views == IF (m = k \/ Ended(p)) /\ SettlesAt(p, st, k)
                        THEN Settled(p, st, k) ELSE Past(p, st, k)
  <2>2. Known(s, views, now)
    BY <1>3, <1>7, <2>1, DeliveredFollows
  <2>3. events' = events \cup {NotificationAt(p, m).event}
    BY <1>7, <2>1, CommitRecords DEF Delivers, Names, NotificationAt, Webhooks, Verifications
  <2>4. NotificationAt(p, m).event = NotificationAt(p, k).event <=> m = k
    <3>1. m \in DOMAIN st
      BY <1>1, StageTypes
    <3> QED BY <1>1, <3>1, SameEvent
  <2>5. Ended(p)' <=> Ended(p) \/ m = k
    BY <1>2, <2>3, <2>4 DEF Ended, Today, NotificationAt
  <2>6. RowViews(p)' = views
    BY <1>2, <2>5 DEF RowViews
  <2> QED BY <1>1, <1>2, <1>5, <2>2, <2>6
<1>8. job[h].kind \in Webhooks \cup Verifications
  BY DEF LifeInvariant, SerialInvariant, JobsName, Busy, Commit
<1> QED BY <1>6, <1>7, <1>8

(* Where no request about it commits, what a purchase has is what it had.    *)
LEMMA RowKept ==
  ASSUME LifeInvariant, [SerialDeliveryNext]_deliveryVars, NEW p \in Purchases,
         \A h \in Handlers : Commit(h) => job[h].purchase # p,
         NEW s \in subs', s.purchase = p
  PROVE  s \in subs
<1>0. DeliveryInvariant /\ NoCleanups
  BY DEF LifeInvariant
<1>1. CASE subs' = subs
  BY <1>1
<1>2. ASSUME NEW h \in Handlers, Moves(h), ~Commit(h)
      PROVE  subs' = subs
  BY <1>2
     DEF Moves, Arrive, Deliver, Submit, ReceiveAppleNotification, ReceiveGoogleNotification,
         ReceiveAppleVerify, ReceiveGoogleVerify, Open, Learns, AppleReconciled,
         AppleUnavailable, GoogleStateFetched, GooglePurchaseFetched, Answered, Ends, GoesOn
<1>3. ASSUME NEW h \in Handlers, Commit(h)
      PROVE  s \in subs
  <2>1. CASE Staged(h)
    <3>1. PICK user \in Users :
            LET new == [write[h].row EXCEPT !.user = user]
            IN  /\ subs' = (subs \ WithID(write[h].row.id)) \cup {new}
                /\ new.purchase = job[h].purchase
      BY <1>3, <2>1, CommitLeaves
    <3>2. job[h].purchase # p
      BY <1>3
    <3> QED BY <3>1, <3>2
  <2>2. CASE ~Staged(h)
    BY <1>3, <2>2 DEF Commit, Persist, Staged
  <2> QED BY <2>1, <2>2
<1> QED
  BY <1>0, <1>1, <1>2, <1>3, LifeSteps DEF Tick, EnterStage, vars

(* Every row goes on saying what its purchase's stages can make of it.       *)
LEMMA RowsFollowStep ==
  ASSUME EventsIdentify, LifeInvariant, [SerialDeliveryNext]_deliveryVars
  PROVE  RowsFollow'
<1> SUFFICES ASSUME NEW p \in Purchases, NEW s \in subs', s.purchase = p
             PROVE  /\ stage'[p] > 0
                    /\ Known(s, RowViews(p)', now')
                    /\ EventDated(s, StagesOf(p)', stage'[p])
  BY DEF RowsFollow
<1>0. DeliveryInvariant /\ NoCleanups
  BY DEF LifeInvariant
<1>1. ASSUME NEW h \in Handlers, Commit(h), job[h].purchase = p
      PROVE  Moves(h)
  <2>1. pc'[h] = "idle" /\ pc[h] = "commit"
    BY <1>0, <1>1 DEF Commit, Close, DeliveryInvariant, RepositoryTypeOK
  <2>2. ASSUME NEW o \in Handlers \ {h}, Moves(o)
        PROVE  FALSE
    BY <1>0, <2>1, <2>2, OthersWait DEF DeliveryInvariant
  <2> QED BY <1>0, <2>1, <2>2, LifeSteps DEF Tick, EnterStage, vars
<1>2. CASE \E h \in Handlers : Commit(h) /\ job[h].purchase = p
  BY <1>1, <1>2, CommitFollows
<1>3. CASE \A h \in Handlers : Commit(h) => job[h].purchase # p
  <2>1. s \in subs
    BY <1>3, RowKept
  <2>2. stage[p] > 0 /\ Known(s, RowViews(p), now) /\ EventDated(s, StagesOf(p), stage[p])
    BY <2>1 DEF LifeInvariant, RowsFollow
  <2>3. RowViews(p) \subseteq RowViews(p)'
    BY <1>3, <2>2, LifeKept
  <2>4. /\ now \in Nat /\ now' \in Nat /\ now <= now' /\ StagesOf(p)' = StagesOf(p)
        /\ stage[p] \in Nat /\ stage'[p] \in Nat /\ stage[p] <= stage'[p]
    BY LifeStays DEF StagesOf
  <2>5. \A v \in RowViews(p) : v.at \in Int
    BY <2>2, <2>4, PastDated, SettledIsPast DEF RowViews
  <2>6. Known(s, RowViews(p)', now')
    BY <2>2, <2>3, <2>4, <2>5, KnownOn
  <2>7. EventDated(s, StagesOf(p)', stage'[p])
    BY <2>2, <2>4 DEF EventDated
  <2> QED BY <2>2, <2>4, <2>6, <2>7
<1> QED BY <1>2, <1>3
-----------------------------------------------------------------------------
(* Before anything happens there is nothing to follow.                       *)
LEMMA LifeInitial == DeliveryInit => LifeInvariant
<1> SUFFICES ASSUME DeliveryInit PROVE LifeInvariant
  OBVIOUS
<1>1. DeliveryInvariant /\ SerialInvariant
  BY DeliveryInitial, SerialInit DEF DeliveryInit
<1>2. /\ subs = {} /\ events = {} /\ stage = [p \in Purchases |-> 0]
      /\ \A h \in Handlers : pc[h] = "idle" /\ job[h].kind = "none"
  BY DEF DeliveryInit, RepositoryInit, NoJob
<1>3. NoCleanups /\ Founded
  BY <1>2 DEF NoCleanups, Founded, Decided
<1>4. StagesBegun /\ EventsSent /\ RowsFollow /\ RowsMade
  BY <1>2 DEF StagesBegun, EventsSent, RowsFollow, RowsMade
<1>5. WebhooksFollow /\ VerificationsFollow
  BY <1>2 DEF WebhooksFollow, VerificationsFollow, Webhooks, Verifications
<1> QED BY <1>1, <1>3, <1>4, <1>5 DEF LifeInvariant

(* The invariant is inductive where every life is in order.                  *)
LEMMA LifeInductive ==
  ASSUME EventsIdentify, LifeInvariant, [SerialDeliveryNext]_deliveryVars
  PROVE  LifeInvariant'
<1>1. /\ [DeliveryNext]_deliveryVars /\ [ServiceNext]_vars /\ OnePerPurchase'
      /\ DeliveryInvariant /\ SerialInvariant
  BY LifeIsSerial DEF LifeInvariant
<1>2. DeliveryInvariant' /\ SerialInvariant'
  BY <1>1, DeliveryInductive, SerialStep
<1>3. /\ NoCleanups' /\ StagesBegun' /\ EventsSent' /\ Founded' /\ RowsMade'
      /\ WebhooksFollow' /\ VerificationsFollow' /\ RowsFollow'
  BY NoCleanupsStep, StagesBegunStep, EventsSentStep, FoundedStep, RowsMadeStep,
     WebhooksStep, VerificationsStep, RowsFollowStep
<1> QED BY <1>2, <1>3 DEF LifeInvariant

(* Once all that was sent about a purchase is recorded and nothing about it  *)
(* is under way, its row says what the last notification has settled it to.  *)
LEMMA QuietSettled ==
  ASSUME LifeInvariant, NEW r \in subs, Quiet(r.purchase),
         SettlesAt(r.purchase, StagesOf(r.purchase), stage[r.purchase])
  PROVE  \E v \in Settled(r.purchase, StagesOf(r.purchase), stage[r.purchase]) :
           r.status = v.status /\ r.expiresAt = v.expiresAt /\ v.at <= now
<1> DEFINE p == r.purchase
<1>1. p \in Purchases /\ StoresTyped /\ stage[p] > 0
  BY DEF LifeInvariant, DeliveryInvariant, RepositoryTypeOK, Row, Quiet
<1>2. Ended(p)
  <2>1. Today(p) \in Entered(p)
    BY <1>1, StageTypes DEF Today, Entered
  <2> QED BY <2>1 DEF Quiet, Emitted, Ended
<1> QED BY <1>1, <1>2 DEF LifeInvariant, RowsFollow, RowViews, Known

(* Where what it may settle to tells what the store grants, so does the row. *)
LEMMA QuietTells ==
  ASSUME LifeInvariant, NEW r \in subs, Quiet(r.purchase),
         SettlesAt(r.purchase, StagesOf(r.purchase), stage[r.purchase]),
         \A v \in Settled(r.purchase, StagesOf(r.purchase), stage[r.purchase]) :
           Tells(v, Today(r.purchase))
  PROVE  AccessAgrees(r)
<1> DEFINE p == r.purchase
<1>1. /\ p \in Purchases /\ StoresTyped /\ RepositoryTypeOK
  BY DEF LifeInvariant, DeliveryInvariant, RepositoryTypeOK, Row
<1>2. stage[p] > 0 /\ stage[p] \in Nat
  BY <1>1, StageTypes DEF Quiet
<1>3. PICK v \in Settled(p, StagesOf(p), stage[p]) :
        r.status = v.status /\ r.expiresAt = v.expiresAt /\ v.at <= now
  BY QuietSettled
<1>4. now \in During(Today(p))
  BY <1>1, <1>2, TodayAsked
<1>5. now \in Int /\ v.at \in Int
  BY <1>1, <1>2, <1>3, PastDated, SettledIsPast, RepositoryAssumption DEF RepositoryTypeOK
<1>6. HasActiveAccess(v, now) <=> now < Today(p).until
  BY <1>3, <1>4, <1>5 DEF Tells
<1> QED BY <1>3, <1>6 DEF AccessAgrees, HasActiveAccess

(* A purchase whose store lives in order is settled, however late, often and *)
(* out of order its notifications are delivered and whatever is verified in  *)
(* between: once all that was sent is recorded, its row gives access exactly *)
(* while the store does.                                                     *)
THEOREM SerialSettles ==
  EventsIdentify /\ OrderlyLives => (SerialDeliverySpec => []PaidAccessSettles)
<1> SUFFICES ASSUME EventsIdentify, OrderlyLives
             PROVE  SerialDeliverySpec => []PaidAccessSettles
  OBVIOUS
<1>1. LifeInvariant => PaidAccessSettles
  <2> SUFFICES ASSUME LifeInvariant, NEW r \in subs, Quiet(r.purchase)
               PROVE  AccessAgrees(r)
    BY DEF PaidAccessSettles
  <2> DEFINE p == r.purchase
  <2>1. p \in Purchases /\ StoresTyped /\ stage[p] > 0
    BY DEF LifeInvariant, DeliveryInvariant, RepositoryTypeOK, Row, Quiet
  <2>2. stage[p] \in DOMAIN StagesOf(p)
    BY <2>1, StageTypes
  <2>3. Orderly(p, StagesOf(p))
    BY <2>1 DEF OrderlyLives, StagesOf, StoresTyped
  <2> QED BY <2>2, <2>3, QuietTells DEF Orderly, Today
<1> QED BY <1>1, LifeInitial, LifeInductive, PTL DEF SerialDeliverySpec
-----------------------------------------------------------------------------
(* Taking a purchase back. *)

(* Statuses that give no access, whatever the expiry. *)
Gone == {"expired", "billing_retry", "revoked"}

(* All that can be learned of a purchase names a status.                     *)
LEMMA ViewsTyped ==
  ASSUME NEW p, NEW stages, NEW k \in Nat,
         \A i \in 1..k : stages[i] \in LifeStage
  PROVE  \A v \in Past(p, stages, k) : v.status \in Status
<1>1. ASSUME NEW i \in 1..k, NEW type, NEW v \in GoogleViews(type, stages[i])
      PROVE  v.status \in Status
  <2>1. PICK a \in stages[i].google, at \in During(stages[i]) :
          v = View(mapGoogleStatus(type, a, at), a.expiresAt, at)
    BY <1>1 DEF GoogleViews
  <2>2. a \in GoogleAnswer
    BY <2>1, GoogleWebhookAssumption DEF LifeStage
  <2> QED BY <2>1, <2>2, GoogleStatusType DEF View
<1>2. ASSUME NEW i \in 1..k, NEW v \in AnswerViews(p, stages[i])
      PROVE  v.status \in Status
  <2>1. \A a \in stages[i].apple : a.status \in Status
    BY ApplePurchaseAssumption DEF LifeStage, AppleAnswer
  <2>2. "active" \in Status
    BY DEF Status
  <2>3. \/ \E a \in stages[i].apple : v.status = a.status
        \/ v.status = "active"
        \/ v \in GoogleViews("OTHER", stages[i])
    BY <1>2 DEF AnswerViews, View
  <2> QED BY <1>1, <2>1, <2>2, <2>3
<1>3. ASSUME NEW i \in 1..k, NEW j \in 1..i, NEW v \in EventViews(stages[j], stages[i])
      PROVE  v.status \in Status
  <2> DEFINE n == stages[j].notification
  <2>1. CASE n \in AppleNotifications
    <3>1. PICK at \in During(stages[i]) :
            AppleProcessable(n, at) /\ v.status = mapAppleStatus(n, at)
      BY <1>3, <2>1 DEF EventViews, View
    <3>2. n \in AppleNotification /\ mapAppleStatus(n, at) # "unhandled"
      BY <2>1, <3>1, AppleWebhookAssumption DEF AppleProcessable
    <3> QED BY <3>1, <3>2, AppleStatusType
  <2>2. CASE n \notin AppleNotifications
    <3>1. v \in GoogleViews(n.type, stages[i])
      BY <1>3, <2>2 DEF EventViews
    <3> QED BY <1>1, <3>1
  <2> QED BY <2>1, <2>2
<1> QED BY <1>2, <1>3 DEF Past, Offered

(* A revocation is let in by every row that is not revoked, and nothing is   *)
(* by a row that is.                                                         *)
LEMMA RevocationAccepted ==
  ASSUME NEW v, v.status \in Status, NEW w
  PROVE  /\ Accepts(v, w) => v.status # "revoked"
         /\ w.status = "revoked" => (Accepts(v, w) <=> v.status # "revoked")
BY DEF Accepts, ShouldApplyUpdate, CanTransition, validTransitions, Status, Before, NoTime

(* Of the others, only an expiry follows a retry.                            *)
LEMMA GoneAccepts ==
  ASSUME NEW v, NEW w, v.status \in Gone, w.status \in Gone, Accepts(v, w)
  PROVE  \/ w.status = "revoked"
         \/ w.status = "expired" /\ v.status = "billing_retry"
BY DEF Accepts, ShouldApplyUpdate, CanTransition, validTransitions, Status, Gone

(* Where the last notification revokes, and an answer either does too or,    *)
(* with what the notifications before it say now, is that the purchase gives *)
(* no access, the row settles to that: what it says lets nothing else in.    *)
LEMMA RevocationSettles ==
  ASSUME NEW p, NEW stages, NEW k \in Nat \ {0},
         \A i \in 1..k : stages[i] \in LifeStage,
         EndsInOrder(stages, k),
         \A w \in Own(stages, k) : w.status = "revoked",
         \/ \A v \in AnswerViews(p, stages[k]) : v.status = "revoked"
         \/ \A v \in AnswerViews(p, stages[k]) \cup Late(stages, k) : v.status \in Gone
  PROVE  /\ SettlesAt(p, stages, k)
         /\ \A v \in Settled(p, stages, k) : v.status \in Gone
<1> DEFINE kept == {v \in Past(p, stages, k) : \E w \in Own(stages, k) : ~Accepts(v, w)}
           base == AnswerViews(p, stages[k]) \cup Own(stages, k) \cup kept
<1>1. /\ Settled(p, stages, k)
           = base \cup {w \in Late(stages, k) : \E v \in base : Accepts(v, w)}
      /\ \A v \in Settled(p, stages, k) : v.status \in Status
  BY SettledIsPast, ViewsTyped DEF Settled
<1>2. \A v \in kept : v.status = "revoked"
  <2> SUFFICES ASSUME NEW v \in Past(p, stages, k), NEW w \in Own(stages, k), ~Accepts(v, w)
               PROVE  v.status = "revoked"
    OBVIOUS
  <2>1. v.status \in Status
    BY ViewsTyped
  <2> QED BY <2>1, RevocationAccepted
<1>3. "revoked" \in Gone
  BY DEF Gone
<1>4. CASE \A v \in AnswerViews(p, stages[k]) : v.status = "revoked"
  <2>1. \A v \in base : v.status = "revoked"
    BY <1>2, <1>4
  <2>2. \A v \in base, w \in Late(stages, k) : ~Accepts(v, w)
    <3> SUFFICES ASSUME NEW v \in base, NEW w \in Late(stages, k)
                 PROVE  ~Accepts(v, w)
      OBVIOUS
    <3>1. v.status \in Status /\ v.status = "revoked"
      BY <1>1, <2>1
    <3> QED BY <3>1, RevocationAccepted
  <2>3. Settled(p, stages, k) = base
    BY <1>1, <2>2
  <2> QED BY <1>3, <2>1, <2>2, <2>3 DEF SettlesAt
<1>5. CASE \A v \in AnswerViews(p, stages[k]) \cup Late(stages, k) : v.status \in Gone
  <2>1. /\ \A v \in base : v.status \in Gone
        /\ \A v \in Settled(p, stages, k) : v.status \in Gone
    BY <1>1, <1>2, <1>3, <1>5
  <2>2. ASSUME NEW v \in Settled(p, stages, k), NEW w \in Late(stages, k), Accepts(v, w)
        PROVE  w \in Settled(p, stages, k)
    <3>1. CASE v \in base
      BY <1>1, <2>2, <3>1
    <3>2. CASE v \notin base
      <4>1. PICK b \in base : Accepts(b, v)
        BY <1>1, <2>2, <3>2
      <4>2. v.status \in Status /\ v.status \in Gone /\ b.status \in Status /\ b.status \in Gone
            /\ w.status \in Gone
        BY <1>1, <1>5, <2>1
      <4>3. b.status # "revoked" /\ v.status # "revoked"
        BY <2>2, <4>1, <4>2, RevocationAccepted
      <4>4. v.status = "expired"
        BY <4>1, <4>2, <4>3, GoneAccepts
      <4>5. w.status = "revoked"
        BY <2>2, <4>2, <4>4, GoneAccepts
      <4>6. Accepts(b, w)
        BY <4>2, <4>3, <4>5, RevocationAccepted
      <4> QED BY <1>1, <4>1, <4>6
    <3> QED BY <3>1, <3>2
  <2> QED BY <2>1, <2>2 DEF SettlesAt
<1> QED BY <1>4, <1>5

(* What the App Store says of a purchase it has taken back is that.          *)
LEMMA AppleRevocation ==
  ASSUME NEW p, NEW stages, NEW k \in Nat \ {0}, AppleTakesBack(p, stages[k])
  PROVE  /\ \A w \in Own(stages, k) : w.status = "revoked"
         /\ \A v \in AnswerViews(p, stages[k]) : v.status = "revoked"
BY DEF AppleTakesBack, Own, EventViews, AnswerViews, View, mapAppleStatus

(* Of a purchase of Google's all that can be learned is what the Play        *)
(* Developer API says at the time, whatever is asked for it.                 *)
LEMMA PlayViews ==
  ASSUME NEW p, NEW stages, NEW k \in Nat \ {0}, OnlyPlay(p, stages, k), NEW i \in 1..k
  PROVE  /\ \A v \in AnswerViews(p, stages[i]) : v \in GoogleViews("OTHER", stages[i])
         /\ \A j \in 1..i : EventViews(stages[j], stages[i])
                              = GoogleViews(stages[j].notification.type, stages[i])
<1>1. \A v \in AnswerViews(p, stages[i]) : v \in GoogleViews("OTHER", stages[i])
  BY DEF OnlyPlay, AnswerViews
<1>2. ASSUME NEW j \in 1..i
      PROVE  EventViews(stages[j], stages[i])
               = GoogleViews(stages[j].notification.type, stages[i])
  <2>1. j \in 1..k
    OBVIOUS
  <2> QED BY <2>1 DEF OnlyPlay, EventViews
<1> QED BY <1>1, <1>2

(* What Google Play says gives no access then. *)
LEMMA GoogleRevocation ==
  ASSUME NEW p, NEW stages, NEW k \in Nat \ {0},
         OnlyPlay(p, stages, k), GoogleTakesBack(stages[k])
  PROVE  /\ \A w \in Own(stages, k) : w.status = "revoked"
         /\ \A v \in AnswerViews(p, stages[k]) \cup Late(stages, k) : v.status \in Gone
<1>1. ASSUME NEW type, NEW v \in GoogleViews(type, stages[k])
      PROVE  v.status \in Gone /\ (type = "REVOKED" => v.status = "revoked")
  BY DEF GoogleTakesBack, GoogleViews, View, mapGoogleStatus, Gone
<1>2. k \in 1..k
  OBVIOUS
<1>3. \A j \in 1..k : EventViews(stages[j], stages[k])
                        = GoogleViews(stages[j].notification.type, stages[k])
  BY <1>2, PlayViews
<1>4. \A v \in AnswerViews(p, stages[k]) : v \in GoogleViews("OTHER", stages[k])
  BY <1>2, PlayViews
<1>5. \A w \in Own(stages, k) : w.status = "revoked"
  BY <1>1, <1>2, <1>3 DEF Own, GoogleTakesBack
<1>6. \A v \in Late(stages, k) : v.status \in Gone
  BY <1>1, <1>3 DEF Late
<1> QED BY <1>1, <1>4, <1>5, <1>6

(* So where the store has taken it back, what the row settles to gives no    *)
(* access.                                                                   *)
LEMMA TakenBackSettles ==
  ASSUME NEW p, NEW stages, NEW k \in Nat \ {0},
         \A i \in 1..k : stages[i] \in LifeStage,
         EndsInOrder(stages, k), TakenBack(p, stages, k)
  PROVE  /\ SettlesAt(p, stages, k)
         /\ \A v \in Settled(p, stages, k) : Tells(v, stages[k])
<1>1. /\ SettlesAt(p, stages, k)
      /\ \A v \in Settled(p, stages, k) : v.status \in Gone
  <2>1. CASE AppleTakesBack(p, stages[k])
    <3>1. /\ \A w \in Own(stages, k) : w.status = "revoked"
          /\ \A v \in AnswerViews(p, stages[k]) : v.status = "revoked"
      BY <2>1, AppleRevocation
    <3> QED BY <3>1, RevocationSettles
  <2>2. CASE OnlyPlay(p, stages, k) /\ GoogleTakesBack(stages[k])
    <3>1. /\ \A w \in Own(stages, k) : w.status = "revoked"
          /\ \A v \in AnswerViews(p, stages[k]) \cup Late(stages, k) : v.status \in Gone
      BY <2>2, GoogleRevocation
    <3> QED BY <3>1, RevocationSettles
  <2> QED BY <2>1, <2>2 DEF TakenBack
<1>2. ASSUME NEW v, v.status \in Gone, NEW t
      PROVE  ~HasActiveAccess(v, t)
  BY <1>2 DEF HasActiveAccess, Gone
<1>3. \A t \in During(stages[k]) : ~(t < stages[k].until)
  <2>1. stages[k].date \in Nat /\ stages[k].until = NoTime
    BY DEF LifeStage, TakenBack
  <2> QED BY <2>1, RepositoryAssumption DEF During, NoTime
<1> QED BY <1>1, <1>2, <1>3 DEF Tells

(* What says that it is active for as long as anything does is let in where  *)
(* nothing is revoked, and then lets in nothing that says less.              *)
LEMMA RenewalAccepted ==
  ASSUME NEW v, v.status \in Status, NEW w, NEW until \in Nat \ {0}
  PROVE  /\ /\ v.status # "revoked" /\ v.expiresAt \in Nat /\ v.expiresAt <= until
            /\ w.status = "active" /\ w.expiresAt = until
            => Accepts(v, w)
         /\ /\ v.expiresAt = until /\ w.status # "revoked" /\ Before(w.expiresAt, until)
            => ~Accepts(v, w)
BY DEF Accepts, ShouldApplyUpdate, CanTransition, validTransitions, Status, Before, NoTime

(* Where the last notification and every answer say that a purchase is       *)
(* active for longer than anything did before, that is what the row says.    *)
LEMMA RenewalSettles ==
  ASSUME NEW p, NEW stages, NEW k \in Nat \ {0},
         \A i \in 1..k : stages[i] \in LifeStage,
         EndsInOrder(stages, k), NEW until \in Nat \ {0},
         \A v \in Past(p, stages, k) :
           v.status # "revoked" /\ v.expiresAt \in Nat /\ v.expiresAt <= until,
         \A v \in AnswerViews(p, stages[k]) \cup Own(stages, k) :
           v.status = "active" /\ v.expiresAt = until,
         \A w \in Late(stages, k) :
           \/ w.status = "active" /\ w.expiresAt = until
           \/ Before(w.expiresAt, until)
  PROVE  /\ SettlesAt(p, stages, k)
         /\ \A v \in Settled(p, stages, k) : v.status = "active" /\ v.expiresAt = until
<1> DEFINE kept == {v \in Past(p, stages, k) : \E w \in Own(stages, k) : ~Accepts(v, w)}
           base == AnswerViews(p, stages[k]) \cup Own(stages, k) \cup kept
<1>1. Settled(p, stages, k)
        = base \cup {w \in Late(stages, k) : \E v \in base : Accepts(v, w)}
  BY DEF Settled
<1>2. \A v \in Past(p, stages, k) : v.status \in Status
  BY ViewsTyped
<1>3. \A v \in Past(p, stages, k), w \in Own(stages, k) : Accepts(v, w)
  BY <1>2, RenewalAccepted
<1>4. \A v \in base : v.status = "active" /\ v.expiresAt = until
  BY <1>3
<1>5. ASSUME NEW v, v.status = "active", v.expiresAt = until,
             NEW w \in Late(stages, k), Accepts(v, w)
      PROVE  w.status = "active" /\ w.expiresAt = until
  <2>1. w \in Past(p, stages, k)
    BY PastGrows DEF Late, Offered
  <2>2. "active" \in Status
    BY DEF Status
  <2> QED BY <1>5, <2>1, <2>2, RenewalAccepted
<1>6. \A v \in Settled(p, stages, k) : v.status = "active" /\ v.expiresAt = until
  BY <1>1, <1>4, <1>5
<1>7. ASSUME NEW v \in Settled(p, stages, k), NEW w \in Late(stages, k), Accepts(v, w)
      PROVE  w \in Settled(p, stages, k)
  <2>1. PICK b \in base : b.status = v.status /\ b.expiresAt = v.expiresAt
    BY <1>1, <1>4, <1>6
  <2>2. Accepts(b, w)
    BY <1>7, <2>1 DEF Accepts, ShouldApplyUpdate, Before, NoTime
  <2> QED BY <1>1, <2>1, <2>2
<1> QED BY <1>6, <1>7 DEF SettlesAt

(* The App Store says no more of a purchase before its last renewal.         *)
LEMMA AppleRenewal ==
  ASSUME NEW p, NEW stages, NEW k \in Nat \ {0},
         \A i \in 1..k : stages[i] \in LifeStage,
         stages[k].until \in Nat \ {0}, AppleRenews(p, stages, k)
  PROVE  /\ \A v \in Past(p, stages, k) :
              v.status # "revoked" /\ v.expiresAt \in Nat /\ v.expiresAt <= stages[k].until
         /\ \A v \in AnswerViews(p, stages[k]) \cup Own(stages, k) :
              v.status = "active" /\ v.expiresAt = stages[k].until
         /\ \A w \in Late(stages, k) : Before(w.expiresAt, stages[k].until)
<1> DEFINE until == stages[k].until
<1>1. ASSUME NEW v \in AnswerViews(p, stages[k])
      PROVE  v.status = "active" /\ v.expiresAt = until
  BY DEF AppleRenews, AnswerViews, View
<1>2. ASSUME NEW i \in 1..(k - 1), NEW v \in AnswerViews(p, stages[i])
      PROVE  v.status # "revoked" /\ v.expiresAt \in Nat /\ v.expiresAt <= until
  <2>1. \A a \in stages[i].apple : a.expiresAt \in Nat
    BY ApplePurchaseAssumption DEF LifeStage, AppleAnswer
  <2>2. \A r \in AppleReceipts : r.expiresAt \in Nat
    BY ApplePurchaseAssumption DEF AppleReceipt
  <2>3. \/ \E a \in stages[i].apple : /\ a.purchase = p /\ a.outcome = "ok"
                                      /\ v.status = a.status /\ v.expiresAt = a.expiresAt
        \/ \E r \in AppleReceipts : /\ r.purchase = p
                                    /\ v.status = "active" /\ v.expiresAt = r.expiresAt
    BY DEF AppleRenews, AnswerViews, View
  <2> QED BY <2>1, <2>2, <2>3 DEF AppleRenews
<1>3. ASSUME NEW j \in 1..k, NEW t, NEW v \in EventViews(stages[j], t)
      PROVE  /\ v.status # "revoked" /\ v.expiresAt = stages[j].notification.expiresAt
             /\ j = k => v.status = "active"
  BY DEF AppleRenews, EventViews, View, mapAppleStatus
<1>4. ASSUME NEW j \in 1..(k - 1)
      PROVE  Before(stages[j].notification.expiresAt, until)
  BY DEF AppleRenews
<1>5. \A j \in 1..k : /\ stages[j].notification.expiresAt \in Nat
                      /\ stages[j].notification.expiresAt <= until
  <2>1. ASSUME NEW j \in 1..k
        PROVE  /\ stages[j].notification.expiresAt \in Nat
               /\ stages[j].notification.expiresAt <= until
    <3>1. stages[j].notification.expiresAt \in Nat
      BY AppleWebhookAssumption DEF AppleRenews, AppleNotification
    <3>2. j = k \/ j \in 1..(k - 1)
      OBVIOUS
    <3>3. j = k => stages[j].notification.expiresAt = until
      BY DEF AppleRenews
    <3> QED BY <1>4, <3>1, <3>2, <3>3 DEF Before
  <2> QED BY <2>1
<1>6. \A v \in Past(p, stages, k) :
        v.status # "revoked" /\ v.expiresAt \in Nat /\ v.expiresAt <= until
  <2> SUFFICES ASSUME NEW i \in 1..k, NEW v \in Offered(p, stages, i)
               PROVE  v.status # "revoked" /\ v.expiresAt \in Nat /\ v.expiresAt <= until
    BY DEF Past
  <2>1. CASE v \in AnswerViews(p, stages[i])
    <3>1. i = k \/ i \in 1..(k - 1)
      OBVIOUS
    <3> QED BY <1>1, <1>2, <2>1, <3>1
  <2>2. ASSUME NEW j \in 1..i, v \in EventViews(stages[j], stages[i])
        PROVE  v.status # "revoked" /\ v.expiresAt \in Nat /\ v.expiresAt <= until
    BY <1>3, <1>5, <2>2
  <2> QED BY <2>1, <2>2 DEF Offered
<1>7. \A v \in Own(stages, k) : v.status = "active" /\ v.expiresAt = until
  BY <1>3 DEF Own, AppleRenews
<1>8. \A w \in Late(stages, k) : Before(w.expiresAt, until)
  <2> SUFFICES ASSUME NEW j \in 1..(k - 1), NEW w \in EventViews(stages[j], stages[k])
               PROVE  Before(w.expiresAt, until)
    BY DEF Late
  <2>1. j \in 1..k
    OBVIOUS
  <2>2. w.expiresAt = stages[j].notification.expiresAt
    BY <1>3, <2>1
  <2> QED BY <1>4, <2>2
<1> QED BY <1>1, <1>6, <1>7, <1>8

(* Nor does Google Play. *)
LEMMA GoogleRenewal ==
  ASSUME NEW p, NEW stages, NEW k \in Nat \ {0},
         \A i \in 1..k : stages[i] \in LifeStage,
         stages[k].until \in Nat \ {0}, OnlyPlay(p, stages, k), GoogleRenews(stages, k)
  PROVE  /\ \A v \in Past(p, stages, k) :
              v.status # "revoked" /\ v.expiresAt \in Nat /\ v.expiresAt <= stages[k].until
         /\ \A v \in AnswerViews(p, stages[k]) \cup Own(stages, k) \cup Late(stages, k) :
              v.status = "active" /\ v.expiresAt = stages[k].until
<1> DEFINE until == stages[k].until
<1>1. ASSUME NEW i \in 1..k, NEW type, type # "REVOKED",
             NEW v \in GoogleViews(type, stages[i])
      PROVE  /\ v.status # "revoked" /\ v.expiresAt \in Nat /\ v.expiresAt <= until
             /\ i = k => v.status = "active" /\ v.expiresAt = until
  <2>1. PICK a \in stages[i].google, at \in During(stages[i]) :
          /\ a.outcome = "found" /\ v.status = mapGoogleStatus(type, a, at)
          /\ v.expiresAt = a.expiresAt
    BY DEF GoogleViews, View
  <2>2. a \in GoogleAnswer
    BY <2>1, GoogleWebhookAssumption DEF LifeStage
  <2>3. ~a.byDeveloper /\ a.expiresAt <= until
    BY <2>1 DEF GoogleRenews
  <2>4. v.status # "revoked"
    <3>1. FallbackStatus(type) # "revoked" /\ a.state \in GoogleState
      BY <2>2 DEF FallbackStatus, GoogleAnswer
    <3> QED BY <1>1, <2>1, <2>3, <3>1 DEF mapGoogleStatus, GoogleState
  <2>5. i = k => v.status = "active" /\ v.expiresAt = until
    BY <1>1, <2>1, <2>3 DEF GoogleRenews, mapGoogleStatus
  <2> QED BY <2>1, <2>2, <2>3, <2>4, <2>5 DEF GoogleAnswer
<1>2. ASSUME NEW i \in 1..k, NEW j \in 1..i, NEW v \in EventViews(stages[j], stages[i])
      PROVE  /\ v.status # "revoked" /\ v.expiresAt \in Nat /\ v.expiresAt <= until
             /\ i = k => v.status = "active" /\ v.expiresAt = until
  <2>1. v \in GoogleViews(stages[j].notification.type, stages[i])
    BY <1>2, PlayViews
  <2>2. stages[j].notification.type # "REVOKED"
    BY DEF GoogleRenews
  <2> QED BY <1>1, <2>1, <2>2
<1>3. ASSUME NEW i \in 1..k, NEW v \in AnswerViews(p, stages[i])
      PROVE  /\ v.status # "revoked" /\ v.expiresAt \in Nat /\ v.expiresAt <= until
             /\ i = k => v.status = "active" /\ v.expiresAt = until
  <2>1. v \in GoogleViews("OTHER", stages[i])
    BY <1>3, PlayViews
  <2> QED BY <1>1, <2>1
<1>4. \A v \in Past(p, stages, k) :
        v.status # "revoked" /\ v.expiresAt \in Nat /\ v.expiresAt <= until
  BY <1>2, <1>3 DEF Past, Offered
<1>5. \A v \in Own(stages, k) \cup Late(stages, k) : v.status = "active" /\ v.expiresAt = until
  <2>1. ASSUME NEW j \in 1..k, NEW v \in EventViews(stages[j], stages[k])
        PROVE  v.status = "active" /\ v.expiresAt = until
    BY <1>2, <2>1
  <2> QED BY <2>1 DEF Own, Late
<1>6. \A v \in AnswerViews(p, stages[k]) : v.status = "active" /\ v.expiresAt = until
  BY <1>3
<1> QED BY <1>4, <1>5, <1>6

(* So what the row of a renewed purchase settles to gives access until it    *)
(* expires.                                                                  *)
LEMMA RenewedSettles ==
  ASSUME NEW p, NEW stages, NEW k \in Nat \ {0},
         \A i \in 1..k : stages[i] \in LifeStage,
         EndsInOrder(stages, k), Renewed(p, stages, k)
  PROVE  /\ SettlesAt(p, stages, k)
         /\ \A v \in Settled(p, stages, k) : Tells(v, stages[k])
<1> DEFINE until == stages[k].until
<1>1. until \in Nat \ {0}
  BY DEF LifeStage, Renewed, NoTime
<1>2. /\ \A v \in Past(p, stages, k) :
           v.status # "revoked" /\ v.expiresAt \in Nat /\ v.expiresAt <= until
      /\ \A v \in AnswerViews(p, stages[k]) \cup Own(stages, k) :
           v.status = "active" /\ v.expiresAt = until
      /\ \A w \in Late(stages, k) :
           \/ w.status = "active" /\ w.expiresAt = until
           \/ Before(w.expiresAt, until)
  <2>1. CASE AppleRenews(p, stages, k)
    BY <1>1, <2>1, AppleRenewal
  <2>2. CASE OnlyPlay(p, stages, k) /\ GoogleRenews(stages, k)
    BY <1>1, <2>2, GoogleRenewal
  <2> QED BY <2>1, <2>2 DEF Renewed
<1>3. /\ SettlesAt(p, stages, k)
      /\ \A v \in Settled(p, stages, k) : v.status = "active" /\ v.expiresAt = until
  BY <1>1, <1>2, RenewalSettles
<1>4. ASSUME NEW v, v.status = "active", v.expiresAt = until, NEW t \in During(stages[k])
      PROVE  HasActiveAccess(v, t) <=> t < until
  <2>1. t \in Int
    BY DEF During
  <2> QED BY <1>1, <1>4, <2>1 DEF HasActiveAccess, NoTime
<1> QED BY <1>3, <1>4 DEF Tells

(* However late, often and out of order its notifications are delivered and  *)
(* whatever is verified in between, while requests about one purchase do not *)
(* overlap: a purchase that its store has taken back gives no access, and    *)
(* one that it has renewed gives access until it expires, once all that was  *)
(* sent is recorded.                                                         *)
THEOREM SerialPlainEndsSettle ==
  EventsIdentify => (SerialDeliverySpec => []PlainEndsSettle)
<1> SUFFICES ASSUME EventsIdentify PROVE SerialDeliverySpec => []PlainEndsSettle
  OBVIOUS
<1>1. LifeInvariant => PlainEndsSettle
  <2> SUFFICES ASSUME LifeInvariant, NEW r \in subs, Quiet(r.purchase),
                      EndsPlainly(r.purchase, StagesOf(r.purchase), stage[r.purchase])
               PROVE  AccessAgrees(r)
    BY DEF PlainEndsSettle
  <2> DEFINE p == r.purchase
             k == stage[p]
             stages == StagesOf(p)
  <2>1. p \in Purchases /\ StoresTyped /\ k > 0
    BY DEF LifeInvariant, DeliveryInvariant, RepositoryTypeOK, Row, Quiet
  <2>2. k \in Nat \ {0} /\ \A i \in 1..k : stages[i] \in LifeStage
    BY <2>1, StageTypes
  <2>3. /\ SettlesAt(p, stages, k)
        /\ \A v \in Settled(p, stages, k) : Tells(v, stages[k])
    BY <2>2, TakenBackSettles, RenewedSettles DEF EndsPlainly
  <2> QED BY <2>3, QuietTells DEF Today
<1> QED BY <1>1, LifeInitial, LifeInductive, PTL DEF SerialDeliverySpec

(* So a revocation lasts wherever the stores tell what they take back.       *)
THEOREM SerialRevocationLasts ==
  EventsIdentify /\ RevocationsTold => (SerialDeliverySpec => []RevocationLasts)
<1> SUFFICES ASSUME EventsIdentify, RevocationsTold
             PROVE  SerialDeliverySpec => []RevocationLasts
  OBVIOUS
<1>1. LifeInvariant /\ PlainEndsSettle => RevocationLasts
  <2> SUFFICES ASSUME LifeInvariant, PlainEndsSettle, NEW r \in subs, Quiet(r.purchase),
                      Today(r.purchase).until = NoTime
               PROVE  ~HasActiveAccess(r, now)
    BY DEF RevocationLasts
  <2> DEFINE p == r.purchase
  <2>1. p \in Purchases /\ StoresTyped /\ stage[p] > 0
    BY DEF LifeInvariant, DeliveryInvariant, RepositoryTypeOK, Row, Quiet
  <2>2. stage[p] \in DOMAIN StagesOf(p)
    BY <2>1, StageTypes
  <2>3. EndsPlainly(p, StagesOf(p), stage[p])
    BY <2>1, <2>2 DEF RevocationsTold, StoresTyped, StagesOf, Today
  <2>4. HasActiveAccess(r, now) <=> now < NoTime
    BY <2>3 DEF PlainEndsSettle, AccessAgrees
  <2>5. now \in Nat
    BY RepositoryAssumption DEF LifeInvariant, DeliveryInvariant, RepositoryTypeOK
  <2> QED BY <2>4, <2>5 DEF NoTime
<1>2. SerialDeliverySpec => []PlainEndsSettle
  BY SerialPlainEndsSettle
<1> QED BY <1>1, <1>2, LifeInitial, LifeInductive, PTL DEF SerialDeliverySpec
=============================================================================
