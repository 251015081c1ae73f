---------------------------- MODULE GoogleWebhook ----------------------------
(***************************************************************************)
(* HandleGoogleNotification: Real-time Developer Notifications, pushed by  *)
(* Pub/Sub at least once and in any order.  The notification only says     *)
(* which purchase token changed; its state is asked of the Play Developer  *)
(* API, before the transaction begins.                                     *)
(*                                                                         *)
(* A payload that cannot be decoded, or has no purchase token, is answered *)
(* with an error, one for another package or product with success; neither *)
(* changes any state.                                                      *)
(***************************************************************************)
EXTENDS SubscriptionRepository, GoogleClient

CONSTANTS
  GoogleNotifications,
  GoogleAnswers         \* what the Play Developer API may say of a token

GoogleType == {"RECOVERED", "RENEWED", "CANCELED", "PURCHASED", "ON_HOLD",
               "IN_GRACE_PERIOD", "RESTARTED", "REVOKED", "EXPIRED", "OTHER"}

(* about: "test" and "product" notifications carry no subscription. *)
GoogleNotification ==
  [event : EventIDs, about : {"subscription", "product", "test"},
   type : GoogleType, inScope : BOOLEAN, purchase : Purchases,
   eventTime : Nat, publishTime : Nat]

ASSUME GoogleWebhookAssumption ==
  /\ GoogleNotifications \subseteq GoogleNotification
  /\ GoogleAnswers \subseteq GoogleAnswer

(* A state the switch has no case for: the notification's type decides, and *)
(* a type without a case is active.                                         *)
FallbackStatus(type) ==
  CASE type = "IN_GRACE_PERIOD" -> "grace_period"
    [] type = "ON_HOLD"  -> "billing_retry"
    [] type = "CANCELED" -> "cancelled"
    [] type = "EXPIRED"  -> "expired"
    [] OTHER -> "active"

(* The verify endpoint calls it with the type 0, here "OTHER". *)
mapGoogleStatus(type, sub, at) ==
  IF type = "REVOKED" \/ sub.byDeveloper THEN "revoked"
  ELSE CASE sub.state = "ACTIVE" -> IF sub.autoRenewing THEN "active" ELSE "cancelled"
         [] sub.state = "IN_GRACE_PERIOD" -> "grace_period"
         [] sub.state \in {"ON_HOLD", "PAUSED"} -> "billing_retry"
         [] sub.state = "CANCELED" -> IF Before(sub.expiresAt, at) THEN "expired"
                                      ELSE "cancelled"
         [] sub.state = "EXPIRED" -> "expired"
         [] sub.state \in {"PENDING", "UNSPECIFIED"} -> FallbackStatus(type)

GoogleEventAt(n) ==
  IF n.eventTime # NoTime THEN n.eventTime ELSE n.publishTime
-----------------------------------------------------------------------------
(* A test or non-subscription notification is recorded and nothing else. *)
RecordNonSubscription ==
  \E n \in GoogleNotifications :
    /\ n.about # "subscription"
    /\ RecordOnly(n.event)
    /\ UNCHANGED <<subs, pc, job, write, now>>

(* Decoded, in scope, with a token: the API is asked. *)
ReceiveGoogleNotification(h) ==
  \E n \in GoogleNotifications :
    /\ n.about = "subscription"
    /\ n.inScope
    /\ Open(h, [NoJob EXCEPT !.kind = "google_webhook", !.event = n.event,
                             !.purchase = n.purchase,
                             !.eventAt = GoogleEventAt(n)], "call")

CallsGoogleForWebhook(h) == pc[h] = "call" /\ job[h].kind = "google_webhook"

(* The handler still has the notification it was called with. *)
NotificationOf(h) == {n \in GoogleNotifications : n.event = job[h].event}

(* answers: what the API may say of the token at this moment.                *)
GoogleStateFetched(h, answers) ==
  /\ CallsGoogleForWebhook(h)
  /\ \E n \in NotificationOf(h), answer \in answers :
       /\ answer.outcome = "found"
       /\ Answered(h, [job[h] EXCEPT !.status = mapGoogleStatus(n.type, answer, now),
                                     !.expiresAt = answer.expiresAt,
                                     !.cancelledAt = answer.cancelledAt],
                   "record")

(* Unknown to Google: recorded outside a transaction, answered with success. *)
GoogleStateMissing(h, answers) ==
  /\ CallsGoogleForWebhook(h)
  /\ \E answer \in answers : answer.outcome = "not_found"
  /\ RecordOnly(job[h].event)
  /\ subs' = subs
  /\ Close(h)

(* Any other API error is answered with an error: Pub/Sub delivers again. *)
GoogleStateFailed(h, answers) ==
  /\ CallsGoogleForWebhook(h)
  /\ \E answer \in answers : answer.outcome = "failed"
  /\ Close(h)
  /\ UNCHANGED <<subs, events>>

FindsForGoogle(h) == pc[h] = "find" /\ job[h].kind = "google_webhook"

(* A webhook does not know the account: without a row it is dropped. *)
SkipUnknownToken(h) ==
  /\ FindsForGoogle(h)
  /\ Stored(job[h].purchase) = {}
  /\ StageNothing(h)

SkipStaleGoogle(h) ==
  /\ FindsForGoogle(h)
  /\ \E existing \in Stored(job[h].purchase) :
       ~ShouldApplyUpdate(existing, job[h].status, job[h].expiresAt, job[h].eventAt)
  /\ StageNothing(h)

GoogleApplied(existing, j, at) ==
  [existing EXCEPT
     !.status = j.status,
     !.expiresAt = j.expiresAt,
     !.lastEventAt = IF j.eventAt # NoTime THEN j.eventAt ELSE @,
     !.cancelledAt = CASE j.status = "cancelled" ->
                            IF j.cancelledAt # NoTime THEN j.cancelledAt
                            ELSE IF @ = NoTime THEN at ELSE @
                       [] j.status = "active" -> NoTime
                       [] OTHER -> @,
     !.updatedAt = at]

UpdateFromGoogle(h) ==
  /\ FindsForGoogle(h)
  /\ \E existing \in Stored(job[h].purchase) :
       /\ ShouldApplyUpdate(existing, job[h].status, job[h].expiresAt, job[h].eventAt)
       /\ Stage(h, [op |-> "update", row |-> GoogleApplied(existing, job[h], now)])

GoogleWebhookStep(h, answers) ==
  \/ GoogleStateFetched(h, answers)
  \/ GoogleStateMissing(h, answers)
  \/ GoogleStateFailed(h, answers)
  \/ SkipUnknownToken(h)
  \/ SkipStaleGoogle(h)
  \/ UpdateFromGoogle(h)
=============================================================================
