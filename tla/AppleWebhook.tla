---------------------------- MODULE AppleWebhook ----------------------------
(***************************************************************************)
(* HandleAppleNotification: App Store Server Notifications V2.             *)
(*                                                                         *)
(* Apple delivers each notification at least once, in any order, and again *)
(* after every error answer, so any notification may arrive at any time    *)
(* any number of times.  A notification that fails verification is         *)
(* answered with an error before anything is written; one for another      *)
(* bundle, environment or product is answered with success and leaves no   *)
(* trace.  Neither changes any state, so neither is an action.             *)
(***************************************************************************)
EXTENDS SubscriptionRepository

CONSTANT AppleNotifications

AppleType == {"SUBSCRIBED", "DID_RENEW", "DID_CHANGE_RENEWAL_STATUS",
              "DID_FAIL_TO_RENEW", "GRACE_PERIOD_EXPIRED", "EXPIRED",
              "REFUND", "REVOKE", "OTHER"}
AppleSubtype == {"", "AUTO_RENEW_DISABLED", "AUTO_RENEW_ENABLED", "GRACE_PERIOD"}

(* autoRenew is the renewal info's autoRenewStatus, "none" without one. *)
AppleNotification ==
  [event : EventIDs, type : AppleType, subtype : AppleSubtype,
   autoRenew : {"none", "off", "on"}, graceUntil : Nat,
   hasTransaction : BOOLEAN, verified : BOOLEAN, inScope : BOOLEAN,
   purchase : Purchases, account : Users \cup {Nil},
   expiresAt : Nat, signedDate : Nat, txSignedDate : Nat]

ASSUME AppleWebhookAssumption == AppleNotifications \subseteq AppleNotification

(* The status a notification stands for, or "unhandled". *)
mapAppleStatus(n, at) ==
  CASE n.type \in {"SUBSCRIBED", "DID_RENEW"} -> "active"
    [] n.type = "DID_CHANGE_RENEWAL_STATUS" ->
         IF n.subtype = "AUTO_RENEW_DISABLED" \/ n.autoRenew = "off" THEN "cancelled"
         ELSE IF n.subtype = "AUTO_RENEW_ENABLED" \/ n.autoRenew = "on" THEN "active"
         ELSE "unhandled"
    [] n.type = "DID_FAIL_TO_RENEW" ->
         IF n.subtype = "GRACE_PERIOD" \/ n.graceUntil > at
           THEN "grace_period" ELSE "billing_retry"
    [] n.type \in {"GRACE_PERIOD_EXPIRED", "EXPIRED"} -> "expired"
    [] n.type \in {"REFUND", "REVOKE"} -> "revoked"
    [] OTHER -> "unhandled"

(* Verified, in scope, and with a status: goes through the transaction. *)
AppleProcessable(n, at) ==
  /\ n.verified
  /\ n.hasTransaction
  /\ n.inScope
  /\ mapAppleStatus(n, at) # "unhandled"

(* Verified and without effect on a subscription: only recorded. *)
AppleInformational(n, at) ==
  /\ n.verified
  /\ n.hasTransaction => n.inScope /\ mapAppleStatus(n, at) = "unhandled"

AppleEventAt(n) ==
  IF n.signedDate # NoTime THEN n.signedDate ELSE n.txSignedDate

AppleJob(n, at) ==
  [NoJob EXCEPT !.kind = "apple_webhook", !.event = n.event,
                !.user = n.account, !.purchase = n.purchase,
                !.status = mapAppleStatus(n, at),
                !.expiresAt = n.expiresAt, !.eventAt = AppleEventAt(n)]
-----------------------------------------------------------------------------
(* Everything before the transaction: decode, verify, validate, map. *)
ReceiveAppleNotification(h) ==
  \E n \in AppleNotifications :
    /\ AppleProcessable(n, now)
    /\ Open(h, AppleJob(n, now), "record")

RecordInformational ==
  \E n \in AppleNotifications :
    /\ AppleInformational(n, now)
    /\ RecordOnly(n.event)
    /\ UNCHANGED <<subs, pc, job, write, now>>

(* h has its event row and is about to read the subscription. *)
FindsForApple(h) == pc[h] = "find" /\ job[h].kind = "apple_webhook"

(* No appAccountToken and no row: the notification is recorded and dropped. *)
SkipUnresolved(h) ==
  /\ FindsForApple(h)
  /\ job[h].user = Nil
  /\ Stored(job[h].purchase) = {}
  /\ StageNothing(h)

SkipStaleNotification(h) ==
  /\ FindsForApple(h)
  /\ \E existing \in Stored(job[h].purchase) :
       ~ShouldApplyUpdate(existing, job[h].status, job[h].expiresAt, job[h].eventAt)
  /\ StageNothing(h)

(* Variant of AppleApplied: the row forgets which event it was updated by. *)
AppleAppliedUndated(existing, j, at) ==
  [existing EXCEPT !.status = j.status, !.expiresAt = j.expiresAt,
                   !.cancelledAt = IF j.status = "active" THEN NoTime ELSE at,
                   !.updatedAt = at]

(* The row the handler builds from the one it read.  user_id is not touched, *)
(* whatever the appAccountToken says.                                        *)
AppleApplied(existing, j, at) ==
  [existing EXCEPT
     !.status = j.status,
     !.expiresAt = j.expiresAt,
     !.lastEventAt = IF j.eventAt # NoTime THEN j.eventAt ELSE @,
     !.cancelledAt = CASE j.status = "cancelled" -> IF @ = NoTime THEN at ELSE @
                       [] j.status = "active" -> NoTime
                       [] OTHER -> @,
     !.updatedAt = at]

(* Variant of UpdateFromNotification: the row is updated without the test. *)
UpdateUntested(h) ==
  /\ FindsForApple(h)
  /\ \E existing \in Stored(job[h].purchase) :
       Stage(h, [op |-> "update", row |-> AppleApplied(existing, job[h], now)])

(* Variant of UpdateFromNotification: the row is inserted once more. *)
InsertFromNotification(h) ==
  /\ FindsForApple(h)
  /\ \E existing \in Stored(job[h].purchase) :
       /\ ShouldApplyUpdate(existing, job[h].status, job[h].expiresAt, job[h].eventAt)
       /\ Stage(h, [op |-> "create", row |-> AppleApplied(existing, job[h], now)])

UpdateFromNotification(h) ==
  /\ FindsForApple(h)
  /\ \E existing \in Stored(job[h].purchase) :
       /\ ShouldApplyUpdate(existing, job[h].status, job[h].expiresAt, job[h].eventAt)
       /\ Stage(h, [op |-> "update", row |-> AppleApplied(existing, job[h], now)])

AppleNewRow(id, j, at) ==
  [id |-> id, user |-> j.user, purchase |-> j.purchase, status |-> j.status,
   expiresAt |-> j.expiresAt,
   cancelledAt |-> IF j.status = "cancelled" THEN at ELSE NoTime,
   lastEventAt |-> j.eventAt, updatedAt |-> at]

CreateFromNotification(h) ==
  /\ FindsForApple(h)
  /\ job[h].user # Nil
  /\ Stored(job[h].purchase) = {}
  /\ \E id \in FreshIDs :
       Stage(h, [op |-> "create", row |-> AppleNewRow(id, job[h], now)])

AppleWebhookStep(h) ==
  \/ SkipUnresolved(h)
  \/ SkipStaleNotification(h)
  \/ UpdateFromNotification(h)
  \/ CreateFromNotification(h)

AppleWebhookNext ==
  \/ RecordInformational
  \/ Tick
  \/ \E h \in Handlers :
       \/ ReceiveAppleNotification(h)
       \/ AppleWebhookStep(h)
       \/ RecordEvent(h)
       \/ SkipDuplicateEvent(h)
       \/ ExecWrite(h)
       \/ WriteFails(h)
       \/ Commit(h)
       \/ Rollback(h)

AppleWebhookSpec == RepositoryInit /\ [][AppleWebhookNext]_vars

(* The same, with requests about one purchase never overlapping. *)
SerialAppleWebhookSpec ==
  RepositoryInit /\ [][AppleWebhookNext /\ OnePerPurchase']_vars
=============================================================================
