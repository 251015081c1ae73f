---------------------------- MODULE ApplePurchase ----------------------------
(***************************************************************************)
(* VerifyApplePurchase, behind both POST .../verify and POST .../restore:  *)
(* a signed StoreKit 2 transaction is checked locally, reconciled with the *)
(* App Store Server API, and written for the calling account.              *)
(*                                                                         *)
(* The API call happens before the transaction begins, so webhooks of the  *)
(* same purchase may be processed between the answer and the write.        *)
(* A receipt that fails the local checks is refused without a step.        *)
(***************************************************************************)
EXTENDS SubscriptionRepository

CONSTANTS
  AppleReceipts,        \* transactions that pass the local checks
  AppleAnswers,         \* what reconciling with the App Store Server API may give
  AppleAPIConfigured    \* the API credentials are configured

AppleReceipt == [purchase : Purchases, expiresAt : Nat]

(* outcome: "unavailable" for a transport error, 429 or 5xx; "refused" for   *)
(* every other error answer, for another environment, and for a response     *)
(* without a usable transaction; "ok" carries the newest transaction.        *)
AppleAnswer == [outcome : {"unavailable", "refused", "ok"}, purchase : Purchases,
                status : Status, expiresAt : Nat]

ASSUME ApplePurchaseAssumption ==
  /\ AppleReceipts \subseteq AppleReceipt
  /\ AppleAnswers \subseteq AppleAnswer
  /\ AppleAPIConfigured \in BOOLEAN

(* The answers about the purchase a handler works for. *)
AnswersFor(h, answers) == {answer \in answers : answer.purchase = job[h].purchase}
-----------------------------------------------------------------------------
(* The receipt alone says "active"; without the API that is what is stored. *)
ReceiveAppleVerify(h) ==
  \E user \in Users, receipt \in AppleReceipts :
    Open(h, [NoJob EXCEPT !.kind = "apple_verify", !.user = user,
                          !.purchase = receipt.purchase, !.status = "active",
                          !.expiresAt = receipt.expiresAt],
         IF AppleAPIConfigured THEN "call" ELSE "find")

CallsApple(h) == pc[h] = "call" /\ job[h].kind = "apple_verify"

(* The newest transaction and its status replace those of the receipt;       *)
(* answers: what the API may say at this moment.                             *)
AppleReconciled(h, answers) ==
  /\ CallsApple(h)
  /\ \E answer \in AnswersFor(h, answers) :
       /\ answer.outcome = "ok"
       /\ Answered(h, [job[h] EXCEPT !.status = answer.status,
                                     !.expiresAt = answer.expiresAt], "find")

(* The API is down: the locally verified purchase counts as active. *)
AppleUnavailable(h, answers) ==
  /\ CallsApple(h)
  /\ \E answer \in AnswersFor(h, answers) : answer.outcome = "unavailable"
  /\ Answered(h, job[h], "find")

(* Any other failure refuses the purchase before the database is touched. *)
AppleRefused(h, answers) ==
  /\ CallsApple(h)
  /\ \E answer \in AnswersFor(h, answers) : answer.outcome = "refused"
  /\ Close(h)
  /\ UNCHANGED <<subs, events>>

FindsForAppleVerify(h) == pc[h] = "find" /\ job[h].kind = "apple_verify"

(* Variant of AppleVerified: the cancellation mark survives. *)
AppleVerifiedStickyCancel(existing, j, at) ==
  [existing EXCEPT !.user = j.user, !.status = j.status,
                   !.expiresAt = j.expiresAt, !.updatedAt = at]

(* Variant of AppleVerified: the cancellation mark never survives. *)
AppleVerifiedClearCancel(existing, j, at) ==
  [existing EXCEPT !.user = j.user, !.status = j.status, !.expiresAt = j.expiresAt,
                   !.cancelledAt = NoTime, !.updatedAt = at]

(* The row the handler builds: the caller's, without an ordering or a        *)
(* transition check, last_event_at as it was.                                *)
AppleVerified(existing, j, at) ==
  [existing EXCEPT
     !.user = j.user,
     !.status = j.status,
     !.expiresAt = j.expiresAt,
     !.cancelledAt = IF j.status \in {"active", "grace_period"} THEN NoTime ELSE @,
     !.updatedAt = at]

UpsertAppleVerified(h) ==
  /\ FindsForAppleVerify(h)
  /\ \E existing \in Stored(job[h].purchase) :
       Stage(h, [op |-> "upsert", row |-> AppleVerified(existing, job[h], now)])

AppleVerifiedRow(id, j, at) ==
  [id |-> id, user |-> j.user, purchase |-> j.purchase, status |-> j.status,
   expiresAt |-> j.expiresAt, cancelledAt |-> NoTime,
   lastEventAt |-> NoTime, updatedAt |-> at]

CreateAppleVerified(h) ==
  /\ FindsForAppleVerify(h)
  /\ Stored(job[h].purchase) = {}
  /\ \E id \in FreshIDs :
       Stage(h, [op |-> "create", row |-> AppleVerifiedRow(id, job[h], now)])

ApplePurchaseStep(h, answers) ==
  \/ AppleReconciled(h, answers)
  \/ AppleUnavailable(h, answers)
  \/ AppleRefused(h, answers)
  \/ UpsertAppleVerified(h)
  \/ CreateAppleVerified(h)
=============================================================================
