------------------------- MODULE SubscriptionService -------------------------
(***************************************************************************)
(* The service: both webhooks, both purchase verifications and the account *)
(* cleanup, served concurrently over one database.                         *)
(***************************************************************************)
EXTENDS AppleWebhook, ApplePurchase, GooglePurchase

(* DELETE /internal/... for one account. *)
ReceiveDelete(h) == \E user \in Users : OpenDelete(h, user)

Receive(h) ==
  \/ ReceiveAppleNotification(h)
  \/ ReceiveAppleVerify(h)
  \/ ReceiveGoogleNotification(h)
  \/ ReceiveGoogleVerify(h)
  \/ ReceiveDelete(h)

(* A handler's own progress, whatever it was called for, when the store APIs *)
(* may say this and that.                                                    *)
Proceed(h, apple, google) ==
  \/ AppleWebhookStep(h)
  \/ ApplePurchaseStep(h, apple)
  \/ GoogleWebhookStep(h, google)
  \/ GooglePurchaseStep(h, google)
  \/ GoOn(h)

(* Whatever the APIs have said before. *)
HandlerStep(h) == Proceed(h, AppleAnswers, GoogleAnswers) \/ Conclude(h)

ServiceNext ==
  \/ RecordInformational
  \/ RecordNonSubscription
  \/ Tick
  \/ \E h \in Handlers : Receive(h) \/ HandlerStep(h) \/ Rollback(h)

ServiceSpec == RepositoryInit /\ [][ServiceNext]_vars

SerialServiceSpec == RepositoryInit /\ [][ServiceNext /\ OnePerPurchase']_vars
-----------------------------------------------------------------------------
(* An absent expiry means access without end (HasActiveAccess), so no Google *)
(* row may lack one, whichever of its writers wrote it last: neither webhook *)
(* nor verification looks, both rely on the client to refuse the response.   *)
GooglePurchases == GoogleTokens \cup {n.purchase : n \in GoogleNotifications}

GoogleRowsExpire ==
  \A r \in subs : r.purchase \in GooglePurchases => r.expiresAt # NoTime

(* cancelled_at dates the cancellation of an App Store row that is           *)
(* cancelled, and is gone once the row is active again, although three       *)
(* writers maintain it and each from the version of the row it has read.     *)
(* (A Google row may be created cancelled by a verification, without a date.)*)
AppleCancellationsDated ==
  \A r \in subs \ {s \in subs : s.purchase \in GooglePurchases} :
    /\ r.status = "cancelled" => r.cancelledAt # NoTime
    /\ r.status = "active" => r.cancelledAt = NoTime

(* A cancellation keeps the date at which it was first processed until the   *)
(* subscription runs again, through an expiry, a failed renewal or a         *)
(* revocation, a repeated cancellation and every verification: no writer     *)
(* dates it anew or drops the date, whatever the row said when it was read.  *)
(* (The Play Developer API gives dates of its own.)                          *)
FirstCancellationKept ==
  [][\A r \in subs, s \in subs' :
       /\ r.id = s.id /\ r.purchase \notin GooglePurchases
       /\ r.cancelledAt # NoTime /\ s.cancelledAt # r.cancelledAt
       => s.cancelledAt = NoTime /\ s.status \in {"active", "grace_period"}]_vars
-----------------------------------------------------------------------------
(* What a job is for decides what it carries: a webhook an event, and only a *)
(* webhook; a verification the calling account; both a purchase.             *)
Webhooks == {"apple_webhook", "google_webhook"}
Verifications == {"apple_verify", "google_verify"}

MatchesKind(j) ==
  /\ j.kind \in Webhooks => j.event # Nil /\ j.purchase # Nil
  /\ j.kind \in Verifications => j.event = Nil /\ j.user # Nil /\ j.purchase # Nil

JobsMatchKinds == \A h \in Handlers : MatchesKind(job[h])
-----------------------------------------------------------------------------
(* The server keeps running every request it has accepted: a handler whose   *)
(* next step stays possible takes it (goroutine scheduling, the time limits  *)
(* of the store APIs' HTTP clients), and a statement that waits for a lock   *)
(* is granted it in turn (PostgreSQL queues the waiters of a lock).  Nothing *)
(* is assumed of the arrival of requests, of failures, or of the clock.      *)
Fairness ==
  \A h \in Handlers :
    /\ WF_vars(HandlerStep(h))
    /\ SF_vars(RecordEvent(h) \/ SkipDuplicateEvent(h))
    /\ SF_vars(ExecWrite(h) \/ WriteFails(h))
    /\ SF_vars(ExecDelete(h))

FairServiceSpec == ServiceSpec /\ Fairness
=============================================================================
