--------------------------- MODULE MCAppleWebhook ---------------------------
(* AppleWebhook on small sets of notifications, for TLC. *)
EXTENDS AppleLedger, SubscriptionRequirements, TLC

CONSTANTS a1, a2, u1, u2, e1, e2, e3, e4, e5, e6, e7, e8

(* A genuine notification about purchase a1; the runs override its fields. *)
Base == [event |-> e1, type |-> "SUBSCRIBED", subtype |-> "", autoRenew |-> "none",
         graceUntil |-> NoTime, hasTransaction |-> TRUE, verified |-> TRUE,
         inScope |-> TRUE, purchase |-> a1, account |-> u1,
         expiresAt |-> 2, signedDate |-> 1, txSignedDate |-> 1]

(* The life of one purchase: bought, switched off, renewed all the same,     *)
(* refunded, and a last renewal that failed; not every one has an account, a *)
(* date of its own or an expiry.                                             *)
Life ==
  {Base,
   [Base EXCEPT !.event = e2, !.type = "DID_CHANGE_RENEWAL_STATUS",
                !.autoRenew = "off", !.signedDate = NoTime, !.txSignedDate = 2],
   [Base EXCEPT !.event = e3, !.type = "DID_RENEW", !.account = Nil,
                !.expiresAt = 3, !.signedDate = 3],
   [Base EXCEPT !.event = e4, !.type = "REFUND", !.account = Nil,
                !.expiresAt = NoTime, !.signedDate = 4],
   [Base EXCEPT !.event = e5, !.type = "DID_FAIL_TO_RENEW", !.account = u2,
                !.graceUntil = 2, !.signedDate = 5]}

(* Beside it, a notification without a status, one that fails verification, *)
(* and one for another bundle.                                              *)
Noise ==
  {[Base EXCEPT !.event = e6, !.type = "OTHER"],
   [Base EXCEPT !.event = e7, !.verified = FALSE],
   [Base EXCEPT !.event = e7, !.inScope = FALSE]}

LifeAndNoise == Life \cup Noise

(* And a second purchase, of another account. *)
TwoLives ==
  LifeAndNoise \cup {[Base EXCEPT !.event = e8, !.purchase = a2, !.account = u2]}

(* A renewal that fails and recovers: every status follows from every        *)
(* earlier one, and the last three share an expiry, so nothing but the event *)
(* dates says which is the newest.                                           *)
Recovery ==
  {Base,
   [Base EXCEPT !.event = e2, !.type = "DID_RENEW", !.expiresAt = 3,
                !.signedDate = 2],
   [Base EXCEPT !.event = e3, !.type = "DID_FAIL_TO_RENEW",
                !.subtype = "GRACE_PERIOD", !.expiresAt = 3, !.signedDate = 3],
   [Base EXCEPT !.event = e4, !.type = "DID_CHANGE_RENEWAL_STATUS",
                !.subtype = "AUTO_RENEW_ENABLED", !.expiresAt = 3,
                !.signedDate = 4]}

Symmetry == Permutations(Handlers) \cup Permutations(RowIDs)
=============================================================================
