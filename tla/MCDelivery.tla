----------------------------- MODULE MCDelivery -----------------------------
(* StoreDelivery on the lives of a few purchases, for TLC.  Every life has   *)
(* event ids of its own.                                                     *)
EXTENDS StoreLives, AppleClient, TLC

CONSTANTS a1, g1, u1, u2

(* A stage of Apple purchase a1: the notification, and what the App Store    *)
(* Server API answers from then on.                                          *)
AppleStage(event, date, type, account, status, expiresAt, until) ==
  [notification |->
     [event |-> event, type |-> type,
      subtype |-> IF type = "DID_CHANGE_RENEWAL_STATUS" THEN "AUTO_RENEW_DISABLED"
                  ELSE "",
      autoRenew |-> "none", graceUntil |-> NoTime, hasTransaction |-> TRUE,
      verified |-> TRUE, inScope |-> TRUE, purchase |-> a1, account |-> account,
      expiresAt |-> expiresAt, signedDate |-> date, txSignedDate |-> date],
   date |-> date, until |-> until,
   apple |-> {Reconciled("ok", a1, status, expiresAt)}, google |-> {}]

(* A stage of Google purchase g1; the Play Developer API may also fail. *)
GoogleStage(event, date, type, state, expiresAt, until) ==
  [notification |->
     [event |-> event, about |-> "subscription", type |-> type, inScope |-> TRUE,
      purchase |-> g1, eventTime |-> date, publishTime |-> date],
   date |-> date, until |-> until, apple |-> {},
   google |-> {NoSubscription("failed"),
               [outcome |-> "found", state |-> state, byDeveloper |-> FALSE,
                autoRenewing |-> state # "CANCELED", expiresAt |-> expiresAt,
                cancelledAt |-> IF state = "CANCELED" THEN date ELSE NoTime]}]

OfApple(stages) == a1 :> stages @@ g1 :> <<>>
OfGoogle(stages) == a1 :> <<>> @@ g1 :> stages

(* Bought with an appAccountToken, switched off, renewed all the same,       *)
(* refunded.                                                                 *)
Refunded ==
  <<AppleStage(<<"refunded", 1>>, 1, "SUBSCRIBED", u1, "active", 3, 3),
    AppleStage(<<"refunded", 2>>, 2, "DID_CHANGE_RENEWAL_STATUS", u1, "active", 3, 3),
    AppleStage(<<"refunded", 3>>, 3, "DID_RENEW", u1, "active", 5, 5),
    AppleStage(<<"refunded", 4>>, 4, "REFUND", u1, "revoked", 5, NoTime)>>

(* Bought without one; a payment fails, and succeeds. *)
Recovered ==
  <<AppleStage(<<"recovered", 1>>, 1, "SUBSCRIBED", Nil, "active", 2, 2),
    AppleStage(<<"recovered", 2>>, 2, "DID_FAIL_TO_RENEW", Nil, "billing_retry", 2, 2),
    AppleStage(<<"recovered", 3>>, 3, "DID_RENEW", Nil, "active", 5, 5)>>

(* Switched off, on again, and off. *)
Switched ==
  <<AppleStage(<<"switched", 1>>, 1, "SUBSCRIBED", Nil, "active", 5, 5),
    AppleStage(<<"switched", 2>>, 2, "DID_CHANGE_RENEWAL_STATUS", Nil, "active", 5, 5),
    [AppleStage(<<"switched", 3>>, 3, "DID_CHANGE_RENEWAL_STATUS", Nil, "active", 5, 5)
       EXCEPT !.notification.subtype = "AUTO_RENEW_ENABLED"],
    AppleStage(<<"switched", 4>>, 4, "DID_CHANGE_RENEWAL_STATUS", Nil, "active", 5, 5)>>

(* Switched off, on again, and revoked. *)
Revoked ==
  <<GoogleStage(<<"revoked", 1>>, 1, "PURCHASED", "ACTIVE", 4, 4),
    GoogleStage(<<"revoked", 2>>, 2, "CANCELED", "CANCELED", 4, 4),
    GoogleStage(<<"revoked", 3>>, 2, "RESTARTED", "ACTIVE", 4, 4),
    GoogleStage(<<"revoked", 4>>, 3, "REVOKED", "EXPIRED", 3, NoTime)>>

(* A payment fails; the grace period, the account hold, the recovery. *)
Held ==
  <<GoogleStage(<<"held", 1>>, 1, "PURCHASED", "ACTIVE", 2, 2),
    GoogleStage(<<"held", 2>>, 2, "IN_GRACE_PERIOD", "IN_GRACE_PERIOD", 3, 3),
    GoogleStage(<<"held", 3>>, 3, "ON_HOLD", "ON_HOLD", 3, 3),
    GoogleStage(<<"held", 4>>, 4, "RECOVERED", "ACTIVE", 5, 5)>>

(* From the account hold to a paid period that is not to be renewed. *)
HeldThenCancelled ==
  <<GoogleStage(<<"cancelled", 1>>, 1, "PURCHASED", "ACTIVE", 2, 2),
    GoogleStage(<<"cancelled", 2>>, 2, "ON_HOLD", "ON_HOLD", 2, 2),
    GoogleStage(<<"cancelled", 3>>, 3, "RECOVERED", "ACTIVE", 5, 5),
    GoogleStage(<<"cancelled", 4>>, 3, "CANCELED", "CANCELED", 5, 5)>>

(* Bought, and refunded: also while the app submits the receipt. *)
Overtaken ==
  <<AppleStage(<<"overtaken", 1>>, 1, "SUBSCRIBED", Nil, "active", 3, 3),
    AppleStage(<<"overtaken", 2>>, 1, "REFUND", Nil, "revoked", 3, NoTime)>>

SettlingLives ==
  [refunded |-> OfApple(Refunded), recovered |-> OfApple(Recovered),
   switched |-> OfApple(Switched), overtaken |-> OfApple(Overtaken),
   revoked |-> OfGoogle(Revoked), held |-> OfGoogle(Held)]

LateLives == [cancelled |-> OfGoogle(HeldThenCancelled)]

OvertakenLives == [overtaken |-> OfApple(Overtaken)]

(* Two notifications at once, and one that needs an answer of the API. *)
RetryLives ==
  [retried |->
     OfApple(<<AppleStage(<<"retried", 1>>, 1, "SUBSCRIBED", u1, "active", 3, 3),
               AppleStage(<<"retried", 2>>, 1, "DID_RENEW", Nil, "active", 5, 5)>>),
   asked |->
     OfGoogle(<<GoogleStage(<<"asked", 1>>, 1, "PURCHASED", "ACTIVE", 4, 4)>>)]

AllStages ==
  UNION {UNION {Range(Lives[l][p]) : p \in Purchases} : l \in DOMAIN Lives}

NotificationsAbout(p) ==
  {n \in {s.notification : s \in AllStages} : n.purchase = p}

AppleNotificationsOfLives == NotificationsAbout(a1)
GoogleNotificationsOfLives == NotificationsAbout(g1)
AppleAnswersOfLives == UNION {s.apple : s \in AllStages}
GoogleAnswersOfLives == UNION {s.google : s \in AllStages}
EventsOfLives == {s.notification.event : s \in AllStages}

Receipts == {[purchase |-> a1, expiresAt |-> 3]} \cap [purchase : Purchases, expiresAt : {3}]

(* The theorems about lives (DeliveryProofs) are about the lives that        *)
(* settle, the one that overlapping requests spoil among them; each but the  *)
(* one that is switched off ends plainly.  The life whose last answer the    *)
(* transition table rejects is not in order; two of the stages before it are *)
(* plain ends.                                                               *)
ASSUME LivesAreOrderly ==
  Lives = SettlingLives =>
    EventsIdentify /\ OrderlyLives /\ RevocationsTold

ASSUME LivesEndPlainly ==
  Lives = SettlingLives =>
    \A l \in DOMAIN Lives : \A p \in Purchases :
      LET stages == Lives[l][p]
      IN  stages # <<>> /\ l # "switched" => EndsPlainly(p, stages, Len(stages))

ASSUME RejectedIsNotOrderly ==
  Lives = LateLives =>
    LET stages == LateLives.cancelled[g1]
    IN  /\ EventsIdentify /\ ~OrderlyLives
        /\ {k \in DOMAIN stages : EndsPlainly(g1, stages, k)} = {1, 3}

Symmetry == Permutations(Handlers) \cup Permutations(RowIDs)
=============================================================================
