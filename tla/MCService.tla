----------------------------- MODULE MCService -----------------------------
(* SubscriptionService on small sets of notifications and answers, for TLC. *)
EXTENDS SubscriptionService, SubscriptionRequirements, Entitlement, StoreSamples

CONSTANTS a1, g1, u1, u2, e1, e2, e3, e4, e5, e6

Apple == [event |-> e1, type |-> "SUBSCRIBED", subtype |-> "", autoRenew |-> "none",
          graceUntil |-> NoTime, hasTransaction |-> TRUE, verified |-> TRUE,
          inScope |-> TRUE, purchase |-> a1, account |-> u1,
          expiresAt |-> 3, signedDate |-> 1, txSignedDate |-> 1]

(* Bought by u1, switched off. *)
AppleSet ==
  {Apple,
   [Apple EXCEPT !.event = e2, !.type = "DID_CHANGE_RENEWAL_STATUS",
                 !.subtype = "AUTO_RENEW_DISABLED", !.account = Nil,
                 !.signedDate = 2]}

(* Pushes as Pub/Sub sends them: two about g1, one of them without a time of *)
(* its own, a test, one about something else, one of another package, and    *)
(* ones that cannot be decoded or name no token.                             *)
Push == [event |-> e3, envelope |-> "json", messageID |-> TRUE, data |-> "json",
         test |-> FALSE, subscription |-> TRUE, type |-> "OTHER",
         package |-> "expected", product |-> "expected", token |-> g1,
         hasToken |-> TRUE, eventTimeMillis |-> 2, publishTime |-> 2]

Revocation ==
  [Push EXCEPT !.event = e4, !.type = "REVOKED", !.eventTimeMillis = 0,
               !.publishTime = 1]

OddPushes ==
  {[Push EXCEPT !.event = e6, !.test = TRUE],
   [Push EXCEPT !.event = e6, !.subscription = FALSE],
   [Push EXCEPT !.event = e6, !.package = "other"],
   [Push EXCEPT !.event = e6, !.data = "broken"],
   [Push EXCEPT !.event = e6, !.messageID = FALSE],
   [Push EXCEPT !.event = e6, !.hasToken = FALSE]}

GoogleSet == UNION {Pushed(push) : push \in {Push, Revocation}}
GoogleSetAndNoise == GoogleSet \cup UNION {Pushed(push) : push \in OddPushes}

AppleNoise == {[Apple EXCEPT !.event = e5, !.hasTransaction = FALSE]}
AppleSetAndNoise == AppleSet \cup AppleNoise

Receipts == {[purchase |-> a1, expiresAt |-> 3]}

(* The newest usable transaction is between an older one and one that does  *)
(* not verify; or the API is down, or refuses, or knows nothing usable.     *)
AppleAnswerSet ==
  {reconcileApplePurchase(response, a1, "production") : response \in
     {Response(200, <<<<LastTransaction(1, Signed(Transaction(a1, 1, 3)), NoToken)>>,
                      <<LastTransaction(2, Signed(Transaction(a1, 2, 2)), NoToken),
                        LastTransaction(1, Token("ES256", <<>>, "stranger",
                                                 Transaction(a1, 3, 3)), NoToken)>>>>),
      Response(200, <<<<LastTransaction(0, Signed(Transaction(a1, 1, 3)), NoToken)>>>>),
      Response(503, <<>>)}}

(* The product's line item, and others. *)
LineItemOf(product, expiresAt) ==
  [product |-> product, expiresAt |-> expiresAt, autoRenew |-> TRUE]

PlayResponse ==
  [code |-> 200, state |-> "ACTIVE", cancelled |-> {}, cancelTime |-> NoTime,
   items |-> <<LineItemOf("other", 1), LineItemOf("expected", 3)>>]

GoogleAnswerSet ==
  {GetGoogleSubscription(response, "expected") : response \in
     {PlayResponse,
      [PlayResponse EXCEPT !.state = "CANCELED", !.cancelled = {"user"},
                           !.cancelTime = 1],
      [PlayResponse EXCEPT !.items = <<LineItemOf("other", 3)>>],
      [PlayResponse EXCEPT !.items = <<LineItemOf("expected", NoTime)>>],
      [PlayResponse EXCEPT !.items = <<>>],
      [PlayResponse EXCEPT !.code = 404],
      [PlayResponse EXCEPT !.code = 500]}}

(* Both notifications name the account; one of them revokes. *)
AppleAccountSet ==
  {Apple, [Apple EXCEPT !.event = e2, !.type = "REFUND", !.signedDate = 2]}

(* DeleteAllByUser: "future webhooks are ignored because no local account    *)
(* mapping exists after this operation".  A purchase of which a notification *)
(* with an account is recorded, and that has no row, has lost it to a        *)
(* cleanup.                                                                  *)
IgnoredAfterDelete ==
  [][\A n \in AppleNotifications :
       n.account # Nil /\ n.event \in events /\ Stored(n.purchase) = {}
       => \A s \in subs' : s.purchase # n.purchase]_vars

None == {}

Symmetry == Permutations(Handlers) \cup Permutations(RowIDs)
=============================================================================
