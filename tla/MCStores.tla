------------------------------ MODULE MCStores ------------------------------
(* The instance of AppleDecisions for TLC. *)
EXTENDS AppleDecisions, StoreSamples

CONSTANTS a1, a2

SampleCertificates == {Notifier, Developer, WWDR, Stranger, Self, Forged}

(* ---- notifications ---- *)

ScopedTransactions ==
  {Transaction(a1, 1, 2),
   [Transaction(a1, 1, 2) EXCEPT !.ourBundle = FALSE],
   [Transaction(a1, 1, 2) EXCEPT !.ourProduct = FALSE],
   [Transaction(a1, 1, 2) EXCEPT !.environment = "xcode"]}

SampleNotifications ==
  {[kind |-> "notification", env |-> env, outer |-> outer] :
     <<env, outer>> \in Environments \X
       UNION {Tokens([hasUUID |-> uuid, transaction |-> tx, renewal |-> renewal,
                      handled |-> handled]) :
                uuid \in BOOLEAN, handled \in BOOLEAN,
                tx \in {NoToken} \cup UNION {Tokens(p) : p \in ScopedTransactions},
                renewal \in {NoToken} \cup Tokens("renewal")}}

(* ---- App Store Server API responses ---- *)

Items ==
  {LastTransaction(1, Signed(Transaction(a1, 1, 2)), NoToken),
   LastTransaction(2, Signed(Transaction(a1, 2, 1)), Signed("renewal")),
   LastTransaction(3, Signed(Transaction(a1, 2, 3)),
                   Token("ES256", <<>>, "stranger", "renewal")),
   LastTransaction(0, Signed(Transaction(a1, 3, 3)), NoToken),
   LastTransaction(1, Token("ES256", <<Developer, WWDR>>, "developer",
                            Transaction(a1, 4, 4)), NoToken),
   LastTransaction(1, Signed(Transaction(a2, 4, 4)), NoToken),
   LastTransaction(5, Signed([Transaction(a1, 4, 4) EXCEPT !.environment = "sandbox"]),
                   NoToken),
   LastTransaction(1, NoToken, NoToken)}

Groups == BoundedSeq(BoundedSeq(Items, 1) \cup {<<i, k>> : i \in Items, k \in Items}, 1)
          \cup {<<<<i>>, <<k, l>>>> : i \in Items, k \in Items, l \in Items}

SampleResponses ==
  {[kind |-> "response", env |-> env, purchase |-> a1, response |-> response] :
     <<env, response>> \in Environments \X
       ({Response(200, groups) : groups \in Groups}
        \cup {[Response(code, <<<<i>>>>) EXCEPT !.environment = env, !.decodes = decodes] :
                code \in {0, 200, 204, 401, 404, 429, 500}, i \in Items,
                env \in {"", "Sandbox"}, decodes \in BOOLEAN})}
=============================================================================
