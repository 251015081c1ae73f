---------------------------- MODULE AppleClient ----------------------------
(***************************************************************************)
(* The App Store side of the service (internal/platform/apple and what     *)
(* internal/application/subscription does with it before a transaction):   *)
(* the verification of signed tokens, the App Store Server API client, the *)
(* choice among the transactions it returns, and the checks a notification *)
(* passes before it may change anything.  None of it has state.            *)
(*                                                                         *)
(* A certificate is [name, issuer, key, purpose]: issuer names the         *)
(* certificate whose key signed it, purpose is "notifications" when it     *)
(* carries Apple's server notification OID and "authority" when it may     *)
(* sign others.  A token is [alg, x5c, signer, payload]: x5c is the chain  *)
(* in its header, signer the certificate whose key made the signature.     *)
(* NoToken stands for the empty string.                                    *)
(***************************************************************************)
EXTENDS SubscriptionDomain, Sequences, SequencesExt

CONSTANTS NoToken, NoCandidate

(* The roots the binary embeds. *)
AppleRootCertPool == {"Apple Root CA - G3", "Apple Root CA - G2", "Apple Root CA"}

(* x509: the leaf chains up to a root through authorities of the header, in  *)
(* any order: its issuer is in every set of names that has the roots and,    *)
(* with an issuer, the authorities it has signed.                            *)
ChainVerifies(x5c) ==
  LET intermediates == {c \in ToSet(Tail(x5c)) : c.purpose = "authority"}
      names == AppleRootCertPool \cup {c.name : c \in intermediates}
  IN  \A vouched \in SUBSET names :
        /\ AppleRootCertPool \subseteq vouched
        /\ \A c \in intermediates : c.issuer \in vouched => c.name \in vouched
        => Head(x5c).issuer \in vouched

verifyJWS(token) ==
  /\ token.alg = "ES256"
  /\ token.x5c # <<>>
  /\ ChainVerifies(token.x5c)
  /\ Head(token.x5c).purpose = "notifications"
  /\ Head(token.x5c).key = "ecdsa"
  /\ token.signer = Head(token.x5c).name

VerifyTransaction(token) == token # NoToken /\ verifyJWS(token)

(* No renewal info is no error. *)
VerifyRenewalInfo(token) == token = NoToken \/ verifyJWS(token)

(* Only "production", in any case, is production. *)
mapEnvironment(env) == IF env = "production" THEN "production" ELSE "sandbox"
-----------------------------------------------------------------------------
(* In scope for a service of environment env. *)
InScope(tx, env) ==
  /\ tx.payload.ourBundle
  /\ mapEnvironment(tx.payload.environment) = env
  /\ tx.payload.ourProduct

(* Variant of SignaturesHold: a renewal info that fails is left out.        *)
TransactionHolds(payload) == VerifyTransaction(payload.transaction)

(* The tokens inside the notification. *)
SignaturesHold(payload) ==
  VerifyTransaction(payload.transaction) /\ VerifyRenewalInfo(payload.renewal)

(* HandleAppleNotification up to its transaction: what becomes of a request  *)
(* that carries the signed payload `outer'.  payload.handled: its type is    *)
(* one that mapAppleStatus has a status for.                                 *)
Disposition(outer, env) ==
  LET payload == outer.payload
      hasTransaction == payload.transaction # NoToken
  IN  CASE \/ ~verifyJWS(outer)
           \/ ~payload.hasUUID
           \/ hasTransaction /\ ~SignaturesHold(payload) -> "refused"
        [] OTHER -> IF ~hasTransaction THEN "recorded"
                    ELSE IF ~InScope(payload.transaction, env) THEN "ignored"
                    ELSE IF payload.handled THEN "processed" ELSE "recorded"
-----------------------------------------------------------------------------
(* APIClient.GetSubscription: 0 is a transport error. *)
APIOutcome(response) ==
  CASE response.code = 0 \/ response.code = 429 \/ response.code >= 500 -> "unavailable"
    [] response.code \in 200..299 /\ response.decodes /\ response.groups # <<>> -> "ok"
    [] OTHER -> "refused"

(* A lastTransactions item whose transaction may be taken for purchase. *)
Acceptable(item, purchase, env) ==
  /\ VerifyTransaction(item.transaction)
  /\ item.transaction.payload.purchase = purchase
  /\ item.transaction.payload.ourBundle
  /\ mapEnvironment(item.transaction.payload.environment) = env

(* Variant of Newer: the last acceptable item is taken. *)
Latest(selected, item, purchase, env) ==
  IF Acceptable(item, purchase, env) THEN item ELSE selected

(* One turn of the loop: the item replaces an older selection. *)
Newer(selected, item, purchase, env) ==
  IF /\ Acceptable(item, purchase, env)
     /\ \/ selected = NoCandidate
        \/ item.transaction.payload.signedDate > selected.transaction.payload.signedDate
    THEN item ELSE selected

(* The loop over the items, in the order of the response. *)
SelectedOf(items, purchase, env) ==
  LET Selected[n \in 0..Len(items)] ==
        IF n = 0 THEN NoCandidate
        ELSE Newer(Selected[n - 1], items[n], purchase, env)
  IN  Selected[Len(items)]

SelectedItem(response, purchase, env) ==
  SelectedOf(FlattenSeq(response.groups), purchase, env)

(* The API's status codes. *)
mapAppleAPIStatus == <<"active", "expired", "billing_retry",
                       "grace_period", "revoked">>

Reconciled(outcome, purchase, status, expiresAt) ==
  [outcome |-> outcome, purchase |-> purchase, status |-> status,
   expiresAt |-> expiresAt]

(* What verifying a purchase goes on with. *)
reconcileApplePurchase(response, purchase, env) ==
  LET selected == SelectedItem(response, purchase, env)
      Without(outcome) == Reconciled(outcome, purchase, "inactive", NoTime)
  IN  IF APIOutcome(response) # "ok" THEN Without(APIOutcome(response))
      ELSE IF \/ response.environment # "" /\ mapEnvironment(response.environment) # env
              \/ selected = NoCandidate
              \/ selected.status \notin DOMAIN mapAppleAPIStatus
              \/ ~VerifyRenewalInfo(selected.renewal)
        THEN Without("refused")
      ELSE Reconciled("ok", purchase, mapAppleAPIStatus[selected.status],
                      selected.transaction.payload.expiresAt)
=============================================================================
