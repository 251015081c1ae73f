--------------------------- MODULE AppleDecisions ---------------------------
(***************************************************************************)
(* What the service makes of what it gets from Apple: one step takes a     *)
(* notification or an App Store Server API response and decides.           *)
(***************************************************************************)
EXTENDS AppleClient

CONSTANTS
  Certificates,       \* all that may stand in a token's header
  AppleAuthorities,   \* the names of those with which Apple certifies others
  NotificationKeys,   \* the names of those with which its servers sign
  Notifications,      \* [kind, env, outer]: requests, and the environment served
  Responses,          \* [kind, env, purchase, response]: answers about a purchase
  Undecided

VARIABLES input, decision

vars == <<input, decision>>

Environments == {"production", "sandbox"}

(* What the embedded roots are trusted for: an authority of Apple's certifies *)
(* only authorities of Apple's, and marks only its own servers' keys.         *)
ASSUME TrustAssumption ==
  /\ AppleRootCertPool \subseteq AppleAuthorities
  /\ \A c \in Certificates : c.issuer \in AppleAuthorities =>
       /\ c.purpose = "authority" => c.name \in AppleAuthorities
       /\ c.purpose = "notifications" => c.name \in NotificationKeys

Carries(token) == token # NoToken => token.x5c \in Seq(Certificates)

ItemsOf(response) == UNION {ToSet(group) : group \in ToSet(response.groups)}

(* A request names its kind; headers list certificates, responses list groups *)
(* of items, signed dates are numbers; an undecided request has no decision.                             *)
ASSUME InputsAssumption ==
  /\ \A n \in Notifications :
       /\ n.kind = "notification" /\ n.env \in Environments /\ n.outer # NoToken
       /\ Carries(n.outer)
       /\ Carries(n.outer.payload.transaction) /\ Carries(n.outer.payload.renewal)
  /\ \A r \in Responses :
       /\ r.kind = "response" /\ r.env \in Environments
       /\ r.response.groups \in Seq(Seq(ItemsOf(r.response)))
       /\ \A item \in ItemsOf(r.response) :
            /\ item # NoCandidate
            /\ Carries(item.transaction) /\ Carries(item.renewal)
            /\ item.transaction # NoToken =>
                 item.transaction.payload.signedDate \in Int
  /\ Undecided \notin {"refused", "recorded", "ignored", "processed"}

Init == input \in Notifications \cup Responses /\ decision = Undecided

DecideNotification ==
  /\ decision = Undecided
  /\ input.kind = "notification"
  /\ decision' = Disposition(input.outer, input.env)
  /\ UNCHANGED input

DecideResponse ==
  /\ decision = Undecided
  /\ input.kind = "response"
  /\ decision' = reconcileApplePurchase(input.response, input.purchase, input.env)
  /\ UNCHANGED input

Next == DecideNotification \/ DecideResponse

Spec == Init /\ [][Next]_vars
-----------------------------------------------------------------------------
(* Made by Apple's notification service. *)
Genuine(token) == token.signer \in NotificationKeys

(* VER-01, ENV-01, "fail closed": a notification leaves a trace only when    *)
(* every token it carries was made by Apple's notification service, and      *)
(* reaches a transaction only in the service's own environment; an answer of *)
(* the API is used only for a genuine transaction that it lists, of the      *)
(* purchase asked about, this bundle and this environment.                   *)
FailsClosed ==
  /\ input.kind = "notification" /\ decision \in {"recorded", "processed"} =>
       LET payload == input.outer.payload
           tx == payload.transaction
       IN  /\ Genuine(input.outer)
           /\ tx # NoToken => Genuine(tx) /\ (payload.renewal # NoToken => Genuine(payload.renewal))
           /\ decision = "processed" =>
                tx # NoToken /\ mapEnvironment(tx.payload.environment) = input.env
  /\ input.kind = "response" /\ decision # Undecided /\ decision.outcome = "ok" =>
       \E item \in ToSet(FlattenSeq(input.response.groups)) :
         LET tx == item.transaction
         IN  /\ tx # NoToken /\ Genuine(tx)
             /\ tx.payload.purchase = input.purchase /\ tx.payload.ourBundle
             /\ mapEnvironment(tx.payload.environment) = input.env
             /\ tx.payload.expiresAt = decision.expiresAt
             /\ item.renewal # NoToken => Genuine(item.renewal)

(* The items that may be taken, by position in reading order, and the one    *)
(* among them with the latest signed date, the first of equals.              *)
Candidates(items, purchase, env) ==
  {i \in DOMAIN items : Acceptable(items[i], purchase, env)}

SignedDate(item) == item.transaction.payload.signedDate

Newest(items, purchase, env) ==
  LET candidates == Candidates(items, purchase, env)
  IN  {i \in candidates : \A k \in candidates \ {i} :
         \/ SignedDate(items[k]) < SignedDate(items[i])
         \/ SignedDate(items[k]) = SignedDate(items[i]) /\ i < k}

(* The API has answered with transactions of the service's environment. *)
Informs(response, env) ==
  /\ response.code \in 200..299 /\ response.decodes /\ response.groups # <<>>
  /\ response.environment # "" => (response.environment = "production") = (env = "production")

(* Reconciling takes the newest acceptable transaction, wherever the         *)
(* response lists it; and when that one cannot be used it falls back to no   *)
(* other: a refused answer never turns into an older state.                  *)
ReconcileIsSelection ==
  input.kind = "response" /\ decision # Undecided =>
    LET items == FlattenSeq(input.response.groups)
        chosen == {items[i] : i \in Newest(items, input.purchase, input.env)}
        usable == {item \in chosen : item.status \in 1..5 /\ VerifyRenewalInfo(item.renewal)}
    IN  IF Informs(input.response, input.env) /\ usable # {}
          THEN \E item \in usable :
                 decision = [outcome |-> "ok", purchase |-> input.purchase,
                             status |-> mapAppleAPIStatus[item.status],
                             expiresAt |-> item.transaction.payload.expiresAt]
          ELSE decision.outcome # "ok"
=============================================================================
