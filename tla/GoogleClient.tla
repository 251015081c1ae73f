---------------------------- MODULE GoogleClient ----------------------------
(***************************************************************************)
(* The Play side of the service (internal/platform/google): what the       *)
(* client makes of a purchases.subscriptionsv2 response, and what the RTDN *)
(* decoder makes of a Pub/Sub push.  Neither has state.                    *)
(*                                                                         *)
(* NoTime stands for a timestamp that is missing or does not parse.        *)
(***************************************************************************)
EXTENDS SubscriptionDomain, Sequences

GoogleState == {"UNSPECIFIED", "PENDING", "ACTIVE", "PAUSED",
                "IN_GRACE_PERIOD", "ON_HOLD", "CANCELED", "EXPIRED"}

(* A found subscription always has an expiry time; without one it is        *)
(* malformed, and so "failed".                                              *)
GoogleAnswer ==
  [outcome : {"found", "not_found", "failed"}, state : GoogleState,
   autoRenewing : BOOLEAN, byDeveloper : BOOLEAN,
   expiresAt : Nat, cancelledAt : Nat]

NoSubscription(outcome) ==
  [outcome |-> outcome, state |-> "UNSPECIFIED", autoRenewing |-> FALSE,
   byDeveloper |-> FALSE, expiresAt |-> NoTime, cancelledAt |-> NoTime]

(* Any state this version of the client does not know is UNSPECIFIED. *)
mapV2State(raw) == IF raw \in GoogleState THEN raw ELSE "UNSPECIFIED"

(* The first line item of the product. *)
LineItem(items, product) ==
  {items[i] : i \in {k \in DOMAIN items :
                       /\ items[k].product = product
                       /\ \A l \in 1..(k - 1) : items[l].product # product}}

(* cancelled is the set of contexts the response carries; the first of user, *)
(* system, developer and replacement is the reason.                          *)
DeveloperInitiated(response) ==
  /\ "developer" \in response.cancelled
  /\ response.cancelled \cap {"user", "system"} = {}

Normalized(response, item) ==
  [outcome |-> "found", state |-> mapV2State(response.state),
   autoRenewing |-> item.autoRenew,
   byDeveloper |-> DeveloperInitiated(response),
   expiresAt |-> item.expiresAt,
   cancelledAt |-> IF "user" \in response.cancelled THEN response.cancelTime
                   ELSE NoTime]

(* Variant of normalizeSubscriptionV2: a missing expiry is let through. *)
NormalizeWithoutExpiry(response, product) ==
  IF response.items = <<>> THEN NoSubscription("failed")
  ELSE IF LineItem(response.items, product) = {} THEN NoSubscription("not_found")
  ELSE Normalized(response, CHOOSE item \in LineItem(response.items, product) : TRUE)

normalizeSubscriptionV2(response, product) ==
  IF response.items = <<>> THEN NoSubscription("failed")
  ELSE IF LineItem(response.items, product) = {} THEN NoSubscription("not_found")
  ELSE LET item == CHOOSE item \in LineItem(response.items, product) : TRUE
       IN  IF item.expiresAt = NoTime THEN NoSubscription("failed")
           ELSE Normalized(response, item)

(* code: the HTTP status, 0 when the request itself failed. *)
GetGoogleSubscription(response, product) ==
  CASE response.code = 404 -> NoSubscription("not_found")
    [] response.code = 200 -> normalizeSubscriptionV2(response, product)
    [] OTHER -> NoSubscription("failed")
-----------------------------------------------------------------------------
(* A push that is empty, is not JSON, has no message id or no data, or whose *)
(* data is not base64 of JSON is refused.                                    *)
ParsePubSubNotification(push) ==
  /\ push.envelope = "json"
  /\ push.messageID
  /\ push.data = "json"

(* FlexibleTimestamp: zero, negative, null and empty are no time. *)
FlexibleTime(millis) == IF millis > 0 THEN millis ELSE NoTime

(* What the webhook goes on with: one notification, or none when the push is *)
(* refused.  A subscription notification in scope must name a token.         *)
Pushed(push) ==
  LET about == IF push.test THEN "test"
               ELSE IF push.subscription THEN "subscription" ELSE "product"
      inScope == push.package = "expected" /\ push.product = "expected"
  IN  {n \in {[event |-> push.event, about |-> about, type |-> push.type,
               inScope |-> inScope, purchase |-> push.token,
               eventTime |-> FlexibleTime(push.eventTimeMillis),
               publishTime |-> push.publishTime]} :
         /\ ParsePubSubNotification(push)
         /\ about = "subscription" /\ inScope => push.hasToken}
=============================================================================
