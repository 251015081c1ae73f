--------------------------- MODULE GooglePurchase ---------------------------
(***************************************************************************)
(* VerifyGooglePurchase, behind both POST .../verify and POST .../restore: *)
(* the state of a purchase token is asked of the Play Developer API and    *)
(* written for the calling account.  Every API error refuses the purchase. *)
(***************************************************************************)
EXTENDS GoogleWebhook

CONSTANT GoogleTokens   \* purchase tokens clients submit

ASSUME GooglePurchaseAssumption == GoogleTokens \subseteq Purchases

ReceiveGoogleVerify(h) ==
  \E user \in Users, token \in GoogleTokens :
    Open(h, [NoJob EXCEPT !.kind = "google_verify", !.user = user,
                          !.purchase = token], "call")

CallsGoogleForVerify(h) == pc[h] = "call" /\ job[h].kind = "google_verify"

GooglePurchaseFetched(h, answers) ==
  /\ CallsGoogleForVerify(h)
  /\ \E answer \in answers :
       /\ answer.outcome = "found"
       /\ Answered(h, [job[h] EXCEPT !.status = mapGoogleStatus("OTHER", answer, now),
                                     !.expiresAt = answer.expiresAt], "find")

GooglePurchaseRefused(h, answers) ==
  /\ CallsGoogleForVerify(h)
  /\ \E answer \in answers : answer.outcome # "found"
  /\ Close(h)
  /\ UNCHANGED <<subs, events>>

FindsForGoogleVerify(h) == pc[h] = "find" /\ job[h].kind = "google_verify"

(* cancelled_at is only cleared by "active", and never set. *)
GoogleVerified(existing, j, at) ==
  [existing EXCEPT
     !.user = j.user,
     !.status = j.status,
     !.expiresAt = j.expiresAt,
     !.cancelledAt = IF j.status = "active" THEN NoTime ELSE @,
     !.updatedAt = at]

UpsertGoogleVerified(h) ==
  /\ FindsForGoogleVerify(h)
  /\ \E existing \in Stored(job[h].purchase) :
       Stage(h, [op |-> "upsert", row |-> GoogleVerified(existing, job[h], now)])

GoogleVerifiedRow(id, j, at) ==
  [id |-> id, user |-> j.user, purchase |-> j.purchase, status |-> j.status,
   expiresAt |-> j.expiresAt, cancelledAt |-> NoTime,
   lastEventAt |-> NoTime, updatedAt |-> at]

CreateGoogleVerified(h) ==
  /\ FindsForGoogleVerify(h)
  /\ Stored(job[h].purchase) = {}
  /\ \E id \in FreshIDs :
       Stage(h, [op |-> "create", row |-> GoogleVerifiedRow(id, job[h], now)])

GooglePurchaseStep(h, answers) ==
  \/ GooglePurchaseFetched(h, answers)
  \/ GooglePurchaseRefused(h, answers)
  \/ UpsertGoogleVerified(h)
  \/ CreateGoogleVerified(h)
=============================================================================
