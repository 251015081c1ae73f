---------------------------- MODULE StoreDelivery ----------------------------
(***************************************************************************)
(* The service between two stores that notify it.  A store takes each      *)
(* purchase through the stages of a life; entering a stage it sends a      *)
(* notification, which it delivers again and again, in any order with the  *)
(* others, until it has seen a success answer.  What its API says is what  *)
(* is true at the moment of the call.                                      *)
(*                                                                         *)
(* An answer may be lost: the connection is cut, the server's write        *)
(* timeout is shorter than its request timeout, or the process dies after  *)
(* the commit.  The store then delivers what is already recorded.          *)
(***************************************************************************)
EXTENDS SubscriptionService, SubscriptionRequirements

CONSTANT Lives    \* by name, the lives the purchases may have

VARIABLES
  life,           \* the name of the life they have
  stage,          \* how many of them each purchase has entered
  settled,        \* events the store has seen a success answer for
  healthy         \* from now on no request fails and no account goes away

storeVars == <<life, stage, settled, healthy>>
deliveryVars == <<vars, storeVars>>

(* until: the instant the access the store grants ends, NoTime for at once.  *)
(* The stores know their own purchases, and answer about them or fail.       *)
LifeStage ==
  [notification : AppleNotifications \cup GoogleNotifications, date : Nat,
   until : Nat, apple : SUBSET AppleAnswers, google : SUBSET GoogleAnswers]

ASSUME DeliveryAssumption ==
  \A l \in DOMAIN Lives :
    /\ Lives[l] \in [Purchases -> Seq(LifeStage)]
    /\ \A p \in Purchases : \A i \in DOMAIN Lives[l][p] :
         /\ Lives[l][p][i].notification.purchase = p
         /\ \A answer \in Lives[l][p][i].google : answer.outcome # "not_found"

StagesOf(p) == Lives[life][p]
Entered(p) == {StagesOf(p)[i] : i \in 1..stage[p]}
Today(p) == StagesOf(p)[stage[p]]

Emitted(p) == {s.notification.event : s \in Entered(p)}
AllEmitted == UNION {Emitted(p) : p \in Purchases}

DeliveryInit ==
  /\ RepositoryInit
  /\ life \in DOMAIN Lives
  /\ stage = [p \in Purchases |-> 0]
  /\ settled = {}
  /\ healthy = FALSE
-----------------------------------------------------------------------------
(* Something happens to the purchase at the store. *)
EnterStage(p) ==
  /\ stage[p] < Len(StagesOf(p))
  /\ StagesOf(p)[stage[p] + 1].date <= now
  /\ stage' = [stage EXCEPT ![p] = @ + 1]
  /\ UNCHANGED <<vars, life, settled, healthy>>

(* A delivery, the first or another; after the success answer too, which     *)
(* Pub/Sub does not rule out.                                                *)
Deliver(h, event) ==
  /\ event \in AllEmitted
  /\ ReceiveAppleNotification(h) \/ ReceiveGoogleNotification(h)
  /\ job'[h].event = event /\ event \in Emitted(job'[h].purchase)
  /\ UNCHANGED storeVars

(* The app has the receipt of a purchase that was made. *)
Submit(h) ==
  /\ ReceiveAppleVerify(h) \/ ReceiveGoogleVerify(h)
  /\ stage[job'[h].purchase] > 0
  /\ UNCHANGED storeVars

Cleanup(h) == ~healthy /\ ReceiveDelete(h) /\ UNCHANGED storeVars

(* What the Play Developer API says of p: what is true, or nothing. *)
Says(p) == {a \in Today(p).google : healthy => a.outcome # "failed"}

(* Work for a request about p; an error answer settles nothing. *)
Advance(h, p) ==
  /\ job[h].purchase = p
  /\ Proceed(h, Today(p).apple, Says(p))
  /\ UNCHANGED storeVars

(* Success, if the store gets to see it. *)
Answer(h) ==
  /\ Conclude(h)
  /\ settled' \in {settled, settled \cup ({job[h].event} \ {Nil})}
  /\ UNCHANGED <<life, stage, healthy>>

Fail(h) == ~healthy /\ Rollback(h) /\ UNCHANGED storeVars

(* The last outage is over, and the last cleanup: an account that goes away  *)
(* each time between a notification's SELECT and its UPDATE, and comes back  *)
(* before the next delivery, makes every delivery fail.                      *)
Heal ==
  /\ ~healthy
  /\ healthy' = TRUE
  /\ UNCHANGED <<vars, life, stage, settled>>

Work(h) == Answer(h) \/ \E p \in Purchases : Advance(h, p)

Arrive(h) == Submit(h) \/ \E event \in EventIDs : Deliver(h, event)

StoreNext ==
  \/ Tick /\ UNCHANGED storeVars
  \/ \E p \in Purchases : EnterStage(p)
  \/ \E h \in Handlers : Work(h) \/ Fail(h)

DeliveryNext ==
  \/ StoreNext
  \/ Heal
  \/ \E h \in Handlers : Arrive(h) \/ Cleanup(h)

DeliverySpec == DeliveryInit /\ [][DeliveryNext]_deliveryVars

(* No request arrives while one about the same purchase is in progress, and  *)
(* no account goes away.                                                     *)
SerialDeliveryNext ==
  StoreNext \/ \E h \in Handlers : Arrive(h) /\ OnePerPurchase'

SerialDeliverySpec == DeliveryInit /\ [][SerialDeliveryNext]_deliveryVars

(* A store goes on delivering what it has seen no success answer for; the    *)
(* server runs what it has accepted (SubscriptionService's Fairness).        *)
DeliveryFairness ==
  /\ \A event \in EventIDs :
       SF_deliveryVars(\E h \in Handlers : event \notin settled /\ Deliver(h, event))
  /\ \A h \in Handlers :
       /\ WF_deliveryVars(Work(h))
       /\ SF_deliveryVars(pc[h] = "record" /\ Work(h))
       /\ SF_deliveryVars(pc[h] = "write" /\ Work(h))
       /\ SF_deliveryVars(pc[h] = "delete" /\ Work(h))

FairDeliverySpec == DeliverySpec /\ DeliveryFairness
-----------------------------------------------------------------------------
(* A success answer is a promise: the store will not come back with the      *)
(* notification, so it is recorded, even when the answer is that of a        *)
(* duplicate whose first delivery was still being processed on arrival.      *)
SettledIsRecorded == settled \subseteq events

(* Whatever fails before, once the last outage is over every notification    *)
(* that was sent is recorded: no error path answers with success, and none   *)
(* leaves behind what keeps the next delivery from being processed.          *)
EventuallyRecorded == healthy ~> AllEmitted \subseteq events

(* Nothing about the purchase is on its way. *)
Quiet(p) ==
  /\ stage[p] > 0
  /\ Emitted(p) \subseteq events
  /\ \A h \in Handlers : job[h].purchase # p

(* The row gives access exactly while the store does. *)
AccessAgrees(r) == HasActiveAccess(r, now) <=> now < Today(r.purchase).until

(* Once all that was sent about a purchase is recorded, its row gives access *)
(* exactly while the store does, although the notifications came late, twice *)
(* and in any order, some before there was a row, and verifications that     *)
(* leave last_event_at alone came in between.                                *)
PaidAccessSettles == \A r \in subs : Quiet(r.purchase) => AccessAgrees(r)
-----------------------------------------------------------------------------
(* Statements of comments that the code does not keep. *)

(* "Revoked is a terminal state for this transaction": a purchase that the   *)
(* store has taken back gives no access once its revocation is recorded and  *)
(* no request about it is left, requests that overlap included.              *)
RevocationLasts ==
  \A r \in subs :
    Quiet(r.purchase) /\ Today(r.purchase).until = NoTime => ~HasActiveAccess(r, now)

(* "Use Google Play Developer API as the authoritative source of             *)
(* subscription state": the answer that goes with a purchase's last          *)
(* notification prevails.                                                    *)
PlayIsAuthoritative ==
  \A r \in subs :
    r.purchase \in GooglePurchases /\ Quiet(r.purchase) => AccessAgrees(r)
=============================================================================
