----------------------------- MODULE StoreLives -----------------------------
(***************************************************************************)
(* Which lives of a purchase the service follows to the end, in whatever   *)
(* order its notifications are delivered (StoreDelivery).  A life is       *)
(* judged by itself, stage by stage: by what a request can learn of the    *)
(* purchase, and by what of it the webhooks' test lets into the row.       *)
(***************************************************************************)
EXTENDS StoreDelivery

(* What can be said of a purchase, and the instant a request learns it. *)
View(status, expiresAt, at) == [status |-> status, expiresAt |-> expiresAt, at |-> at]

(* While the store is at stage s. *)
During(s) == s.date..MaxTime

(* What is made of the Play Developer API's answers at stage s. *)
GoogleViews(type, s) ==
  {View(mapGoogleStatus(type, answer, at), answer.expiresAt, at) :
     answer \in {a \in s.google : a.outcome = "found"}, at \in During(s)}

(* What a webhook learns from the notification of stage s at stage t. *)
EventViews(s, t) ==
  LET n == s.notification
  IN  IF n \in AppleNotifications
        THEN {View(mapAppleStatus(n, at), n.expiresAt, at) :
                at \in {u \in During(t) : AppleProcessable(n, u)}}
        ELSE GoogleViews(n.type, t)

(* What a verification of p learns at stage s: the answer of an API, or      *)
(* nothing but the receipt.                                                  *)
AnswerViews(p, s) ==
  LET answers == {a \in s.apple : a.purchase = p}
      offline == ~AppleAPIConfigured \/ \E a \in answers : a.outcome = "unavailable"
      receipts == {r \in AppleReceipts : r.purchase = p /\ offline}
  IN  {View(a.status, a.expiresAt, at) :
         a \in {b \in answers : b.outcome = "ok"}, at \in During(s)}
      \cup {View("active", r.expiresAt, at) : r \in receipts, at \in During(s)}
      \cup IF p \in GoogleTokens THEN GoogleViews("OTHER", s) ELSE {}
-----------------------------------------------------------------------------
(* All that can be learned of p while the store is at stage i, and until it  *)
(* leaves stage k.                                                           *)
Offered(p, stages, i) ==
  AnswerViews(p, stages[i]) \cup UNION {EventViews(stages[j], stages[i]) : j \in 1..i}

Past(p, stages, k) == UNION {Offered(p, stages, i) : i \in 1..k}

(* What the last notification says, and what the ones before it say now. *)
Own(stages, k) == EventViews(stages[k], stages[k])
Late(stages, k) == UNION {EventViews(stages[j], stages[k]) : j \in 1..(k - 1)}

(* A row that says v takes what a webhook says, if not for its date. *)
Accepts(v, w) == ShouldApplyUpdate(v, w.status, w.expiresAt, NoTime)

(* What the row may say once the last notification is recorded: that, what   *)
(* did not let it in, what a verification has learned since, and what that   *)
(* lets in of the notifications before it.                                   *)
Settled(p, stages, k) ==
  LET base == AnswerViews(p, stages[k]) \cup Own(stages, k)
              \cup {v \in Past(p, stages, k) : \E w \in Own(stages, k) : ~Accepts(v, w)}
  IN  base \cup {w \in Late(stages, k) : \E v \in base : Accepts(v, w)}

(* From the moment it is learned, v gives access while the store does. *)
Tells(v, s) ==
  \A t \in During(s) : t >= v.at => (HasActiveAccess(v, t) <=> t < s.until)

EventAt(n) == IF n \in AppleNotifications THEN AppleEventAt(n) ELSE GoogleEventAt(n)

(* With an appAccountToken a notification makes the row that is missing. *)
NamesAccount(n) == n \in AppleNotifications /\ n.account # Nil

(* The last notification of a life that ends at stage k is not dated before  *)
(* another one of it, and is not dropped where another one makes a row.      *)
EndsInOrder(stages, k) ==
  \A j \in 1..(k - 1) :
    LET first == stages[j].notification
        last == stages[k].notification
    IN  /\ ~Before(EventAt(last), EventAt(first))
        /\ NamesAccount(first) => NamesAccount(last)

(* What the row may say at the end of such a life, it goes on saying.        *)
SettlesAt(p, stages, k) ==
  /\ EndsInOrder(stages, k)
  /\ \A v \in Settled(p, stages, k), w \in Late(stages, k) :
       Accepts(v, w) => w \in Settled(p, stages, k)

(* Wherever the life stops, what the row may say then tells what the store   *)
(* grants.                                                                   *)
Orderly(p, stages) ==
  \A k \in DOMAIN stages :
    /\ SettlesAt(p, stages, k)
    /\ \A v \in Settled(p, stages, k) : Tells(v, stages[k])

(* Notifications do not share an event id, nor a store, and no life has one  *)
(* of them twice.                                                            *)
EventsIdentify ==
  /\ AppleNotifications \cap GoogleNotifications = {}
  /\ \A m, n \in AppleNotifications \cup GoogleNotifications : m.event = n.event => m = n
  /\ \A l \in DOMAIN Lives : \A p \in Purchases : \A i, j \in DOMAIN Lives[l][p] :
       Lives[l][p][i].notification.event = Lives[l][p][j].notification.event => i = j

OrderlyLives == \A l \in DOMAIN Lives : \A p \in Purchases : Orderly(p, Lives[l][p])
-----------------------------------------------------------------------------
(* Ends that need no judging view by view.  First, the store has taken the   *)
(* purchase back.  From the App Store the last notification says so, and so  *)
(* does every answer of its API, which is asked and does not fail: without   *)
(* it the receipt alone would pass.                                          *)
AppleTakesBack(p, s) ==
  /\ s.notification \in AppleNotifications
  /\ s.notification.type \in {"REFUND", "REVOKE"}
  /\ AppleAPIConfigured /\ p \notin GoogleTokens
  /\ \A a \in s.apple : a.purchase = p =>
       a.outcome = "refused" \/ (a.outcome = "ok" /\ a.status = "revoked")

(* Nothing is said of p by the App Store. *)
OnlyPlay(p, stages, k) ==
  /\ \A r \in AppleReceipts : r.purchase # p
  /\ \A j \in 1..k : /\ stages[j].notification \notin AppleNotifications
                     /\ \A a \in stages[j].apple : a.purchase # p

(* From Google Play the notification does; its API may say no more than that *)
(* the subscription is over or suspended.                                    *)
GoogleTakesBack(s) ==
  /\ s.notification.type = "REVOKED"
  /\ \A a \in s.google : a.outcome = "found" =>
       a.byDeveloper \/ a.state \in {"EXPIRED", "ON_HOLD", "PAUSED"}

TakenBack(p, stages, k) ==
  /\ stages[k].until = NoTime
  /\ AppleTakesBack(p, stages[k]) \/ (OnlyPlay(p, stages, k) /\ GoogleTakesBack(stages[k]))

(* Or it is paid for longer than ever.  The App Store's last notification    *)
(* and answers say so, and nothing before has said as much, or revoked it.   *)
AppleRenews(p, stages, k) ==
  LET until == stages[k].until
  IN  /\ stages[k].notification \in AppleNotifications
      /\ stages[k].notification.type \in {"SUBSCRIBED", "DID_RENEW"}
      /\ stages[k].notification.expiresAt = until
      /\ AppleAPIConfigured /\ p \notin GoogleTokens
      /\ \A a \in stages[k].apple : a.purchase = p =>
           \/ a.outcome = "refused"
           \/ a.outcome = "ok" /\ a.status = "active" /\ a.expiresAt = until
      /\ \A r \in AppleReceipts : r.purchase = p => r.expiresAt <= until
      /\ \A j \in 1..(k - 1) :
           LET before == stages[j]
           IN  /\ before.notification \in AppleNotifications
               /\ before.notification.type \notin {"REFUND", "REVOKE"}
               /\ Before(before.notification.expiresAt, until)
               /\ \A a \in before.apple : a.purchase = p /\ a.outcome = "ok" =>
                    a.status # "revoked" /\ a.expiresAt <= until

(* The Play Developer API says that it goes on, and has never said longer.   *)
GoogleRenews(stages, k) ==
  LET until == stages[k].until
  IN  /\ \A a \in stages[k].google : a.outcome = "found" =>
           a.state = "ACTIVE" /\ a.autoRenewing /\ a.expiresAt = until
      /\ \A j \in 1..k :
           /\ stages[j].notification.type # "REVOKED"
           /\ \A a \in stages[j].google : a.outcome = "found" =>
                ~a.byDeveloper /\ a.expiresAt <= until

Renewed(p, stages, k) ==
  /\ stages[k].until # NoTime
  /\ AppleRenews(p, stages, k) \/ (OnlyPlay(p, stages, k) /\ GoogleRenews(stages, k))

EndsPlainly(p, stages, k) ==
  EndsInOrder(stages, k) /\ (TakenBack(p, stages, k) \/ Renewed(p, stages, k))

(* A purchase that is taken back, or paid for longer than ever, is settled   *)
(* with that: whatever was delivered before it or comes after it, and in     *)
(* whatever order, its row gives access exactly while the store does.        *)
PlainEndsSettle ==
  \A r \in subs :
    Quiet(r.purchase) /\ EndsPlainly(r.purchase, StagesOf(r.purchase), stage[r.purchase])
    => AccessAgrees(r)

(* Whatever the store takes back, it tells plainly. *)
RevocationsTold ==
  \A l \in DOMAIN Lives : \A p \in Purchases : \A k \in DOMAIN Lives[l][p] :
    Lives[l][p][k].until = NoTime => EndsPlainly(p, Lives[l][p], k)
=============================================================================
