---------------------------- MODULE AppleLedger ----------------------------
(***************************************************************************)
(* AppleWebhook as an implementation of NotificationLedger: the ledger is  *)
(* read off the two tables, what is on its way is not part of it.          *)
(***************************************************************************)
EXTENDS AppleWebhook

NoEntry == [status |-> "none"]

EntryFor(r) == [user |-> r.user, status |-> r.status, expiresAt |-> r.expiresAt,
                eventAt |-> r.lastEventAt]

(* The entry of a purchase whose rows these are; there is one at most. *)
EntryIn(rows) ==
  IF rows = {} THEN NoEntry ELSE EntryFor(CHOOSE r \in rows : TRUE)

LedgerNow == [p \in Purchases |-> EntryIn(Stored(p))]

(* Every job a notification may be turned into, at any time of the clock. *)
JobsOf(n) == {AppleJob(n, t) : t \in {u \in 1..MaxTime : AppleProcessable(n, u)}}

LedgerUpdates == UNION {JobsOf(n) : n \in AppleNotifications}

(* Whether a notification says nothing of a subscription does not depend on  *)
(* the time.                                                                 *)
LedgerInformational ==
  {n.event : n \in {m \in AppleNotifications : AppleInformational(m, 1)}}

Ledger == INSTANCE NotificationLedger WITH
  Keys <- Purchases,
  Updates <- LedgerUpdates,
  Informational <- LedgerInformational,
  Follows <- {x \in Status \X Status : x[2] \in validTransitions[x[1]]},
  Revoked <- "revoked", NoUser <- Nil,
  ledger <- LedgerNow,
  consumed <- events

(* While requests about one purchase do not overlap, the handler's many      *)
(* steps amount to one atomic decision per notification.                     *)
ImplementsLedger == Ledger!LedgerSpec
=============================================================================
