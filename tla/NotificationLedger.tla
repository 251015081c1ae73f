------------------------- MODULE NotificationLedger -------------------------
(***************************************************************************)
(* What processing store notifications promises, without handlers,         *)
(* transactions or rows: a ledger with at most one entry per purchase, and *)
(* notifications that are each consumed once, in one step that decides     *)
(* from the entry as it is at that moment.                                 *)
(***************************************************************************)
EXTENDS Naturals

CONSTANTS
  Keys,          \* purchases
  Updates,       \* what notifications say: [event, purchase, user, status,
                 \* expiresAt, eventAt]
  Informational, \* events that say nothing about a subscription
  Follows,       \* the pairs <<from, to>> of statuses that may follow
  Revoked, NoUser, NoEntry

VARIABLES ledger, consumed

LedgerInit == ledger = [k \in Keys |-> NoEntry] /\ consumed = {}

(* t is an earlier instant than u, both being known. *)
Earlier(t, u) == 0 < t /\ t < u

(* u says something about the purchase that entry does not already outdate. *)
Supersedes(u, entry) ==
  /\ <<entry.status, u.status>> \in Follows
  /\ ~Earlier(u.eventAt, entry.eventAt)
  /\ Earlier(u.expiresAt, entry.expiresAt) => u.status = Revoked

Entry(u, user, eventAt) ==
  [user |-> user, status |-> u.status, expiresAt |-> u.expiresAt,
   eventAt |-> eventAt]

(* The first notification that names an account opens the entry. *)
OpenEntry(u) ==
  /\ ledger[u.purchase] = NoEntry
  /\ u.user # NoUser
  /\ ledger' = [ledger EXCEPT ![u.purchase] = Entry(u, u.user, u.eventAt)]

(* A later one replaces it, the account excepted. *)
AmendEntry(u) ==
  /\ ledger[u.purchase] # NoEntry
  /\ Supersedes(u, ledger[u.purchase])
  /\ ledger' = [ledger EXCEPT ![u.purchase] =
                  Entry(u, @.user, IF u.eventAt = 0 THEN @.eventAt ELSE u.eventAt)]

KeepEntry(u) ==
  /\ IF ledger[u.purchase] = NoEntry THEN u.user = NoUser
     ELSE ~Supersedes(u, ledger[u.purchase])
  /\ ledger' = ledger

Process(u) ==
  /\ u.event \notin consumed
  /\ consumed' = consumed \cup {u.event}
  /\ OpenEntry(u) \/ AmendEntry(u) \/ KeepEntry(u)

Note(event) ==
  /\ consumed' = consumed \cup {event}
  /\ ledger' = ledger

LedgerNext ==
  \/ \E u \in Updates : Process(u)
  \/ \E event \in Informational : Note(event)

LedgerSpec == LedgerInit /\ [][LedgerNext]_<<ledger, consumed>>
=============================================================================
