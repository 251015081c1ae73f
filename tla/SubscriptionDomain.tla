------------------------- MODULE SubscriptionDomain -------------------------
(***************************************************************************)
(* The subscription domain (internal/domain/subscription): the status      *)
(* machine, the access rule and, from the application service, the test    *)
(* that decides whether an incoming store event may overwrite a row.       *)
(*                                                                         *)
(* Instants are naturals.  NoTime stands for a nil *time.Time (expires_at, *)
(* cancelled_at, last_event_at) and for the zero milliseconds a store      *)
(* sends when it has no value.                                             *)
(***************************************************************************)
EXTENDS Naturals

NoTime == 0

Status == {"inactive", "active", "grace_period", "billing_retry",
           "expired", "cancelled", "revoked"}

(* The permitted status changes, as a map from the status to its successors. *)
validTransitions ==
  [from \in Status |->
     CASE from \in {"inactive", "active"} -> Status \ {"inactive"}
       [] from = "grace_period"  -> {"active", "billing_retry", "expired", "revoked"}
       [] from \in {"billing_retry", "cancelled"} -> {"active", "expired", "revoked"}
       [] from = "expired"       -> {"active", "revoked"}
       [] from = "revoked"       -> {}]

CanTransition(from, to) == to \in validTransitions[from]

(* time.Time.Before on two optional instants: false when either is nil. *)
Before(t, u) == t # NoTime /\ u # NoTime /\ t < u

HasActiveAccess(sub, at) ==
  \/ /\ sub.status \in {"active", "grace_period"}
     /\ sub.expiresAt # NoTime => sub.expiresAt > at
  \/ /\ sub.status = "cancelled"
     /\ sub.expiresAt # NoTime
     /\ sub.expiresAt > at

(* Variants of shouldApplyUpdate, each with one of its checks dropped. *)
ApplyWithoutOrdering(existing, status, expiresAt, eventAt) ==
  /\ existing.status # "revoked"
  /\ status # "revoked" => ~Before(expiresAt, existing.expiresAt)
  /\ CanTransition(existing.status, status)

ApplyWithoutExpiry(existing, status, expiresAt, eventAt) ==
  /\ existing.status # "revoked"
  /\ ~Before(eventAt, existing.lastEventAt)
  /\ CanTransition(existing.status, status)

ApplyWithoutTransition(existing, status, expiresAt, eventAt) ==
  /\ existing.status # "revoked"
  /\ ~Before(eventAt, existing.lastEventAt)
  /\ status # "revoked" => ~Before(expiresAt, existing.expiresAt)

ApplyAfterRevocation(existing, status, expiresAt, eventAt) ==
  /\ ~Before(eventAt, existing.lastEventAt)
  /\ status # "revoked" => ~Before(expiresAt, existing.expiresAt)
  /\ existing.status = "revoked" \/ CanTransition(existing.status, status)

(* May an event with this status, expiry and event time overwrite the row? *)
ShouldApplyUpdate(existing, status, expiresAt, eventAt) ==
  /\ existing.status # "revoked"
  /\ ~Before(eventAt, existing.lastEventAt)
  /\ status # "revoked" => ~Before(expiresAt, existing.expiresAt)
  /\ CanTransition(existing.status, status)
=============================================================================
