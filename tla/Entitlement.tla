---------------------------- MODULE Entitlement ----------------------------
(***************************************************************************)
(* GetSubscription: what an account is told of its entitlement, read off   *)
(* the committed rows.  It writes nothing.                                 *)
(***************************************************************************)
EXTENDS SubscriptionRepository

CONSTANT ProAllowlist   \* accounts entitled whatever they have bought

(* The most recently updated row of the account; any one of several that are *)
(* equally recent, and none if it has no row.                                *)
FindByUserID(user) ==
  {r \in subs : /\ r.user = user
                /\ \A s \in subs : s.user = user => s.updatedAt <= r.updatedAt}

entitlementFor(user, found) ==
  IF (\E sub \in found : HasActiveAccess(sub, now)) \/ user \in ProAllowlist
    THEN "pro" ELSE "free"

(* What GetSubscription may answer. *)
Entitlements(user) ==
  IF FindByUserID(user) = {} THEN {entitlementFor(user, {})}
  ELSE {entitlementFor(user, {sub}) : sub \in FindByUserID(user)}
-----------------------------------------------------------------------------
(* A statement of the README that the code does not keep. *)

(* "pro: Granted to users who hold an active subscription". *)
ActiveRowMeansPro ==
  \A r \in subs : HasActiveAccess(r, now) => Entitlements(r.user) = {"pro"}
=============================================================================
