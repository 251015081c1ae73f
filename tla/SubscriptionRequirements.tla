---------------------- MODULE SubscriptionRequirements ----------------------
(***************************************************************************)
(* What the subscription table and the event table promise, whichever      *)
(* handlers write them.  The first group holds of every interleaving; the  *)
(* second needs requests about one purchase not to overlap.                *)
(***************************************************************************)
EXTENDS SubscriptionRepository

(* Changed(r, s): step takes row r to a different version s. *)
Changed(r, s) == r.id = s.id /\ r # s

(* The lookups by original transaction id and by purchase token return one  *)
(* row: no two committed rows carry the same purchase, and no two the same  *)
(* id, although two handlers may both have found none before they insert.   *)
OneRowPerPurchase ==
  \A r, s \in subs : r.id = s.id \/ r.purchase = s.purchase => r = s

(* A transaction that has inserted an event row is the only one that can    *)
(* apply the event: it is not recorded yet and nobody else holds it.        *)
EventHeldOnce ==
  \A h \in Handlers : HoldsEvent(h) =>
    /\ job[h].event \notin events
    /\ \A o \in Handlers \ {h} : HoldsEvent(o) => job[o].event # job[h].event

(* A notification changes rows in the very step that first records it, so   *)
(* redelivery, before or after a crash, neither loses nor repeats a change. *)
AppliedWithItsEvent ==
  [][\A h \in Handlers :
       /\ pc[h] = "commit" /\ pc'[h] = "idle"
       /\ job[h].event # Nil
       /\ subs' # subs \/ events' # events
       => events' = events \cup {job[h].event} /\ events' # events]_vars

(* An event row is never removed and never written by a rolled back         *)
(* transaction: the table grows only at a commit, or when a notification    *)
(* without a subscription to change is recorded by itself.                  *)
RecordedOnlyByCommit ==
  [][/\ events \subseteq events'
     /\ \A e \in events' \ events :
          \A h \in Handlers :
            HoldsEvent(h) /\ job[h].event = e => pc[h] = "commit"]_vars

(* The account a row was created for never changes, neither by a webhook    *)
(* with another appAccountToken nor by another account's verify.            *)
OwnerNeverChanges ==
  [][\A r \in subs, s \in subs' : r.id = s.id => r.user = s.user]_vars

(* A row comes into being by an INSERT only: the UPDATE of a handler that   *)
(* read the row before its account was deleted brings nothing back.         *)
UpdateNeverRevives ==
  [][\A h \in Handlers :
       pc[h] = "commit" /\ pc'[h] = "idle" /\ write[h] # NoWrite
       /\ write[h].op = "update" =>
         {r.id : r \in subs'} \subseteq {r.id : r \in subs}]_vars

(* Every accepted request is answered: no set of requests waits for one      *)
(* another's locks in a circle, and none is overtaken forever.               *)
RequestsEnd == \A h \in Handlers : pc[h] # "idle" ~> pc[h] = "idle"

-----------------------------------------------------------------------------
(* The invariant behind the requirements above: what statements in flight    *)
(* have in common with the table and with one another.                       *)

Staged(h) == write[h] # NoWrite
Locked(h) == pc[h] = "commit" /\ Staged(h)

(* A statement exists exactly from the moment it is staged to the end of the *)
(* transaction, and a handler about to insert an event has one.              *)
PhasesMatch ==
  \A h \in Handlers : /\ Staged(h) => pc[h] \in {"write", "commit"}
                      /\ pc[h] = "write" => Staged(h)
                      /\ pc[h] = "record" => job[h].event # Nil

(* An id means one purchase, in the table and in every statement; an id that *)
(* is being created is nowhere else.                                         *)
IDsMeanOnePurchase ==
  \A h \in Handlers : Staged(h) =>
    /\ \A r \in subs : r.id = write[h].row.id =>
         r.purchase = write[h].row.purchase /\ write[h].op # "create"
    /\ \A o \in Handlers \ {h} : Staged(o) /\ write[o].row.id = write[h].row.id =>
         write[o].row.purchase = write[h].row.purchase /\ write[h].op # "create"

(* A statement that was sent still succeeds, whatever commits before it: its *)
(* locks keep every other statement off its row and its index entry.         *)
SentStatementsHold ==
  \A h \in Handlers : Locked(h) =>
    /\ Succeeds(write[h])
    /\ \A o \in Handlers \ {h} : Locked(o) =>
         /\ write[o].row.id # write[h].row.id
         /\ write[o].row.purchase # write[h].row.purchase

RepositoryInvariant ==
  /\ RepositoryTypeOK
  /\ PhasesMatch
  /\ EventHeldOnce
  /\ OneRowPerPurchase
  /\ IDsMeanOnePurchase
  /\ SentStatementsHold
-----------------------------------------------------------------------------
(* A revoked row stays revoked. *)
RevokedIsTerminal ==
  [][\A r \in subs, s \in subs' :
       r.id = s.id /\ r.status = "revoked" => s.status = "revoked"]_vars

(* ORD-01: a row never takes the state of an event strictly older than the  *)
(* last one applied to it.                                                  *)
LastEventAtNeverRegresses ==
  [][\A r \in subs, s \in subs' : r.id = s.id => s.lastEventAt >= r.lastEventAt]_vars

(* Access is only shortened by a revocation: no other event brings the end  *)
(* of the paid period forward.                                              *)
OnlyRevocationShortens ==
  [][\A r \in subs, s \in subs' :
       r.id = s.id /\ Before(s.expiresAt, r.expiresAt) => s.status = "revoked"]_vars

(* Successive versions of a row are related by the transition table.        *)
OnlyLegalTransitions ==
  [][\A r \in subs, s \in subs' :
       Changed(r, s) => CanTransition(r.status, s.status)]_vars

(* Whatever a client made of the row, a webhook leaves a revoked one alone.  *)
WebhookKeepsRevoked ==
  [][\A h \in Handlers :
       /\ pc[h] = "commit" /\ pc'[h] = "idle"
       /\ job[h].kind \in {"apple_webhook", "google_webhook"}
       => \A r \in subs, s \in subs' :
            r.id = s.id /\ r.status = "revoked" => s = r]_vars
=============================================================================
