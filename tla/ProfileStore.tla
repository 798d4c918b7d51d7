---------------------------- MODULE ProfileStore ----------------------------
(***************************************************************************)
(* What the profile repository promises its callers about crew profiles,   *)
(* as the in-memory store keeps that promise (MemoryProfiles in            *)
(* infra/store.ts, the store of development and of the tests): every       *)
(* operation is one step on one map.                                       *)
(*                                                                         *)
(* Profiles, the store of production, implements this module.              *)
(***************************************************************************)
CONSTANTS
  Vendors,
  NoProfile,      \* the map has no entry for this vendor
  NotSaid,        \* eventTypes is undefined
  NoSlug, NoAccount,
  Incoming        \* what a save can carry: see Profiles

VARIABLE crewMap

Init == crewMap = [v \in Vendors |-> NoProfile]

\* assertSlugFree: no other vendor holds the address.
SlugFree(v, slug) ==
  slug # NoSlug =>
    \A u \in Vendors \ {v} : crewMap[u] # NoProfile => crewMap[u].slug # slug

\* preserve: payout state is the platform's to write, and a save that does not mention the
\* event types leaves the stored ones alone.  An explicit empty list clears them.
Preserve(stored, incoming) ==
  IF stored = NoProfile THEN incoming
  ELSE [incoming EXCEPT !.account = stored.account,
                        !.events = IF incoming.events = NotSaid THEN stored.events ELSE @]

PutCrew(v, incoming) ==
  /\ SlugFree(v, incoming.slug)
  /\ crewMap' = [crewMap EXCEPT ![v] = Preserve(@, incoming)]

LinkStripeAccount(v, account) ==
  /\ crewMap[v] # NoProfile
  /\ crewMap' = [crewMap EXCEPT ![v].account = account]

SetPublished(v, published) ==
  /\ crewMap[v] # NoProfile
  /\ crewMap' = [crewMap EXCEPT ![v].published = published]

Next ==
  \E v \in Vendors :
    \/ \E incoming \in Incoming : PutCrew(v, incoming)
    \/ LinkStripeAccount(v, v)
    \/ \E published \in BOOLEAN : SetPublished(v, published)

Spec == Init /\ [][Next]_crewMap
=============================================================================
