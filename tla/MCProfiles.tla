----------------------------- MODULE MCProfiles -----------------------------
(***************************************************************************)
(* Profiles for TLC: two vendors who differ in nothing but what they do,   *)
(* one address, and a brief for a sangeet, which a mehndi is a sibling of. *)
(***************************************************************************)
EXTENDS Profiles, TLC

MCVendors == {1, 2}
MCEventGroups == {{"sangeet", "mehndi"}, {"reception"}}

MCBrief == [specialty |-> "mua", eventType |-> "sangeet", eventDate |-> 1,
            tags |-> {"telugu"}, languages |-> {"hindi", "telugu"},
            budgetMin |-> 100, budgetMax |-> 200]

MCFit == [v \in MCVendors |->
            [unavailable |-> {}, miles |-> 200, policy |-> DefaultTravelPolicy, rate |-> 150,
             tags |-> {"tamil"}, languages |-> {"hindi"},
             proximity |-> 9000, reputation |-> 8000, responsiveness |-> 5000]]

\* Bodies of a save: complete, with an address; without one and for another specialty, but
\* with a list of events; and five that are refused, each for a reason of its own.
Listed(e, n) == [eventType |-> e, claimed |-> n]
Complete == [slug |-> "anjali", full |-> TRUE, specialties |-> {"mua"}, tags |-> {"tamil"},
             rate |-> 150, eventTypes |-> NotSaid]
MCBodies ==
  {Complete,
   [Complete EXCEPT !.slug = NoSlug, !.specialties = {"dj"},
                    !.eventTypes = <<Listed("sangeet", 4)>>],
   [Complete EXCEPT !.specialties = {}],
   [Complete EXCEPT !.tags = {"klingon"}],
   [Complete EXCEPT !.rate = 0],
   [Complete EXCEPT !.eventTypes = <<Listed("bris", 1)>>],
   [Complete EXCEPT !.eventTypes = <<Listed("mehndi", 1), Listed("mehndi", NotSaid)>>]}

WorkerSymmetry == Permutations(Workers)
=============================================================================
