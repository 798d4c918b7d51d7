------------------------------ MODULE Profiles ------------------------------
(***************************************************************************)
(* Crew profiles in production: the routes of http/routes/discovery.ts and *)
(* the onboarding route of http/routes/payments.ts, over the crew_profiles *)
(* row and the link tables of PgProfiles (infra/postgres/store.ts).        *)
(*                                                                         *)
(* A save is one transaction: it takes the row's lock with its first       *)
(* statement and is seen at its commit, so it is one step.  Everything     *)
(* else a handler awaits is a step of its own.                             *)
(*                                                                         *)
(* The text of a profile is the number of the save it came from, and       *)
(* whether all the fields a public page needs are filled in; of the        *)
(* specialties, whether they have the one that is searched for.            *)
(***************************************************************************)
EXTENDS Matching, Functions

CONSTANTS
  Vendors,        \* users.id, ordered
  NoRow,          \* no crew_profiles row
  Slugs, NoSlug,  \* public addresses
  NoAccount,      \* stripe_account_id is null; the account of vendor v is v
  Bodies,         \* bodies of POST /v1/profiles/crew: [slug, full, specialties, tags,
                  \* rate, eventTypes]
  Specialties, Tags,    \* CREW_SPECIALTIES and CULTURAL_TAGS
  Fit,            \* what the rest of a vendor's record is worth to the match engine
  Brief,          \* the brief that is searched for
  Workers,        \* requests that can be in flight at the same time
  MaxRequests     \* bound: requests that write

\* What a stored row, a list of event types and a loaded profile look like.
ProfileRows ==
  [slug : Slugs \cup {NoSlug}, full : BOOLEAN, text : Nat, account : Vendors \cup {NoAccount},
   published : BOOLEAN]
Worked == UNION {[types -> Nat] : types \in SUBSET UNION EventGroups}
LoadedProfiles ==
  [slug : Slugs \cup {NoSlug}, full : BOOLEAN, text : Nat, account : Vendors \cup {NoAccount},
   published : BOOLEAN, offers : BOOLEAN, events : Worked \cup {NotSaid}]

ASSUME ProfilesAssumption ==
  /\ Vendors \subseteq Nat /\ NoAccount \notin Vendors /\ MaxRequests \in Nat
  /\ NoRow \notin ProfileRows /\ NoRow \notin LoadedProfiles
  /\ \A body \in Bodies : body.slug \in Slugs \cup {NoSlug} /\ body.full \in BOOLEAN
  /\ \A v \in Vendors :
       /\ Fit[v].miles \in Nat /\ Fit[v].rate \in Nat
       /\ {Fit[v].proximity, Fit[v].reputation, Fit[v].responsiveness} \subseteq Nat
  /\ IsFiniteSet(Brief.tags) /\ IsFiniteSet(Brief.languages)
  /\ Brief.budgetMin \in Nat /\ Brief.budgetMax \in Nat

VARIABLES
  row,            \* crew_profiles
  links,          \* crew_specialty_links and crew_event_links
  ready,          \* the vendors whose users row is id_verified with mfa_enabled
  req,            \* what each worker is doing
  served,         \* writes begun so far; a save's text has the number of its request
  wasPublic,      \* history: the texts that ever stood on a public page
  decided,        \* history: the vendors whose last publish route call published
  shown,          \* history: <<vendor, text>> of the last public page answered
  shortlist       \* the last search result

tables == <<row, links>>
history == <<wasPublic, decided, shown>>
vars == <<row, links, ready, req, served, history, shortlist>>

None == <<>>        \* no event links: the empty function
NoLinks == [offers |-> FALSE, events |-> None]

\* A request: the vendor it is about, the body, the row as read, and the vendors a search
\* has yet to load (pool), has loaded, whole or only the row of (copies), and has made
\* candidates (found).
Idle == [op |-> "none", at |-> "idle", who |-> 0, card |-> NoLinks, copy |-> NoRow,
         pool |-> {}, copies |-> {}, found |-> {}]

Begin(w, request, writes) ==
  /\ req[w] = Idle /\ served + writes <= MaxRequests
  /\ served' = served + writes
  /\ req' = [req EXCEPT ![w] = request]
  /\ UNCHANGED <<tables, ready, history, shortlist>>

At(w, op, at) == req[w].op = op /\ req[w].at = at
GoTo(w, at) == req' = [req EXCEPT ![w].at = at]
End(w) == req' = [req EXCEPT ![w] = Idle]

Init ==
  /\ row = [v \in Vendors |-> NoRow]
  /\ links = [v \in Vendors |-> NoLinks]
  /\ ready = {}
  /\ req = [w \in Workers |-> Idle]
  /\ served = 0
  /\ wasPublic = {} /\ decided = {} /\ shown = <<>> /\ shortlist = <<>>

-----------------------------------------------------------------------------
\* The constraints of crew_profiles, and the statements that meet them

SlugTaken(v, slug) ==
  slug # NoSlug /\ \E u \in Vendors \ {v} : row[u] # NoRow /\ row[u].slug = slug

\* crew_profiles_publishable
Publishable(r) == r.published => r.slug # NoSlug /\ r.full

\* loadCrew: a profile without event links reads as one that has not been filled in.
Events(v) == IF links[v].events = None THEN NotSaid ELSE links[v].events

Loaded(v) ==
  IF row[v] = NoRow THEN NoRow
  ELSE [slug |-> row[v].slug, full |-> row[v].full, text |-> row[v].text,
        account |-> row[v].account, published |-> row[v].published,
        offers |-> links[v].offers, events |-> Events(v)]

\* The row a save leaves.  The SET list has the vendor's own columns only: the account and
\* published_at stay as they are stored.
SavedRowAll(v, card, text, copy) ==    \* mutant: the account is in the SET list
  [slug |-> card.slug, full |-> card.full, text |-> text, account |-> NoAccount,
   published |-> row[v] # NoRow /\ row[v].published]

SavedRowCarried(v, card, text, copy) ==    \* mutant: published_at is in the SET list
  [slug |-> card.slug, full |-> card.full, text |-> text,
   account |-> IF row[v] = NoRow THEN NoAccount ELSE row[v].account,
   published |-> copy # NoRow /\ copy.published]

SavedRow(v, card, text, copy) ==
  [slug |-> card.slug, full |-> card.full, text |-> text,
   account |-> IF row[v] = NoRow THEN NoAccount ELSE row[v].account,
   published |-> row[v] # NoRow /\ row[v].published]

\* The link tables are replaced, the event links only when the body mentions them.
SavedLinks(v, card) ==
  [offers |-> card.offers,
   events |-> IF card.events = NotSaid THEN links[v].events ELSE card.events]

Publicly(r, v) == IF r.published THEN wasPublic \cup {<<v, r.text>>} ELSE wasPublic

-----------------------------------------------------------------------------
\* POST /v1/profiles/crew

\* parseEventExperience: a list of known event types, none of them twice, each with the
\* count claimed for it, if any; anything else is refused.
EventTypesAccepted(list) ==
  /\ IsInjective([i \in DOMAIN list |-> list[i].eventType])
  /\ \A i \in DOMAIN list :
       /\ list[i].eventType \in UNION EventGroups
       /\ list[i].claimed \in Nat \cup {NotSaid}

Claims(list) ==
  [e \in {list[i].eventType : i \in DOMAIN list} |->
     LET entry == list[CHOOSE i \in DOMAIN list : list[i].eventType = e]
     IN IF entry.claimed = NotSaid THEN 0 ELSE entry.claimed]

\* validateCrewProfile
CrewProfileAccepted(body) ==
  /\ body.specialties # {} /\ body.specialties \subseteq Specialties
  /\ body.tags \subseteq Tags
  /\ body.rate > 0

\* The bodies that get as far as the store, which the others leave alone.
AcceptedBodies ==
  {body \in Bodies : /\ body.eventTypes # NotSaid => EventTypesAccepted(body.eventTypes)
                     /\ CrewProfileAccepted(body)}

Cards ==
  {[slug |-> body.slug, full |-> body.full, offers |-> Brief.specialty \in body.specialties,
    events |-> IF body.eventTypes = NotSaid THEN NotSaid ELSE Claims(body.eventTypes)] :
     body \in AcceptedBodies}

StartSave(w, v, card) ==
  Begin(w, [Idle EXCEPT !.op = "save", !.at = "read", !.who = v,
                        !.card = [slug |-> card.slug, full |-> card.full,
                                  offers |-> card.offers, events |-> card.events,
                                  text |-> served + 1]], 1)

\* existing: the stored profile, for its publishedAt.
SaveRead(w) ==
  /\ At(w, "save", "read")
  /\ req' = [req EXCEPT ![w].copy = row[req[w].who], ![w].at = "put"]
  /\ UNCHANGED <<tables, ready, served, history, shortlist>>

\* putCrew: refused with 409 for an address that is taken, with 500 for a public page that
\* would lose a field it needs.
PutCrew(w) ==
  /\ At(w, "save", "put")
  /\ LET v == req[w].who
         card == req[w].card
         new == SavedRow(v, card, card.text, req[w].copy)
     IN IF SlugTaken(v, card.slug) \/ ~Publishable(new)
          THEN UNCHANGED <<tables, wasPublic>>
          ELSE /\ row' = [row EXCEPT ![v] = new]
               /\ links' = [links EXCEPT ![v] = SavedLinks(v, card)]
               /\ wasPublic' = Publicly(new, v)
  /\ End(w)
  /\ UNCHANGED <<ready, served, decided, shown, shortlist>>

-----------------------------------------------------------------------------
\* POST /v1/profiles/crew/publish, to publish or to take the page down

StartPublish(w, v, wanted) ==
  Begin(w, [Idle EXCEPT !.op = IF wanted THEN "publish" ELSE "unpublish", !.at = "read",
                        !.who = v], 1)

\* publishability: an address, a name, a headline and a text about the vendor.
Publishability(r) == r.slug # NoSlug /\ r.full

PublishRead(w) ==
  /\ req[w].op \in {"publish", "unpublish"} /\ req[w].at = "read"
  /\ LET r == row[req[w].who]
     IN IF r = NoRow \/ (req[w].op = "publish" /\ ~Publishability(r))
          THEN End(w)
          ELSE GoTo(w, "set")
  /\ UNCHANGED <<tables, ready, served, history, shortlist>>

\* setPublished: one UPDATE, which the CHECK refuses if the profile has lost a field since.
SetPublished(w) ==
  /\ req[w].op \in {"publish", "unpublish"} /\ req[w].at = "set"
  /\ LET v == req[w].who
         new == [row[v] EXCEPT !.published = (req[w].op = "publish")]
     IN IF Publishable(new)
          THEN /\ row' = [row EXCEPT ![v] = new]
               /\ decided' = IF new.published THEN decided \cup {v} ELSE decided \ {v}
               /\ wasPublic' = Publicly(new, v)
          ELSE UNCHANGED <<row, decided, wasPublic>>
  /\ End(w)
  /\ UNCHANGED <<links, ready, served, shown, shortlist>>

-----------------------------------------------------------------------------
\* GET /v1/vendors/:slug, for anybody

StartVisit(w, slug) ==
  Begin(w, [Idle EXCEPT !.op = "visit", !.at = "find",
                        !.card = [slug |-> slug, full |-> FALSE, offers |-> FALSE,
                                  events |-> None, text |-> 0]], 0)

\* publishedBySlug's first statement.
VisitFind(w) ==
  /\ At(w, "visit", "find")
  /\ LET found == {v \in Vendors : /\ row[v] # NoRow /\ row[v].published
                                   /\ row[v].slug = req[w].card.slug}
     IN IF found = {} THEN End(w)
        ELSE req' = [req EXCEPT ![w].who = CHOOSE v \in found : TRUE, ![w].at = "load"]
  /\ UNCHANGED <<tables, ready, served, history, shortlist>>

\* toPublicVendorProfile answers nothing for a profile that is not published and complete.
IsPublicMut(r) == Publishability(r)    \* mutant: the lookup is trusted
IsPublic(r) == r.published /\ Publishability(r)

\* loadCrew of what was found, its user, and the answer.
VisitAnswer(w) ==
  /\ At(w, "visit", "load")
  /\ LET v == req[w].who
     IN shown' = IF IsPublic(row[v]) THEN <<v, row[v].text>> ELSE shown
  /\ End(w)
  /\ UNCHANGED <<tables, ready, served, wasPublic, decided, shortlist>>

-----------------------------------------------------------------------------
\* POST /v1/connect/onboard

\* createConnectAccount is keyed on the user: a vendor has one account however often it is asked.
StripeAccount(v) == v

StartOnboard(w, v) ==
  Begin(w, [Idle EXCEPT !.op = "onboard", !.at = "link", !.who = v], 1)

\* linkStripeAccount updates the row there is, if there is one.
LinkStripeAccount(w) ==
  /\ At(w, "onboard", "link")
  /\ LET v == req[w].who
     IN row' = IF row[v] = NoRow THEN row ELSE [row EXCEPT ![v].account = StripeAccount(v)]
  /\ End(w)
  /\ UNCHANGED <<links, ready, served, history, shortlist>>

\* The vendor's account is verified and has MFA on: Sessions.
BecomeReady(v) ==
  /\ v \notin ready
  /\ ready' = ready \cup {v}
  /\ UNCHANGED <<tables, req, served, history, shortlist>>

-----------------------------------------------------------------------------
\* POST /v1/search/crew, and the same reads of the gig publish route

StartSearch(w) == Begin(w, [Idle EXCEPT !.op = "search", !.at = "pool"], 0)

\* crewBySpecialty's first statement.
SearchPool(w) ==
  /\ At(w, "search", "pool")
  /\ req' = [req EXCEPT ![w].pool = {v \in Vendors : links[v].offers}, ![w].at = "load"]
  /\ UNCHANGED <<tables, ready, served, history, shortlist>>

\* loadCrew of one of the pool reads its row first, and the links of it by statements of
\* their own; a save may commit in between.
SearchLoad(w, v) ==
  /\ At(w, "search", "load") /\ v \in req[w].pool
  /\ req' = [req EXCEPT ![w].pool = @ \ {v},
                        ![w].copies = @ \cup {[who |-> v, account |-> row[v].account,
                                               offers |-> FALSE, events |-> None,
                                               whole |-> FALSE]}]
  /\ UNCHANGED <<tables, ready, served, history, shortlist>>

SearchLinks(w, v) ==
  /\ At(w, "search", "load")
  /\ \E c \in req[w].copies :
       /\ c.who = v /\ ~c.whole
       /\ req' = [req EXCEPT ![w].copies =
                    (@ \ {c}) \cup {[c EXCEPT !.offers = links[v].offers,
                                            !.events = Events(v), !.whole = TRUE]}]
  /\ UNCHANGED <<tables, ready, served, history, shortlist>>

\* canReceivePayouts of the user as it is now and of the profile as it was loaded.
CanReceivePayouts(v, account) == v \in ready /\ account # NoAccount

\* toCandidate, of whoever has passed canReceivePayouts or has not.
ToCandidate(v, profile, payable) ==
  [id |-> v, specialties |-> IF profile.offers THEN {Brief.specialty} ELSE {},
   events |-> profile.events, payoutReady |-> payable,
   unavailable |-> Fit[v].unavailable, miles |-> Fit[v].miles, policy |-> Fit[v].policy,
   rate |-> Fit[v].rate, tags |-> Fit[v].tags, languages |-> Fit[v].languages,
   proximity |-> Fit[v].proximity, reputation |-> Fit[v].reputation,
   responsiveness |-> Fit[v].responsiveness]

CandidateMut(v, profile) == ToCandidate(v, profile, NotSaid)    \* mutant: payoutReady is left out
Candidate(v, profile) == ToCandidate(v, profile, CanReceivePayouts(v, profile.account))

\* The user row of one loaded profile is read and the two are joined; crewBySpecialty
\* returns, and the joins begin, when all of the pool is loaded.
SearchJoin(w, v) ==
  /\ At(w, "search", "load") /\ req[w].pool = {} /\ \A c \in req[w].copies : c.whole
  /\ \E c \in req[w].copies :
       /\ c.who = v
       /\ req' = [req EXCEPT ![w].copies = @ \ {c}, ![w].found = @ \cup {Candidate(v, c)}]
  /\ UNCHANGED <<tables, ready, served, history, shortlist>>

SearchRank(w) ==
  /\ At(w, "search", "load") /\ req[w].pool = {} /\ req[w].copies = {}
  /\ shortlist' = RankCandidates(req[w].found, Brief)
  /\ End(w)
  /\ UNCHANGED <<tables, ready, served, history>>

-----------------------------------------------------------------------------

Start(w) ==
  \/ StartSearch(w)
  \/ \E slug \in Slugs : StartVisit(w, slug)
  \/ \E v \in Vendors :
       \/ \E card \in Cards : StartSave(w, v, card)
       \/ \E wanted \in BOOLEAN : StartPublish(w, v, wanted)
       \/ StartOnboard(w, v)

Continue(w) ==
  \/ SaveRead(w) \/ PutCrew(w)
  \/ PublishRead(w) \/ SetPublished(w)
  \/ VisitFind(w) \/ VisitAnswer(w)
  \/ LinkStripeAccount(w)
  \/ SearchPool(w) \/ SearchRank(w)
  \/ \E v \in Vendors : SearchLoad(w, v) \/ SearchLinks(w, v) \/ SearchJoin(w, v)

Next ==
  \/ \E w \in Workers : Start(w) \/ Continue(w)
  \/ \E v \in Vendors : BecomeReady(v)

Spec == Init /\ [][Next]_vars

-----------------------------------------------------------------------------
\* Properties

\* An unpublished slug is a 404 (discovery.ts:303-305): the text a visitor is answered stood
\* on a public page at some moment, even if the vendor takes the page down and rewrites it
\* between the two statements of the lookup.
VisitorSeesPublic == shown # <<>> => shown \in wasPublic

\* Publishing is its own route (store.ts:64-71): a page is public exactly if the last call
\* of that route for the vendor published it, whatever saves overlapped it.
PublishedAsDecided ==
  \A v \in Vendors : row[v] # NoRow => (row[v].published <=> v \in decided)

\* Search and booking agree (discovery.ts:403-409): a vendor on a shortlist is one the
\* escrow route will not refuse as not payable, now or later.
ShortlistIsPayable ==
  \A i \in DOMAIN shortlist :
    LET v == shortlist[i].id IN row[v] # NoRow /\ CanReceivePayouts(v, row[v].account)

\* The production store keeps the promise of the one that development and the tests run on.
Memory ==
  INSTANCE ProfileStore WITH
    crewMap <- [v \in Vendors |-> Loaded(v)],
    NoProfile <- NoRow,
    Incoming <- {[slug |-> c.slug, full |-> c.full, text |-> t, account |-> NoAccount,
                  published |-> p, offers |-> c.offers, events |-> c.events] :
                   c \in Cards, t \in 1 .. MaxRequests, p \in BOOLEAN}

StoresAgree == Memory!Spec
=============================================================================
