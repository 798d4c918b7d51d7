------------------------------- MODULE Intake --------------------------------
(***************************************************************************)
(* Where requests enter the marketplace: POST /v1/gigs, which turns an     *)
(* address into a venue, the publishing of the draft it makes, which ranks *)
(* the vendors and tells them in waves (http/routes/gigs.ts), and          *)
(* POST /v1/enquiries, the one write that needs no account                 *)
(* (http/routes/enquiries.ts).  All of them are behind the default limit   *)
(* of buildRouter, enquiries behind one of their own as well.              *)
(*                                                                         *)
(* The requests are of one identity.  Every process has a cache of         *)
(* addresses; the bucket is in Redis, and shared.                          *)
(***************************************************************************)
EXTENDS RateLimiter, GeocodeCache, Matching, Enquiry, Functions

CONSTANTS
  Addresses,      \* venue addresses, normalised
  Vague,          \* the ones without a street number
  Census,         \* Census[a]: what the service answers for a before and after a correction
  CacheTtl,       \* ttlMs, in ticks
  CacheMax,       \* maxEntries
  Timeout,        \* timeoutMs, in ticks
  Forms,          \* bodies of POST /v1/gigs: [address, venue, known, dated, min, max]
  Lineups,        \* Lineups[l]: vendors with the specialty, candidates with home for miles
  GigBrief,       \* the rest of the brief
  Notices,        \* hours until the event
  Bodies,         \* bodies of enquiries, as Enquiry has them
  MaxRequests,    \* bound: requests that enter
  Nothing         \* no draft, no gig published

ASSUME IntakeAssumption ==
  /\ CacheTtl \in Nat \ {0} /\ CacheMax \in Nat \ {0} /\ Timeout \in Nat
  /\ \A f \in Forms : f.venue = Absent => f.address \in Addresses

VARIABLES
  job,            \* job[w]: what request w is doing
  entered,        \* requests so far
  cache,          \* cache[pod]: see GeocodeCache
  corrected,      \* corrected[a]: when the service corrected a, or -1
  gigs,           \* how many gigs there are
  draft,          \* the last of them while it is a draft: its number, its address and point,
                  \* and the version of the answer
  published,      \* the last gig announced: its number, venue, lineup, notice and waves
  announced,      \* history: the gigs announced, in order
  raced,          \* history: the gigs that two requests were publishing at the same time
  enquiries,      \* the rows of enquiries
  received,       \* the enquiry_received events
  thanked         \* history: the enquiries answered with 202 and their id

announcing == <<published, announced, raced>>
tables == <<gigs, draft, announcing, enquiries, received, thanked>>
intakeVars == <<job, entered, cache, corrected, tables>>
vars == <<limiterVars, intakeVars>>

Idle == [op |-> "none", at |-> "idle"]

Init ==
  /\ LimiterInit
  /\ job = [w \in Workers |-> Idle] /\ entered = 0
  /\ cache = [pod \in Pods |-> <<>>]
  /\ corrected = [a \in Addresses |-> -1]
  /\ gigs = 0 /\ draft = Nothing /\ published = Nothing
  /\ announced = <<>> /\ raced = {}
  /\ enquiries = {} /\ received = {} /\ thanked = {}

At(w, op, at) == job[w].op = op /\ job[w].at = at

\* The request is answered, with success or with an error.
End(w) ==
  /\ job' = [job EXCEPT ![w] = Idle]
  /\ call' = [call EXCEPT ![w] = NoCall]

limiterRest == <<times, bucket, cached, loaded, granted, restarts, faults, entered>>

-----------------------------------------------------------------------------
\* buildRouter: the default limit is asked before anything else of a request.

Enter(w, request) ==
  /\ job[w] = Idle /\ entered < MaxRequests
  /\ entered' = entered + 1
  /\ job' = [job EXCEPT ![w] = request]
  /\ Ask(w, "default")
  /\ UNCHANGED <<cache, corrected, tables>>

Admitted(w, policy) == call[w].policy = policy /\ call[w].at \in {"granted", "unmetered"}

\* 429
Refused(w) ==
  /\ call[w].at = "refused"
  /\ End(w)
  /\ UNCHANGED <<limiterRest, cache, corrected, tables>>

-----------------------------------------------------------------------------
\* POST /v1/gigs.  A form has the event's place as an address, or as coordinates; whether
\* the event type and the specialty are known, and the date has its form; and the budget.

StartDraft(w, form) == Enter(w, [op |-> "draft", at |-> "limit", form |-> form])

\* parseBrief as far as resolveVenue: a code that is unknown is refused.
RefuseBrief(w) ==
  /\ At(w, "draft", "limit") /\ Admitted(w, "default")
  /\ ~job[w].form.known
  /\ End(w)
  /\ UNCHANGED <<limiterRest, cache, corrected, tables>>

\* A venue is found: the point, and the version of the answer it is from.
Resolve(w, place, version) ==
  job' = [job EXCEPT ![w] = [op |-> "draft", at |-> "insert", form |-> job[w].form,
                             place |-> place, version |-> version, resolved |-> elapsed]]

\* resolveVenue: coordinates that the client sends are taken as they are.
TakeCoordinates(w) ==
  /\ At(w, "draft", "limit") /\ Admitted(w, "default")
  /\ job[w].form.known /\ job[w].form.venue # Absent
  /\ Resolve(w, job[w].form.venue, 0)
  /\ UNCHANGED <<limiterVars, entered, cache, corrected, tables>>

\* CachedGeocoder.geocode up to its await: an entry that has expired is dropped, and an
\* address that is too vague is not asked about.
Lookup(w) ==
  LET a == job[w].form.address
      pod == PodOf[w]
  IN /\ At(w, "draft", "limit") /\ Admitted(w, "default")
     /\ job[w].form.known /\ job[w].form.venue = Absent
     /\ IF Cached(cache[pod], a, elapsed)
          THEN /\ cache' = [cache EXCEPT ![pod] = Touched(@, a)]
               /\ LET e == EntryOf(cache[pod], a) IN Resolve(w, e.point, e.version)
               /\ call' = call
          ELSE /\ cache' = [cache EXCEPT ![pod] = Without(@, a)]
               /\ IF a \in Vague
                    THEN End(w)
                    ELSE /\ job' = [job EXCEPT ![w] = [op |-> "draft", at |-> "fetch",
                                                       form |-> job[w].form,
                                                       asked |-> elapsed]]
                         /\ call' = call
     /\ UNCHANGED <<limiterRest, corrected, tables>>

\* The service reads its data; the reply is on its way.
CensusReads(w) ==
  /\ At(w, "draft", "fetch")
  /\ job' = [job EXCEPT ![w] = [op |-> "draft", at |-> "reply", form |-> job[w].form,
                                version |-> IF corrected[job[w].form.address] = -1
                                              THEN 1 ELSE 2,
                                asked |-> job[w].asked]]
  /\ UNCHANGED <<limiterVars, entered, cache, corrected, tables>>

\* The reply is there in time: a point is stored, a failure is not.
Fill(w) ==
  LET a == job[w].form.address
      version == job[w].version
      result == ParseCensusResponse(Census[a][version])
  IN /\ At(w, "draft", "reply")
     /\ elapsed <= job[w].asked + Timeout
     /\ IF result.ok
          THEN /\ cache' = [cache EXCEPT
                              ![PodOf[w]] = Stored(@, [point |-> result.point,
                                                       version |-> version, key |-> a,
                                                       expiresAt |-> elapsed + CacheTtl],
                                                   CacheMax)]
               /\ Resolve(w, result.point, version)
               /\ call' = call
          ELSE cache' = cache /\ End(w)
     /\ UNCHANGED <<limiterRest, corrected, tables>>

\* The timeout aborts the fetch, or the service is not there: 503, nothing is remembered.
Unavailable(w) ==
  /\ job[w].op = "draft" /\ job[w].at \in {"fetch", "reply"}
  /\ End(w)
  /\ UNCHANGED <<limiterRest, cache, corrected, tables>>

\* isBriefComplete, of a brief whose codes are known and whose venue is found.
IsBriefComplete(form) == form.dated /\ form.max > 0 /\ form.max >= form.min

\* The rest of the handler: a venue outside the footprint and a brief that is incomplete are
\* refused, else gigs.create.
CreateDraft(w) ==
  /\ At(w, "draft", "insert")
  /\ IF WithinPilotFootprint(job[w].place) /\ IsBriefComplete(job[w].form)
       THEN /\ gigs' = gigs + 1
            /\ draft' = [point |-> job[w].place, address |-> job[w].form.address,
                         version |-> job[w].version, resolved |-> job[w].resolved,
                         gig |-> gigs + 1]
       ELSE UNCHANGED <<gigs, draft>>
  /\ End(w)
  /\ UNCHANGED <<limiterRest, cache, corrected, announcing, enquiries, received, thanked>>

-----------------------------------------------------------------------------
\* POST /v1/gigs/:gigId/publish, of the last draft; what it does to the gig is GigRecords'.

StartPublish(w) == draft # Nothing /\ Enter(w, [op |-> "publish", at |-> "limit"])

Crew(lineup, point) ==
  {[c EXCEPT !.miles = RoadMiles(c.home, point)] : c \in Lineups[lineup]}

\* What is planned for a venue, a lineup and a notice.
Points ==
  {m.point : m \in UNION {Range(Census[a][1]) \cup Range(Census[a][2]) : a \in Addresses}}
    \cup ({form.venue : form \in Forms} \ {Absent})
Plan ==
  [p \in Points |-> [l \in DOMAIN Lineups |-> [notice \in Notices |->
     PlanNotificationWaves(RankCandidates(Crew(l, p), GigBrief),
                           notice <= Urgent, TargetApplications)]]]

Publishing(w) == job[w].op = "publish" /\ job[w].at = "unit"

\* loadGig and transition(): only a draft may be published, and that is all that is asked.
ReadDraft(w) ==
  /\ At(w, "publish", "limit") /\ Admitted(w, "default")
  /\ IF draft = Nothing
       THEN End(w) /\ raced' = raced
       ELSE /\ job' = [job EXCEPT ![w] = [op |-> "publish", at |-> "unit",
                                          place |-> draft.point, gig |-> draft.gig]]
            /\ call' = call
            /\ raced' = IF \E u \in Workers : Publishing(u) /\ job[u].gig = draft.gig
                          THEN raced \cup {draft.gig}
                          ELSE raced
  /\ UNCHANGED <<limiterRest, cache, corrected, gigs, draft, published, announced, enquiries,
                 received, thanked>>

\* One unit of work: the gig as it was read, which is a draft no more, the vendors with
\* the specialty as they are now, and the waves.  Nothing asks whether the gig has been
\* published in the meantime.
Publish(w) ==
  /\ Publishing(w)
  /\ \E lineup \in DOMAIN Lineups, notice \in Notices :
       published' = [point |-> job[w].place, gig |-> job[w].gig, lineup |-> lineup,
                     notice |-> notice, waves |-> Plan[job[w].place][lineup][notice]]
  /\ announced' = Append(announced, job[w].gig)
  /\ draft' = IF draft # Nothing /\ draft.gig = job[w].gig THEN Nothing ELSE draft
  /\ End(w)
  /\ UNCHANGED <<limiterRest, cache, corrected, gigs, raced, enquiries, received, thanked>>

-----------------------------------------------------------------------------
\* POST /v1/enquiries

StartEnquiry(w, body) == Enter(w, [op |-> "enquiry", at |-> "limit", body |-> body])

\* The route's own limit.
AskEnquiry(w) ==
  /\ At(w, "enquiry", "limit") /\ Admitted(w, "default")
  /\ call' = [call EXCEPT ![w] = [policy |-> "enquiry", at |-> "asked"]]
  /\ job' = [job EXCEPT ![w] = [op |-> "enquiry", at |-> "own", body |-> job[w].body]]
  /\ UNCHANGED <<limiterRest, cache, corrected, tables>>

\* The honeypot and the validation, which end the request, and the insert, which the
\* table may refuse.
CreateEnquiry(w) ==
  LET id == Cardinality(enquiries) + 1
  IN /\ At(w, "enquiry", "own") /\ Admitted(w, "enquiry")
     /\ IF Accepts(job[w].body) /\ TableTakes(NormaliseEnquiry(job[w].body))
          THEN /\ enquiries' = enquiries \cup {id}
               /\ job' = [job EXCEPT ![w] = [op |-> "enquiry", at |-> "tell", row |-> id]]
               /\ call' = call
          ELSE enquiries' = enquiries /\ End(w)
     /\ UNCHANGED <<limiterRest, cache, corrected, gigs, draft, announcing, received, thanked>>

TellEnquiryMut(w) ==    \* mutant: the answer does not wait for the event
  /\ At(w, "enquiry", "tell")
  /\ thanked' = thanked \cup {job[w].row}
  /\ job' = [job EXCEPT ![w].at = "answer"]
  /\ UNCHANGED <<limiterVars, entered, cache, corrected, gigs, draft, announcing,
                 enquiries, received>>

\* bus.publish, a transaction of its own.
TellEnquiry(w) ==
  /\ At(w, "enquiry", "tell")
  /\ received' = received \cup {job[w].row}
  /\ job' = [job EXCEPT ![w].at = "answer"]
  /\ UNCHANGED <<limiterVars, entered, cache, corrected, gigs, draft, announcing,
                 enquiries, thanked>>

AnswerEnquiry(w) ==
  /\ At(w, "enquiry", "answer")
  /\ thanked' = thanked \cup {job[w].row}
  /\ End(w)
  /\ UNCHANGED <<limiterRest, cache, corrected, gigs, draft, announcing,
                 enquiries, received>>

-----------------------------------------------------------------------------

\* The service corrects an address.
Correct(a) ==
  /\ corrected[a] = -1 /\ Census[a][1] # Census[a][2]
  /\ corrected' = [corrected EXCEPT ![a] = elapsed]
  /\ UNCHANGED <<limiterVars, job, entered, cache, tables>>

\* A process dies: its requests, its cache and what it knows of the script are gone.
CrashPod(pod) ==
  /\ \E w \in Workers : PodOf[w] = pod /\ job[w] # Idle
  /\ Fault
  /\ job' = [w \in Workers |-> IF PodOf[w] = pod THEN Idle ELSE job[w]]
  /\ call' = [w \in Workers |-> IF PodOf[w] = pod THEN NoCall ELSE call[w]]
  /\ cache' = [cache EXCEPT ![pod] = <<>>]
  /\ loaded' = [loaded EXCEPT ![pod] = FALSE]
  /\ UNCHANGED <<times, bucket, cached, granted, restarts, entered, corrected, tables>>

Next ==
  \/ LimiterStep /\ UNCHANGED intakeVars
  \/ \E w \in Workers :
       \/ \E form \in Forms : StartDraft(w, form)
       \/ \E body \in Bodies : StartEnquiry(w, body)
       \/ StartPublish(w)
       \/ Refused(w)
       \/ RefuseBrief(w) \/ TakeCoordinates(w)
       \/ Lookup(w) \/ CensusReads(w) \/ Fill(w) \/ Unavailable(w) \/ CreateDraft(w)
       \/ ReadDraft(w) \/ Publish(w)
       \/ AskEnquiry(w) \/ CreateEnquiry(w) \/ TellEnquiry(w) \/ AnswerEnquiry(w)
  \/ \E a \in Addresses : Correct(a)
  \/ \E pod \in Pods : CrashPod(pod)

Spec == Init /\ [][Next]_vars

-----------------------------------------------------------------------------
\* Properties

\* "The bound exists so a long-lived pod eventually picks up corrections upstream"
\* (cached.ts:45-46): a venue is never taken from an answer that was corrected longer ago
\* than the time to live and one fetch, however lookups of the address overlap.
DraftIsRecent ==
  draft # Nothing /\ draft.version = 1 /\ corrected[draft.address] # -1
    => draft.resolved < corrected[draft.address] + CacheTtl + Timeout

Scores == [p \in Points |-> [l \in DOMAIN Lineups |-> ScoresOf(Crew(l, p), GigBrief)]]

\* Each time a gig is announced, the vendors are told as the match engine promises: all
\* that may work it at its venue, up to the short list, once, and none of them later than a
\* weaker match (see WavesFollow).  A gig is announced a second time only by a request that
\* read the draft while another was publishing it (gigs.ts:152 is asked before :159).
WavesFollowRank ==
  [][announced' # announced =>
       LET p == published'
       IN /\ WavesFollow(p.waves, Scores[p.point][p.lineup], p.notice <= Urgent)
          /\ p.gig \in Range(announced) => p.gig \in raced]_vars

\* Whoever is thanked for an enquiry has one that is stored and announced, whichever
\* process dies in between; and none is announced that is not stored.
EnquiryIsTold == thanked \subseteq received /\ received \subseteq enquiries
=============================================================================
