# desi-nexus: a TLA+ verification project

desi-nexus is a marketplace for event vendors. A *host* publishes a *gig*, a *vendor* applies,
the host accepts an offer, pays a deposit and later a balance into an escrow vault, the vendor
delivers, and the vault pays the vendor, gives money back, or splits it after a dispute. The API
(`services/api`) is a stateless Node service run as several pods over one Postgres database and
one Redis; Stripe holds the money and reports payments by webhook; an outbox feeds a message
bus.

This directory models the whole of that service that has state worth a model: the escrow ledger,
the lifecycle of a gig and the routes that move both, accounts and sessions, vendor profiles and
the match engine, the way a request comes in (rate limit, geocoding, enquiries), the outbox, and
the pooled connections and row policies under all of it. Every `await` of a handler is a place
where another request may run or the pod may die. Paths below are relative to `src/`; `D/`
stands for `services/api/src/domain/`, `R/` for `services/api/src/http/routes/`, `I/` for
`services/api/src/infra/`.

Contents: [1 System](#1-the-system) · [2 Modules](#2-the-modules) · [3 Runs](#3-the-runs) · [4
Disagreements](#4-where-code-and-documents-disagree) · [5 Proofs](#5-what-is-proved) · [6
Limits](#6-what-is-left-out-and-why) · [7 Plan](#7-plan)

## 1 The system

| Component | State it keeps | Operations that change it | What makes it correct |
| --- | --- | --- | --- |
| Escrow domain, `D/escrow.ts` | an escrow: state, Stripe ids, append-only ledger (a value; functions return a new one) | `createEscrow`, `recordDeposit`, `recordBalance`, `release`, `refund`, `openDispute`, `resolveDispute` | the ledger balances; no Stripe object is booked twice; a release takes the whole price and nothing else; closed is closed |
| Gig lifecycle, `D/gig.ts` | a gig: state, accepted offer, history (a value) | `transition` over a table of edges, actors and guards | no unguarded jump; terminal states are terminal; a locked gig has its deposit |
| Payment routes, `R/payments.ts` | none of their own; rows `escrows`, `ledger_entries`, `gigs`, and Stripe objects | fund, balance, webhook, release, cancel, dispute, resolve, auto-release; onboarding, identity | the rows and Stripe agree, however requests overlap, repeat or die; a paid capture is never lost |
| Gig routes, `R/gigs.ts` | rows `gigs`, `applications` | create, publish, apply, offer, transition | an accepted offer and the counts survive overlapping saves; the gig moves only along the table |
| Postgres store, `I/postgres/store.ts`, `db/migrations` | the tables | `load*`, `create`, `save`; unique indexes, CHECKs | a save loses nothing another request stored |
| Stripe, `I/stripe/*` (the service itself is external) | intents, transfers, refunds, accounts, identity sessions, idempotency keys | create, transfer, refund; at-least-once events | a retried call moves money once; an undecided failure is told from a decided one |
| Money, `D/money.ts` | none | `quoteBooking`, `applyRate`, `splitRefund` | both splits of the price add up after every rounding |
| Event bus and outbox, `events/*` | rows `event_outbox`; subscribers | publish, drain, retry | nothing is told that did not happen; at least once; a failing row does not stop the rest |
| Authentication, `R/auth.ts`, `I/tokens.ts`, `I/passwords.ts` | `users`, `user_credentials`: failure count, lock, pending code, verification level | register, login, refresh, OTP, MFA, identity | a lock holds; a code buys one session; levels only rise; a session that cleared MFA was earned |
| Rate limiter, `I/rateLimit.ts`, `I/redisRateLimit.ts` | a token bucket per policy and key, in Redis or in memory | `check`, `sweep` | no more than the bucket and its refill, however many pods ask |
| Geocoding, `I/geocode/*` | a cache of answers per process | lookup, fill, expire, evict | a point is never older than the cache allows |
| Profiles and discovery, `R/discovery.ts`, `D/users.ts` | `crew_profiles` and its link tables | save, publish, onboard | a public page is one its vendor published; a shortlisted vendor can be paid |
| Matching, `D/matching.ts`, `D/taxonomy.ts`, `D/geo.ts` | none | score, rank, plan waves | a ruled-out vendor never ranks; better matches are told no later |
| Enquiries, `R/enquiries.ts`, `D/enquiry.ts` | rows `enquiries` | one insert, one event | who is thanked is stored and announced; service and table accept the same |
| Router, middleware, `http/*` | the acting user in an async context | dispatch; an error ends the request | a handler runs as its caller, and its error is an answer |
| Database connections, `I/postgres/db.ts`, RLS policies | two pools; the acting user set on a connection | acquire, run, release | a request sees only the rows it may; nobody waits for ever |
| Start-up, `app.ts`, `index.ts` | the dependencies of a process | build, refuse, shut down | production runs on no stand-in |
| Memory store, `I/store.ts` | maps | as Postgres | development and tests; what it promises of profiles, Postgres keeps |
| Web application, `apps/web` | a session cookie | calls the API | presentation |

**How they interact.** A request passes the rate limiter, authentication and the binding of the
acting user; its handler reads rows, computes a new value with the domain functions, calls
Stripe or the geocoder, saves the rows and publishes an event, one `await` after another. It
holds no lock across two awaits, and no transaction, but for the publish route, which saves the
gig and its events in one unit of work. The other transactions are inside single store calls:
`escrows.save` counts the stored ledger rows, updates the escrow row and inserts the entries
from that count on; `putCrew` saves a profile with its links. `gigs.save` and `credentials.put`
overwrite the whole row. Stripe calls carry idempotency keys derived from the escrow's or the
user's id. Stripe reports a capture or a passed identity check by webhook, at least once, and
the handler answers 2xx only when it has done its work or decided there is none. An external
scheduler calls the auto-release route for gigs that have been in `DeliveryPending` for 72
hours.

**What is hard.** Two requests on one booking or one account interleave at every await, with
stale snapshots in memory; Stripe repeats, delays and overlaps events; a pod may die after money
moved and before it is booked, or after the escrow is saved and before the gig is; a route
decides on a state it read before money moved; a host, a vendor, an admin, the webhook and the
scheduler all act on one row; Redis forgets its keys, or its clock steps back and is put right;
a page is rewritten between the two statements that answer a visitor; a pool runs out while its
borrowers wait. The hazards are listed one by one, with the line where each bites and the
properties that watch it, in `PROJECT.json`.

## 2 The modules

```
 Vault <---- implements ---- EscrowLedger ---- EXTENDS --> Escrow <--.
                               ^      ^                              | EXTENDS
                    EscrowLedgerProofs  MCEscrowLedger            Booking --> GigLifecycle
                                                                     ^            ^
                                                      BookingProofs, MCBooking    |
                                                                         v        |
                                                                   StripeErrors   |
                                                                                  |
 GigRecordsProofs, MCGigRecords -- EXTENDS --> GigRecords ------------------------'

 Announcements <---- implements ---- Outbox <-- EXTENDS -- OutboxProofs, MCOutbox

 Sessions <-- EXTENDS -- SessionsProofs, MCSessions

 Quotes <-- Matching <-- Profiles <-- EXTENDS -- ProfilesProofs, MCProfiles
                ^          |
                |          `-- implements --> ProfileStore
                |
                `-----------------------.
 RateLimiter <--------------------- Intake <-- EXTENDS -- IntakeProofs, MCIntake
             GeocodeCache <-----------' |
                          Enquiry <-----'

 Connections <-- EXTENDS -- ConnectionsProofs, MCConnections -- EXTENDS --> Deployment
```

`map` in `PROJECT.json` says, definition by definition, which lines of the code each module
stands for.

**Vault** is the abstract promise: money of one price is taken in; it goes back in parts, or out
whole on delivery, or a ruling divides all that is left; then the vault is closed. Four actions,
no states, no Stripe, no ledger.

**Escrow** holds the functions of `D/escrow.ts` as constant operators. A function `f` that may
throw is two operators: `FAllowed` (it returns; a replay's no-op return counts) and `F` (what it
returns). A ledger row is its type, its amount and the Stripe id it names; ids, actors, times
and notes of a row are left out. The code folds the ledger each time it wants a balance; the
record carries the three folds along (`Post` adds to them as `append` adds a row), so that no
operator here is recursive. `LedgerFolds` checks that they are the folds.

**EscrowLedger** lets any sequence of those calls happen on one escrow, with the inputs the
routes can send: captures up to the amount an intent was created for, refunds of at least one
cent, splits of a ruling, repeated and fresh Stripe ids. A call that throws is a stuttering
step.

**GigLifecycle** is `D/gig.ts`: the table as a set of edges, the guards as one conjunct per
guarded edge, the refund tiers.

**Booking** is one booking from its accepted offer on. Variables and what they are:

| Variable | In the code |
| --- | --- |
| `row`, `ledger` | the row of `escrows` (or none), its rows of `ledger_entries` |
| `gig` | the `state` column of the `gigs` row |
| `hoursLeft` | `hoursUntil(gig.startsAt)`, which only falls |
| `intents`, `charged`, `transfers`, `refunds` | what exists and has succeeded at Stripe |
| `tokens` | client secrets that reached the host in a 201 |
| `acked` | succeeded payments whose event was answered 2xx |
| `Named` (a constant) | intents whose events carry `escrowId` where the webhook reads it |
| `req[w]` | a request in flight: which handler, which await it is at, its snapshots `e` and `g`, its arguments |
| `crashes` | requests lost so far (bound) |

| Actions | Handler |
| --- | --- |
| `StartFund`, `FundLookup`, `FundIntent`, `FundCreate`, `FundSaveGig`, `Respond` | `POST /gigs/:id/escrow`, `R/payments.ts:70` |
| `StartBalance`, `BalanceMakeIntent`, `Respond` | `POST /gigs/:id/escrow/balance`, `:136` |
| `Deliver`, `WebhookLedger`, `CountLedger`, `CommitEscrow`, `RereadGig`, `SaveGig` | `POST /webhooks/stripe`, payment branch, `:430` |
| `Dismiss` | the same route, when the event names no escrow or one that is not stored: 200 and nothing done, `:476-483` |
| `StartRelease`, `ReadLedger`, `ReadGig`, `CallTransfer`, `CountLedger` ... | `POST /escrow/:id/release`, `:185` |
| `StartSweep`, `SweepRow`, `ReadLedger`, `CallTransfer` ... | `POST /internal/escrow/auto-release`, `:530` |
| `StartCancel`, `ReadLedger`, `ReadGig`, `CallRefund` ... | `POST /escrow/:id/cancel`, `:255` |
| `StartDispute`, `DisputeLedger`, `CountLedger` ... | `POST /escrow/:id/dispute`, `:320` |
| `StartResolve`, `ResolveLedger`, `CallTransfer`, `CallRefund` ... | `POST /escrow/:id/resolve`, `:345` |
| `StartTransition`, `TransitionLookup`, `SaveGig` | `POST /gigs/:id/transition`, `R/gigs.ts:321` |
| `Pay`, `Tick`, `Crash` | the host pays at Stripe; time; a pod dies or an awaited call fails |

What a handler does in memory between two awaits belongs to the step before the second one, so
the atomic steps are exactly the statements, the transactions and the Stripe calls. Three
details are kept on purpose. `loadEscrow` is two statements (row, then ledger), so a snapshot
may be torn: a new ledger under an old state. `save` counts before its `UPDATE` takes the row
lock, so two saves interleave as count-count-commit-commit. And Stripe is modelled as the routes
rely on it: a key used again with the same amount returns the first object, with another amount
it is an error, and a refund beyond what an intent holds is refused.

Whether the webhook finds the escrow of an event is a matter of the event's shape. The handler
looks for `escrowId` and `leg` at the top of the event's object (`R/payments.ts:452, 487`),
which is where the tests put them; the live gateway puts them under `metadata`
(`I/stripe/live.ts:174`). `Named` is the set of intents whose events have them at the top, so
each run says which shape it is about.

A row the `gigs` table refuses (`RowAccepted`: its CHECK asks a cancelled gig for a reason) is a
save that fails and ends the request.

**GigRecords** is the whole `gigs` row from its draft to the lock, with its history and its
applications. Where Booking follows the money, this module follows the copies: every handler
loads the row, works on its copy and writes the copy back whole.

| Variable | In the code |
| --- | --- |
| `gig` | the `gigs` row: `state`, `application_count`, `accepted_offer_id` (an application is known by its vendor) |
| `history` | its rows of `gig_transitions`, as from-to pairs |
| `status` | its rows of `applications`, by vendor |
| `escrow` | its row of `escrows`: the vendor, whether the deposit is booked, whether a dispute is open |
| `req[w]` | a request in flight: the handler, the await it is at, its copy `g`, `h` of the gig and the count its save has taken |
| `alone`, `crashes` | whether two requests have ever been in flight together; requests lost |

| Actions | Handler |
| --- | --- |
| `Init` | `POST /gigs`, `R/gigs.ts:30`: a draft |
| `StartPublish`, `ReadHistory` | `POST /gigs/:id/publish`, `:147` |
| `StartApply`, `ReadHistory`, `ApplyLookup`, `ApplyCreate` | `POST /gigs/:id/applications`, `:193` |
| `StartOffer`, `ReadHistory`, `OfferLookup`, `OfferAccept` | `POST /gigs/:id/offer`, `:281` |
| `StartTransition`, `ReadHistory`, `TransitionLookup` | `POST /gigs/:id/transition`, `:321` |
| `StartFund`, `ReadHistory`, `FundLookup`, `FundCreate` | `POST /gigs/:id/escrow`, `R/payments.ts:70` |
| `CaptureDeposit`, `StartWebhook`, `ReadHistory` | the webhook books the deposit, then reads the gig, `R/payments.ts:504-510` |
| `OpenDispute`, `StartDispute`, `ReadHistory` | the dispute route saves the escrow, paid or not, then drives the gig, `R/payments.ts:318-345` |
| `CountTransitions`, `CommitGig` | `gigs.save`, `I/postgres/store.ts:659-713`, which ends every one of them |
| `Crash` | a pod dies or an awaited call fails |

`loadGig` is two steps as well (the row, then the transitions), so a copy may hold a history
newer than its state. What the transition route takes for a funded deposit is an escrow in any
state but `AwaitingDeposit` (`R/gigs.ts:334`): `HasMovedOn`, which a disputed escrow that nobody
has paid satisfies.

**Announcements** is the abstract promise of the outbox: changes happen, subscribers are told of
events whose change has happened, possibly more than once, and of those they are sure to hear
of, sooner or later. No table, no relay, no crash.

**Outbox** is `events/outbox.ts` over the unit of work of `I/postgres/db.ts`: requests that
change something and publish so many events about it, and a relay in each pod. A request in
`Inside` publishes in the transaction of its change, as the publish route does; the others have
saved before they publish, as every other route.

| Variable | In the code |
| --- | --- |
| `inserted`, `committed`, `published` | the rows of `event_outbox`: all that were inserted, by id (a `BIGSERIAL` is never given back), those whose transaction has committed, those with a `published_at` |
| `changed` | requests whose change is committed |
| `doing[r]` | a request in flight, and the ids of its rows |
| `pass[p]` | the pass of pod `p`: rows locked, rows left in the loop, `done` |
| `seen[s]` | the rows a handler has returned on, in order of the first time |
| `twice`, `spoiled`, `overlapped` | history, for the properties: repeated deliveries; rows a handler threw on or whose pass was lost; whether two passes have overlapped |

| Actions | Code |
| --- | --- |
| `Save`, `Publish`, `Commit` | a route's save, `bus.publish` for each event, the end of the unit of work: `R/gigs.ts:159-174`, `events/outbox.ts:44`, `I/postgres/db.ts:140-185` |
| `Lose` | the request fails or its pod dies; a unit of work is rolled back and may be tried again |
| `Claim`, `Deliver`, `Finish` | `OutboxRelay.drain`: the `SELECT ... FOR UPDATE SKIP LOCKED`, the handlers of one row, the `UPDATE` and the commit, `events/outbox.ts:111-164` |
| `Die` | the pass fails or its pod dies: what handlers have done stays, the marks do not |

Nothing under `services/api/src` subscribes to the bus: the handlers are parameters, some of
which never take the events of some requests (`Deaf`), and any of which may throw once in a
while.

**Sessions** is one account: its `users` row, its `user_credentials` row, and the requests that
read and write them. `credentials.put` writes back every column a handler has read, so two
overlapping requests lose counts and locks; `users.update` writes only the columns it names. A
token is its `mfa` claim, a password or a code is right or wrong.

| Variable | In the code |
| --- | --- |
| `user` | the level (`VERIFICATION_ORDER`) and `mfa_enabled` |
| `cred` | `failed_attempts`, `locked_until`, the pending code and when it expires |
| `issued` | the `mfa` claims of the token pairs handed out |
| `lastCode`, `uses` | codes generated; how often each was answered with a pair |
| `identity` | the verification session at Stripe Identity |
| `req[w]` | a request in flight, with the credentials it has read and changed |
| `now`, `alone`, `crashes` | the clock; whether requests have ever overlapped; requests lost |

| Actions | Code |
| --- | --- |
| `StartRegister`, `CreateUser`, `Put` | `POST /auth/register`: two inserts, two transactions |
| `StartLogin`, `LoginRead`, `LoginVerdict`, `Put` | `POST /auth/login`: the lock, the password (off the event loop), the count |
| `Refresh`, `EnableMfa` | `POST /auth/refresh`, `POST /auth/mfa/enable`: one statement each |
| `StartSend`, `SendRead`, `Put` | `POST /auth/otp/send` |
| `StartVerify`, `VerifyRead`, `Put`, `VerifyUser`, `VerifyUpdate`, `VerifyAnswer` | `POST /auth/otp/verify`: the code is spent first, then the level may rise, then a pair is answered |
| `StartIdentity`, `IdentityUser`, `IdentitySession`, `IdentityPasses` | `POST /identity/verify`, and the person's check at Stripe |
| `StartWebhook`, `WebhookUser`, `WebhookPromote` | the identity branch of the webhook, any number of times |
| `Tick`, `Crash` | time; a pod dies or an awaited call fails |

**Quotes** is the arithmetic of `D/money.ts` and of the travel quote of `D/geo.ts`, in whole
cents and tenths of a mile, a rate as a number of hundredths. **Matching** is `D/matching.ts`:
the hard filters, the score in basis points, the order and the waves. Three components of a
score are logarithms or smoothed means of one number about the vendor; a candidate carries their
values. What waves have to be like is stated there, once for the run of `Intake` and for the
theorem about any candidates. `WavesFollow` compares the waves with the scores, not with the
list they are cut from: everybody who is not ruled out and good enough is told, or as many as
the short list takes, and then the best; nobody else is and nobody twice; nobody is told after a
weaker match; and an urgent gig has one wave, at once.

**Profiles** is a crew profile in Postgres: its row, its links, the routes that write them, and
the two readers that take several statements.

| Variable | In the code |
| --- | --- |
| `row`, `links` | `crew_profiles`; `crew_specialty_links` and `crew_event_links` |
| `ready` | vendors whose user is verified with MFA on (`Sessions`) |
| `req[w]` | a request in flight: the body, the row read, the vendors a search has loaded |
| `wasPublic`, `decided`, `shown`, `shortlist` | history and answers, for the properties |

| Actions | Code |
| --- | --- |
| `StartSave`, `SaveRead`, `PutCrew` | `POST /profiles/crew`; the save is one transaction that locks the row first |
| `StartPublish`, `PublishRead`, `SetPublished` | `POST /profiles/crew/publish` |
| `StartVisit`, `VisitFind`, `VisitAnswer` | `GET /vendors/:slug` |
| `StartOnboard`, `LinkStripeAccount` | `POST /connect/onboard` |
| `StartSearch`, `SearchPool`, `SearchLoad`, `SearchLinks`, `SearchJoin`, `SearchRank` | `POST /search/crew`: the pool, each vendor's row and links in any order, the join with the user, the ranking |
| `BecomeReady` | another component verifies the vendor |

**ProfileStore** is the in-memory repository that development and the tests run on, one map and
three operations. `Profiles` implements it: the mapping joins a vendor's row and links into the
profile that `loadCrew` would return, and each statement is an operation or a stutter. This is
what entitles a test against the memory store to speak of Postgres at all.

**RateLimiter** is `I/redisRateLimit.ts`: a script refills and spends a bucket in one step, on
Redis's clock. Tokens are counted in units so that refilling is exact. `NoScript` (Redis lost
the script), `Outage` and a lost reply (fail open), `Restart` with or without the keys and
`Expire` are actions; so are `Skew`, a clock that jumps back or forward, as when a replica takes
over, and `Synchronise`, which puts it right. `leapt` adds up the seconds the clock has been set
forward; `loaded` is the pod's own idea of whether the script is there. The in-memory limiter is
two operators beside it.

**GeocodeCache** holds, as operators, the cache of `I/geocode/cached.ts` (a sequence in
insertion order), the reading of a Census answer and the fences of `D/geo.ts`, on a line.
**Enquiry** is what `D/enquiry.ts` accepts and what the table of `006_enquiries.sql` accepts, a
text being its length in UTF-16 units and in characters.

**Intake** composes these three and `Matching`: `POST /gigs`, the publication of the draft,
`POST /enquiries`, all behind the limiter.

| Variable | In the code |
| --- | --- |
| the variables of `RateLimiter` | the buckets and the calls about them |
| `job[w]` | a request in flight |
| `cache[pod]` | the geocode cache of one process |
| `corrected` | when the Census service corrected an address (or has not) |
| `gigs`, `draft` | how many gigs there are; the last draft with its venue |
| `published`, `announced`, `raced` | the last announcement with its waves; which gigs were announced, in order; which of them two requests were publishing at once |
| `enquiries`, `received`, `thanked` | rows, `enquiry_received` events, and 202s with an id |

| Actions | Code |
| --- | --- |
| `StartDraft`, `RefuseBrief`, `TakeCoordinates`, `Lookup`, `CensusReads`, `Fill`, `Unavailable`, `CreateDraft` | `POST /gigs`, `resolveVenue`, `CachedGeocoder.geocode`, the census client and its timeout |
| `StartPublish`, `ReadDraft`, `Publish` | the publish route: the gig is read and must be a draft, `R/gigs.ts:147-152`; then the unit of work ranks, plans and announces, `:159-174` |
| `StartEnquiry`, `AskEnquiry`, `CreateEnquiry`, `TellEnquiry`, `AnswerEnquiry` | `POST /enquiries`: two limits, honeypot, validation, insert, event, answer |
| `Refused`, `Correct`, `CrashPod`, and the limiter's own steps | 429; the service corrects an address; a process dies with its requests and its cache |

**Connections** is what a statement runs on: requests that act as a user, as the system or as
nobody, two pools of `I/postgres/db.ts` with a queue each, and the setting the row policies
compare with.

| Variable | In the code |
| --- | --- |
| `conn[c]` | who has borrowed connection `c`, for a unit of work or one statement, how far, and its `app.current_user_id` |
| `queue[pool]` | who waits, in order |
| `req[w]` | a request: its actor, statements it has yet to run, what it has asked for |
| `seen` | history: whose rows a statement of whom has returned |
| `phase`, `faults` | up, closing, ending, down; failures and time-outs so far |

| Actions | Code |
| --- | --- |
| `Arrive` | `http/router.ts`: the actor is bound in the async context |
| `AskUnit`, `Statement` | `withUnitOfWork`; `query`, inside the unit or on a connection of its own, side by side under `Promise.all` |
| `Grant`, `Open`, `Run`, `Finish`, `Commit` | the pool hands out a connection; `BEGIN` and `set_config`; the statement; commit and release |
| `Fail`, `TimeOut` | rollback and rethrow; `connectionTimeoutMillis` |
| `Signal`, `EndPools`, `Exit` | `SIGTERM`, `index.ts` |

**Deployment** is start-up as operators: which dependency every environment gets (live,
stand-in, refused), when a process refuses to start, and `resolveClientIp`. **StripeErrors** is
the mapping of a failed Stripe call to a code and a verdict on retrying it.

Each MC module gives the constants of its component their values and adds the symmetries of its
run. **MCBooking** also has `FundedInit`, the states right after both captures were booked, from
which the runs about money going out start. Statements about operators alone are assumptions
that TLC evaluates when it starts a run: `LedgerFolds` (`MCEscrowLedger`: the balances carried
along are the folds of every ledger of three rows), `RetriesOnlyUndecided` (`MCBooking`),
`TheTwoAgree`, `SweepIsHarmless`, `WaitIsEnough` (`MCIntake`), `ProductionIsLive`,
`ForgeryIsIgnored` (`MCConnections`).

## 3 The runs

All run with `tlc -workers 2 -config <run>.cfg <module>`, each in under three minutes.
`CHECK_DEADLOCK FALSE` everywhere, because the system may really stop: a released or refunded
escrow accepts no call, a finished gig no transition, an empty outbox gives its relays nothing
to do, a process that was told to is down, and the bounded requests are used up.

| Run | States | What it asks | Answer |
| --- | --- | --- | --- |
| `escrow_ledger` | 1.3 k | does any sequence of calls of `D/escrow.ts` break the ledger, or the promise of `Vault`? | no: `TypeOK`, `LedgerBalances`, `RefsBookedOnce`, `ReleaseIsWhole`, `ClosedIsFinal`, `KeepsVault` hold |
| `booking_sequential` | 519 k | all handlers, one request at a time, one of them lost at any await, two deposit intents of which the events of one do not name the escrow: does the stored state stay sound, and is a payment ever forgotten? | sound: `StoredLedgerBalances`, `PayoutIsCovered` hold; not forgotten if its event names the escrow and no dispute or refund came first: `AckedIsBooked` holds, and under fairness `DepositLocksBooking` |
| `booking_payouts` | 526 k | two overlapping requests among release, sweep, cancel, dispute and resolve on a funded booking: does the ledger invent or repeat a movement of money? | no: `BookedMoneyMoved`, `BookedOnce` hold |
| `booking_funding` | 329 k | two overlapping requests among fund, balance, webhook and transition, two rival deposit intents: can the host pay the deposit twice, or a gig be locked unpaid? | no: `DepositChargedOnce`, `LockedIsFunded` hold |
| `gig_records` | 2.7 M | two overlapping requests of the gig, funding, webhook and dispute routes, one of them lost, two applicants: what can a stale save break in the gig's row, its history, its applications and its escrow? | not the booking: `OfferIsAccepted`, `EscrowPaysAccepted`, `LockedIsBooked`, `CountNeverInvents` hold however requests overlap; `HistoryExplainsGig` and `TerminalIsFinal` while they do not (section 4) |
| `outbox` | 235 k | a unit of work with two events, a payment with one, outside, that one of the two handlers never takes, the relays of two pods, batches of two, two faults: what is told, how often, in which order, and at all? | `UnitIsWhole`, `PublishedIsSeen`, `SeenOnce` and `InOrder` hold, and under fairness `KeepsPromise`: the outbox implements `Announcements` |
| `sessions` | 2.4 M | two overlapping requests of one account that may die at any await, with time: can a code buy two sessions, a lock be shortened, a level fall, or a session clear MFA that was not earned? | MFA never: `MfaMeansVerified` (and `TypeOK`) hold however requests overlap; `OneCodeOneUse`, `LockHolds`, `NeverMovedDown` while they do not (section 4) |
| `profiles` | 701 k | two vendors save, publish, take down and onboard while a visitor reads a page and a host searches: does anybody see what was never public, or is a vendor shortlisted who cannot be paid? | no: `VisitorSeesPublic`, `PublishedAsDecided`, `ShortlistIsPayable` hold, and `StoresAgree`: the Postgres rows implement `ProfileStore` |
| `intake` | 2.2 M | two overlapping requests pass the limiter, geocode a venue, publish in waves and leave enquiries, while the process crashes, Redis fails and forgets, and its clock jumps and is put right: is the limit what it says, the venue recent, the enquirer told the truth, and every vendor told who should be, once and in order? | yes: `BudgetHolds`, `DraftIsRecent`, `EnquiryIsTold`, `WavesFollowRank` hold |
| `connections` | 449 k | two users, the system and nobody share two pools of one connection each, through failures, time-outs and `SIGTERM`: does anybody see another's rows, or wait for ever? | no: `RowsAreOwn` holds, and under fairness `EveryoneIsAnswered` |
| `booking_lost_update` | | does the ledger stay balanced when a release, a dispute or a cancellation overlap? | **no**, section 4 |
| `booking_live_events` | | is a capture booked whose event has the shape of the live gateway's and was answered 2xx? | **no**, section 4 |

Each property of a passing run has a mutant in `PROJECT.json`, a plausible slip in the code (a
dropped guard, a save that writes only one new row, a missing unique index, a setting that
outlives its transaction, a lock that is not looked at) on which TLC finds that property
violated in the same run.

Where a property says "while requests do not overlap" (`alone` and `overlapped` in the modules),
the run still lets them overlap, because other properties of it must survive that; the property
then speaks of the behaviours in which every request ended, or died, before the next one began.
That is a claim about crashes and orders of calls, and section 4 says what breaks it when
requests do overlap.

**Bounds, and why they are enough.** The quote is 3 cents (deposit 1, balance 2, vendor 2), in
`escrow_ledger` 5 (2, 3, vendor 4): the smallest in which deposit, balance, payout and
commission are all positive and differ where the code could confuse them. `Splits` holds rulings
that pay one side, both, neither, and more than is there (`AllSplits`), or one that uses both
legs (`FewSplits`). `EventHours` visits the tiers a run needs: 10 (inside the 24-hour call time,
no refund), 200 (a 50% refund), 400 (75%). A full refund on one intent is discussed in section
4. `Workers` is two where overlap is the question: the stale snapshot, the lost update and the
   duplicate need two requests. `MaxEntries` bounds how often a dispute can be reopened on a
   ledger (every other row is bounded by its Stripe id), `MaxCrashes` the requests lost.
   `booking_sequential` has two deposit intents, so that a funding request that died can be
   tried again, and `Named` leaves one of the two out: its events do not name the escrow, those
   of the other do. The two-worker runs of `Booking` leave crashes out: a worker that never
   takes its next step is already a lost request, except that its slot is not free again. In
   `gig_records` two applicants are enough to compete for the one offer and three stored
   transitions for the way from the draft to the lock (a request starts on a history of at most
   two, so two more can still be saved); `Targets` are the ways forward, back and out that a
   caller can ask for before the lock. Workers are interchangeable, and so are applicants, so
   the two-worker safety runs use symmetry; no run with a liveness property does.

In `outbox` two events in one unit are the least that can be torn or swapped; a batch of two is
smaller than the table can be and larger than the one row that is always refused; two faults let
a request be lost and a pass of what it retried, or a pass twice.

In `sessions` the second wrong password locks, a lock lasts one tick and a code is good within
its tick, so that with one tick of time (`MaxTime`) a lock runs out and a code expires; two
codes (`MaxCodes`) let a new one replace an old one. Of seven bodies of a registration one is
accepted. In `profiles` two vendors compete for one address; four writes (`MaxRequests`) are a
save, a publication, a rewrite and a take-down of one page, or a shorter story of both vendors;
the visits and searches between them are not bounded. In `intake` every limit is one request and
the enquiry's own refills half as fast, so that a second request is refused; a cache of one
entry (`CacheMax`) evicts at the second address, a time to live and a timeout of one tick
(`CacheTtl`, `Timeout`) both end within `MaxTime`; one fault (`MaxFaults`) sets the clock wrong,
and putting it right is free; of three addresses one becomes ambiguous when it is corrected, one
lies in the footprint of a far metro but outside its nearest, one is too vague; of the other two
forms one has coordinates and an incomplete brief, one is refused; an enquiry has a body that is
accepted (one that is refused leaves no trace: which are is asked of every body by
`TheTwoAgree`); eighteen vendors fill a third wave, and notices of 72 and 73 hours stand on
either side of "urgent". In
`connections` pools of one connection make any request that holds one and waits for another wait
for itself; three requests, two at once, of up to two statements, are the borrower, the one who
waits and the one after.

**Fairness.** `FairSpec` of `Booking` (`booking_sequential`): `WF(Continue(w))`: a request in
flight goes on unless it is lost, as the event loop guarantees. `SF(Redeliver(i))`: Stripe
redelivers an event until it is answered 2xx, whatever happens to each attempt, and the pod
accepts a request whenever it comes; strong fairness because in the model all requests share a
few worker slots, so an attempt may find them busy again and again, which is an artefact of the
bound and not of the service. Nothing is assumed of hosts, vendors or admins: nobody has to
start a request or pay. `FairSpec` of `Outbox` assumes `WF(Relay(p))`: the interval timer starts
a pass again and again and a pass goes on unless it is lost (`events/outbox.ts:166-190`). The
bound on faults is part of the assumption: a handler that is not deaf to a row throws on it
finitely often, and passes are lost finitely often. Requests owe nothing. `FairSpec` of
`Connections`: handlers run to their end (`Request(w)`), Postgres answers a statement, if only
because `statement_timeout` makes it (`Connection(c)`), and a closing server closes (`EndPools`,
`Exit`). `TimeOut` and `Fail` are not fair, and no request has to arrive: `EveryoneIsAnswered`
says that a wait ends without a time-out having to break it.

## 4 Where code and documents disagree

Two runs find a behaviour of the code that contradicts what the repository says of it; the
traces were read back against the source.

`booking_lost_update`. A release and a dispute load the same escrow. The release commits
`payout_released` and `commission_taken`; the dispute's save, or the other way round, counts the
rows already there and appends `entries.slice(count)` of its own list, so the earlier rows of
the second writer are dropped, and its state overwrites the first's
(`I/postgres/store.ts:932-957`). The stored escrow then fails `assertLedgerBalances`, which the
handlers evaluate only on their own snapshot.

`booking_live_events`. The live gateway creates an intent with `gigId`, `escrowId` and `leg` in
its `metadata` (`R/payments.ts:116`, `I/stripe/live.ts:174`), and that is how they come back in
the event. The webhook reads them from the top of the object (`R/payments.ts:452, 487`), finds
no escrow and answers 200 with `handled: false` (`:476-480`), so Stripe does not send the event
again. The host has been charged, nothing is booked and the gig is never locked, where
`docs/api.md:117-118` has "escrow DepositHeld, gig EscrowLocked" and `docs/api.md:109` calls the
route "the only path that may record a capture". The end-to-end tests send the fields at the top
(`services/api/test/api.e2e.test.ts:103`). Everything the other runs and the theorems say of
captures is about events that name their escrow.

Met while modelling, and not given a run of their own. *Money:*

- A dispute may be opened on an escrow that awaits its deposit (`D/escrow.ts:256-259`), and the
  transition route takes any state other than `AwaitingDeposit` for a funded deposit
  (`R/gigs.ts:334`): the host locks an unpaid gig, although `docs/architecture.md:133-135` asks
  for a deposit that has cleared. Without disputes (`booking_funding`) `LockedIsFunded` holds;
  with them, `LockedIsBooked` of `GigRecords` says what is left: the escrow of a locked gig is
  funded or disputed.
- The release route transfers the vendor's part at Stripe (`R/payments.ts:218`) before
  `releaseEscrow` checks the state; with only the deposit charged the request answers the 409 of
  `docs/api.md:126-127` after the money has left. `PayoutIsCovered` shows that such a payout is
  at least never *booked*. The resolve route moves money first as well.
- The auto-release route does not read the gig before it pays (`R/payments.ts:541`): a dispute
  raised after the scheduler's query comes too late, against `docs/security.md:22-25`.
- The escrow policies admit the host, the vendor and the system
  (`db/migrations/001_init.sql:466-471`, `004_rls_write_policies.sql:146-156`); the sweep runs
  as the system for that reason (`R/payments.ts:525-528`), the resolve route and an admin's
  release or cancel do not (`R/payments.ts:348-398`) and find no escrow.
- A ruling sent for a *released* escrow makes the transfer under `dispute_transfer_<id>` before
  `resolveDispute` refuses it (`D/escrow.ts:340`): the vendor is paid twice.
- A redelivered deposit event with a stale snapshot writes `DepositHeld` over `FullyFunded`
  (`docs/security.md:46-48` says a repeat is a no-op), and a torn load can write back
  `AwaitingDeposit`. With two workers an acknowledged balance can be lost from the ledger in
  this way, so `AckedIsBooked` is claimed only where requests do not overlap.
- A first capture that arrives when the escrow is `Disputed` or refunded is answered 2xx and
  dropped (`R/payments.ts:495-497`): the host is charged and nothing is booked. `AckedIsBooked`
  and `DepositLocksBooking` except it (`Drained`).
- A cancellation with a full refund asks for all of it on one PaymentIntent
  (`R/payments.ts:278-284`), although `splitRefund` (`D/money.ts:118-120`) plans two; a live
  Stripe refuses it.

*Gigs:*

- `gigs.save` with a stale gig can take a `Completed` gig back (`D/gig.ts:27`).
  `TerminalIsFinal` therefore is claimed only where requests do not overlap. In `GigRecords` an
  application that read the gig before a cancellation was stored revives it as
  `ApplicationsReview`, reason wiped.
- Overlapping saves of a gig lose transitions: the second one cuts its own records at a count
  that includes the first one's (`I/postgres/store.ts:661-665, 744`), so the audit trail of
  `D/gig.ts:101` has gaps.
- An application whose request dies between `applications.create` and `gigs.save`
  (`R/gigs.ts:218-232`) is never counted, a gig still `Open` stays so, and the vendor's retry is
  refused as `already_applied`.
- The CHECK of the `gigs` table speaks of "a gig past Draft" (`db/migrations/001_init.sql:275`),
  but the save that cancels a draft sets `published_at` in the same statement, so a draft cannot
  be cancelled without a reason either; the host is answered 500.
- Two publish requests that both read the draft (`R/gigs.ts:152`) both announce it, each in a
  unit of work of its own (`:159-174`): the vendors are told twice. `WavesFollowRank` says that
  this is the only way to a second announcement.
- An offer is accepted, and an escrow made and paid, in any state of the gig
  (`R/gigs.ts:284-299`): a deposit paid for a gig that is not in `ApplicationsReview` does not
  lock it.

*Events:*

- "One bad subscriber must not block the topic for everyone" (`events/outbox.ts:142`) holds
  while fewer than `batchSize` rows are stuck. As many rows as a batch holds that a handler
  always throws on fill every pass, since rows are taken by id and failures are never set aside,
  and no later row of any topic is read again. `Owed`, which `KeepsPromise` is about, says so:
  with `Stuck` rows enough to fill a batch nobody is owed anything.
- That "everything about one gig stays in order" (`events/bus.ts:33`) is lost as soon as a row
  fails, for its successors are delivered in the same pass, or two pods hold neighbouring rows.
  `InOrder` claims it only without either.
- "Domain events are written here in the same transaction as the state change"
  (`db/migrations/001_init.sql:427`) is so in the publish route alone; everywhere else the event
  is published after the save and a crash between them loses it. The code accepts this
  (`I/postgres/db.ts:91-93`), and `KeepsPromise` excepts it.
- A row whose topic nobody subscribes to counts as delivered and is marked
  (`events/outbox.ts:137-148`). As no code subscribes, this is every row today.

*Accounts:*

- A code check that has read the user before the identity webhook commits writes the lower level
  over the higher (`R/auth.ts:221`), and two overlapping checks of one code both answer a pair:
  "never move someone down" and "one code, one use" need requests not to overlap.
- Two overlapping logins lose a failure, and a login that began before the lock was stored
  clears it (`R/auth.ts:149`).
- A registration that dies between `users.create` and `credentials.put` (`R/auth.ts:91`) leaves
  an account that can neither log in nor register again.

*Profiles, intake and start-up:*

- "A clock that went backwards must not mint tokens" (`I/redisRateLimit.ts:54`) is so of the
  step back, but the script stamps the bucket with the earlier time (`:55-66`), so that the
  correction which follows refills it for seconds that did not pass. `BudgetHolds` counts them
  in `leapt`. Requests that are let through while Redis does not answer are not metered at all.
- The bounds of an enquiry match the CHECKs of `006_enquiries.sql` "so the two cannot disagree"
  (`D/enquiry.ts:37`); JavaScript counts UTF-16 units and Postgres characters, so a name of one
  emoji is accepted and then fails as a 500, as does a date such as the 30th of February.
  `TheTwoAgree` therefore speaks of plain text and real dates.
- "Keyed on the authenticated user where there is one" (`http/middleware.ts:42-47`): the default
  limit runs before any `requireAuth` (`app.ts:259`), so that one is keyed on the address
  always.
- A slug of symbols alone is normalised to the empty string, which the CHECK of the table
  refuses: a 500.
- A saved travel policy beyond the ceilings of `normalizeTravelPolicy` (`D/geo.ts:140-152`)
  makes `quoteTravel` throw for every search that loads its vendor.
- A search loads all vendors of a specialty at once (`I/postgres/store.ts:334`), on a pool of
  ten with a five-second wait; a large enough specialty times out by itself.
- An explicitly empty list of event types is kept by the memory store and reads back absent from
  Postgres; the two agree on what the routes answer only up to that, and the bodies of
  `MCProfiles` leave it out.
- Two creators may not hold one handle: the upsert on `(platform, handle)` updates the other's
  row and leaves it theirs (`I/postgres/store.ts:395-415`).

## 5 What is proved

`EscrowLedgerProofs` proves, for every quote, every set of Stripe ids and every bound (631
obligations, all checked):

| Theorem | Statement |
| --- | --- |
| `Invariance` | `Spec => []IInv` |
| `TypeCorrect` | `Spec => []TypeOK` |
| `LedgerAlwaysBalances` | `Spec => []LedgerBalances`: `assertLedgerBalances` never throws |
| `RefsAlwaysBookedOnce` | `Spec => []RefsBookedOnce` |
| `ReleaseAlwaysWhole` | `Spec => []ReleaseIsWhole` |
| `ClosedStaysClosed` | `Spec => ClosedIsFinal` |
| `LedgerKeepsVault` | `Spec => V!Spec`: the ledger implements the vault |

`BookingProofs` proves, for every quote, every set of requests in flight, any rulings, rival
intents and lost requests, and every length of the ledger (3922 obligations, all checked):

| Theorem | Statement |
| --- | --- |
| `Invariance` | `Spec => []IInv` |
| `BookedOnceAlways` | `Spec => []BookedOnce`: no Stripe object is in the ledger twice |
| `BookedMoneyMovedAlways` | `Spec => []BookedMoneyMoved`: a row that names a Stripe object records what happened there, in that amount |
| `DepositChargedOnceAlways` | `Spec => []DepositChargedOnce` |
| `PayoutIsCoveredAlways` | `Spec => []PayoutIsCovered`: a payout in the ledger stands on the whole price charged |
| `LockedIsFundedAlways` | `"dispute" \notin Ops` gives `Spec => []LockedIsFunded` |
| `StoredLedgerBalancesAlways` | `Alone` gives `Spec => []StoredLedgerBalances` |
| `AckedIsBookedAlways` | `Alone` gives `Spec => []AckedIsBooked`: a capture answered 2xx is in the ledger, if its event names its escrow and no dispute or refund drained that first |

`GigRecordsProofs` proves, for any number of requests in flight, any applicants and every bound
(1264 obligations, all checked):

| Theorem | Statement |
| --- | --- |
| `Invariance` | `Spec => []IInv` |
| `TypeCorrect` | `Spec => []TypeOK` |
| `OfferAlwaysAccepted` | `Spec => []OfferIsAccepted` |
| `EscrowAlwaysPaysAccepted` | `Spec => []EscrowPaysAccepted` |
| `LockedAlwaysBooked` | `Spec => []LockedIsBooked`: the escrow of a gig past the lock pays the gig's offer and is funded or disputed |
| `CountNeverAhead` | `Spec => []CountNeverInvents`, however stale the copies that are saved |
| `HistoryAlwaysExplains` | `Spec => []HistoryExplainsGig` |
| `TerminalStays` | `Spec => TerminalIsFinal` |

`OutboxProofs` proves, for any number of requests, events, pods, subscribers and faults and any
size of a batch (1174 obligations, all checked):

| Theorem | Statement |
| --- | --- |
| `Invariance` | `Spec => []IInv` |
| `TypeCorrect` | `Spec => []TypeOK` |
| `UnitsAreWhole` | `Spec => []UnitIsWhole` |
| `MarkedIsSeen` | `Spec => []PublishedIsSeen` |
| `SeenOnlyOnce` | `Spec => []SeenOnce` |
| `AlwaysInOrder` | `Spec => []InOrder`: the events of one request reach a handler in the order it published them, while passes neither fail nor overlap |
| `TellsTheTruth` | `Spec => Promise!Safe`: the safety half of `Announcements` |

`SessionsProofs` proves, for any number of requests in flight, any limits, times and bounds
(1054 obligations, all checked):

| Theorem | Statement |
| --- | --- |
| `SessionTypes` | `Spec => []TypeOK` |
| `MfaIsEarned` | `Spec => []MfaMeansVerified`, however requests overlap |
| `CodesSpentOnce` | `Spec => []OneCodeOneUse` |
| `LevelsOnlyRise` | `Spec => NeverMovedDown` |
| `LocksRunOut` | `Spec => LockHolds` |

`ProfilesProofs` (2199 obligations), for any vendors, bodies, briefs, requests in flight and
bounds, and about the arithmetic and the ranking for all of their arguments:

| Theorem | Statement |
| --- | --- |
| `Invariance` | `Spec => []IInv` |
| `VisitorsSeePublic` | `Spec => []VisitorSeesPublic` |
| `PagesAreAsDecided` | `Spec => []PublishedAsDecided` |
| `ShortlistsArePayable` | `Spec => []ShortlistIsPayable` |
| `PostgresKeepsPromise` | `NoEmptyList` gives `Spec => StoresAgree`: the rows of Postgres implement `ProfileStore` |
| `WavesFollowMatches` | for any finite set of candidates, any brief, urgent or not, and any target, the waves tell as many vendors as the short list takes, nobody twice, nobody who is ruled out, and a better match no later than a weaker one; an urgent gig has one wave, at once |
| `QuoteAddsUp` | deposit and balance make the total, the payout lies between the travel fee and the total |
| `RefundFits` | the two parts of a refund add up to it and neither exceeds its leg |
| `FartherIsNoCheaper` | under every accepted travel policy a longer way within reach costs no less |

`IntakeProofs` (1818 obligations), for any number of pods, workers and addresses, any policies,
any size of the cache, and any restarts of Redis and settings of its clock, which `BudgetHolds`
counts:

| Theorem | Statement |
| --- | --- |
| `LimiterBudget` | `LimiterSpec => []BudgetHolds`: what the script grants stays within a bucket for each start of Redis and the refill of the seconds that passed or that its clock was set forward |
| `SweepChangesNothing` | sweeping idle buckets of the in-memory limiter changes no later verdict |
| `IntakeBudget` | `Spec => []BudgetHolds` for the composed service |
| `IntakeTells` | `Spec => []EnquiryIsTold` |
| `VenueIsRecent` | `Spec => []DraftIsRecent` |
| `ServiceAndTableAgree` | a body of plain text the service accepts, the table takes |

`ConnectionsProofs` (650 obligations), for pools of any size, any users, requests, failures and
time-outs, and any environment:

| Theorem | Statement |
| --- | --- |
| `TenantsAreApart` | `Spec => []RowsAreOwn` |
| `StartsLiveOrNot` | a production process that starts has no stand-in among its dependencies |
| `ForgeryChangesNothing` | what a client writes into `X-Forwarded-For` does not change the address it is counted against |

**Assumptions.** `BookingAssumption`: Stripe's ids of different kinds, and of the two transfers
and the two refunds, are different, as their idempotency keys are; a ruling splits natural
numbers of cents; an absent row is no row. `RecordsAssumption`: an absent vendor is no vendor,
and a caller asks for states of the lifecycle. For the ledger, `QuoteAssumption`: the two
identities of a quote, which `quoteBooking` ensures (`QuoteAddsUp` proves it of the operator)
and the CHECKs of the `escrows` table repeat; `RefAssumption`: an absent id is no id;
`InputAssumption`: intents, refunds, payouts and rulings have disjoint ids, since Stripe makes
them under different keys as different objects. `OutboxAssumption`: a unit of work is a request,
each publishes at least one event (else `UnitIsWhole` would say nothing of it), and a batch
takes at least one row. `SessionsAssumption`: limits and bounds are numbers, an account can fail
and a lock lasts, and an absent row is no row. `RateAssumption`: capacities are numbers, a
request costs something and a second refills something, which is so of every entry of
`POLICIES`. `IntakeAssumption`: the cache holds something for some time, and an address a form
asks for is one of the addresses. `ProfilesAssumption`: what the match engine reads of a vendor
and of a brief are numbers and finite sets, and an absent row is no row.
`ConnectionsAssumption`: the pools share no connection, and the actors that are not users are
different from them. `UnsetAssumption`, `EnquiryAssumption`: what is absent is no value. TLC
evaluates all of them in the runs.

**Hypotheses.** Some theorems ask for more than the assumptions, each time because the property
fails without it, and a run with such constants checks the same property. `"dispute" \notin Ops`
(as in `booking_funding`): a dispute may be opened on a deposit that was never paid, and then
the gig can be locked (section 4); nothing else is asked, so release, sweep and cancellation may
overlap. `Alone`, one request at a time (as in `booking_sequential`): two overlapping saves lose
an update of the row (section 4); requests may still die at every await, any number of them.
`NoEmptyList` (as in `profiles`): the two stores differ on an explicitly empty list of event
types (section 4). `Rankable`, for the waves: the candidates are finitely many, of different
ids, and their numbers are natural. The other theorems about requests that do not overlap
(`HistoryAlwaysExplains`, `TerminalStays`, `AlwaysInOrder`, `CodesSpentOnce`, `LevelsOnlyRise`,
`LocksRunOut`) need no hypothesis, because their properties carry the condition in a variable.

**Argument for the booking.** `BookedOnce` and `BookedMoneyMoved` are not inductive, for the
next save may write rows and a state out of a copy made at any time before. What carries them is
that everything a row, a state or a locked gig tells of has happened in the `World` - an intent
succeeded, a transfer or a refund was made under its key, the row was created - and that no step
takes any of this back (`Kept`). So `IInv` asks of every copy in flight (`Sound`) what it asks
of the tables (`EntriesTold`, `StateTold`, `GigTold`), and a stale copy stays as true as it was.
Two parts are about the present: `Payable`, the host holds a client token of no deposit but the
row's, which is what the order "create the row, then answer with the token" of the funding route
buys; and `Once`, which the unique index on the id keeps. That a payout is covered follows
through the states: only `FullyFunded` is released, and `FullyFunded` says that the whole price
was charged.

Two more invariants hold when requests do not overlap. `Straight`: what the request has read is
still what the tables hold, so what it saves is what it has checked with `assertLedgerBalances`.
`Answered`: until money leaves or is held back, the state of the row says which of the captures
are written, so the webhook's "nothing to do" is true when it says so; after that the row never
takes a capture again (`OutflowStates`), which is the exception `AckedIsBooked` makes.

`Load` folds the ledger. What it computes for every length - that appending a row is `Post`,
which columns it keeps, the signs of the three balances - is proved by induction, from the
well-founded induction of the library applied to a set of numbers (`Induction`,
`LedgerInduction`), which takes no operator as a parameter.

**Argument for the gig.** `LockedIsBooked` is not inductive, for the next save may write any
copy in flight over the row. What saves it is that the facts it rests on are never taken back:
an accepted application stays accepted, an escrow keeps its vendor and, once it has moved on
from awaiting its deposit, does not go back (`Kept`). So the invariant asks of every copy in
flight what it asks of the stored row (`Good`), and of the requests at an await what they have
found out before it (`Sound`); `Tables` adds that at most one application is accepted and that
an escrow's vendor is that one. A copy that passes the lock's guard has an offer and an escrow
that has moved on; its offer is accepted, so is the escrow's vendor, and there is only one.
`Frame` is that argument for the requests a step leaves alone; each action has a lemma of its
own on top of it.

`Counted` puts the count of the row and of every copy below the number of applications, which
never falls; a copy is counted up only in the step that adds an application. `Steady` is about
requests that do not overlap: the copy of the one in flight is as recent as the table (`Fresh`),
so that what its save adds to the history is a way from the stored state to the new one.

**Argument for the ledger.** None of the properties is inductive alone: `LedgerBalances` says
nothing of how much was captured in `DepositHeld`, so a balance could overshoot; and
`RefsBookedOnce` says nothing of a transfer id that a ruling might bring in a second time. The
inductive invariant is `IInv == TypeOK /\ StateStory /\ RefStory /\ RefsBookedOnce /\
ReleaseIsWhole`. `StateStory` ties each state to the balances it stands for (captured is 0, the
deposit or the price; nothing has left before a release, refund or dispute; a closed escrow is
empty). `RefStory` says which ids a ledger can name: a payout id only once the escrow has its
transfer, a ruling's only once it is closed. There is one lemma per call, and each shows both
`IInv'` and that the step is a step or a stutter of `Vault`; `NextStep` collects them, and the
theorems combine them in temporal steps. Lemmas about `Post` and about appending a row come
first.

**Argument for the outbox.** The invariant has two halves. `Writing` is about the requests and
the table they fill: a unit of work has no committed row and no change until it is done, and
then its rows are all it has inserted (`Whole`); a row committed by anyone is about a change
that is (`Told`). `Relaying` is about the passes: they hold disjoint rows, none of them marked
(`Apart`, `Pass`), and a row some handler has returned on is marked, about to be, or spoiled
(`Accounted`) - which is why a row that is handed over twice has been spoiled. The relays write
nothing of the first half and the requests only add to the table the second one reads
(`RelaysDoNotWrite`, `TableGrows`), so each action has to be shown to keep one half. For the
refinement a request's step is a change or a stutter, because the rows told of are committed and
never altered, and a round of handlers is `Tell`.

Order is a matter of the ids (`Calm`). While passes do not overlap and nothing is lost, a row
that is marked comes before every row of the same request that is not, and so does a row a pass
has locked before one it left; within a pass those done come before those left. A row committed
later has a higher id than the rows of its request committed before it, because whoever saves
without a unit of work commits each insert at once (`AtOnce`).

**Argument for the sessions.** The invariant has two halves. `Typed`, `Registered` and
`Verified` hold however requests overlap: whatever a request or a token stands for has a row
behind it, and a request that is about to hand out the `mfa` claim has raised the level first;
since levels may fall under overlap only to `phone_verified`, never below, `MfaMeansVerified`
follows. The others are about requests that do not overlap. `OneAtATime`: at most one worker is
busy; then every step that writes the account is that worker's own or is `Quiet`. `Raises`: a
code check that is about to write the level still finds `unverified` stored. `KeepsLock`: a
login at its password found no lock, and any other copy about to be put back has the lock of the
row. `Spending`: a code that was answered is neither stored nor in any request (`Dead`), and one
in hand is no longer stored. `Advance` says where a request at an await can go on to, and is
what the lemmas of each part split on.

**Argument for the profiles.** The readers take several statements, between which any save may
come. No step deletes a row, takes an account away or makes a vendor unready (`Kept`), so what a
request has found out (`Sound`) stays true while it waits: the page it found was public and its
text is in the history; the vendors it joined can be paid. `Tables` ties `published` to the last
decision: a save leaves the column as it is stored, not as it was when the save read the row.
For the refinement, each vendor's row and links make up one entry of the map of `ProfileStore`;
only `PutCrew`, `SetPublished` and `LinkStripeAccount` change it, and each is the operation of
its name.

A shortlist and the waves are lists made with `CHOOSE` from the rank of a candidate, the number
of those before it. They mean something only if every rank is taken by exactly one candidate:
`RanksFill` proves it by counting, for any order that is total and strict on a finite set:
different candidates have different ranks, and there are as many ranks as candidates;
`PlacesAreRanks` says what `RankCandidates` returns. The waves are then consecutive stretches of
that list (`CutsAre`, `PlacesInWaves`), and an earlier stretch holds better scores.

**Argument for the limiter.** What has been let through and what the bucket would still pay for
have to be counted together: `Room` says that both are within `(1 + restarts)` buckets and the
refill of the time that has passed. A spend moves cost from one to the other; a tick adds the
same to both sides; an expired bucket was full again, by the choice of `Ttl`; a clock set back
only lowers the level, and each second it is set forward adds one second's refill, as a tick
does. `Intake` leaves these numbers to the limiter (`OnlyTheLimiterSpends`), so its budget is
the limiter's.

**Argument for the venue.** `DraftIsRecent` allows an answer that was corrected at most one time
to live and one fetch ago. The invariant `Timely` dates every answer by when it was asked for:
the service answers with what is correct then, so an answer in a request that waits was asked
for before the correction, and the request waits no longer than `Timeout`; an entry of the cache
was filled by such a request, and expires `CacheTtl` after that, however often it is read
(`TouchedKeeps`: a hit moves it to the end and leaves its age alone). The lemmas about the cache
also say that it holds a key once (`Mapping`), without which removing a key would leave an older
answer behind.

**Argument for the connections.** What a statement returns depends on the connection it runs on,
so the invariant follows connections and not requests: whatever waits in a pool is an arrived
request that the pool is for (`Waits`), a connection on loan is of its borrower's pool and its
setting is the borrower's or nobody's (`Lent`), and one that is not has none (`AtRest`). An
arrived request keeps its actor.

**Only model-checked:** `DepositLocksBooking`, `EveryoneIsAnswered` and the liveness half of
`KeepsPromise`, for liveness and `ENABLED` are out of the prover's reach; `WavesFollowRank` of
`Intake`, whose core, that the waves follow the matches for any candidates, is
`WavesFollowMatches` (what is left is that `Publish` takes its point and lineup from the model's
sets, and that only a race announces a gig twice); `LedgerFolds` (three rows),
`RetriesOnlyUndecided` and `WaitIsEnough`, which are about operators alone and which TLC
evaluates.

## 6 What is left out, and why

*Inside the modelled part.* In `Booking` and `GigRecords` users and vendor profiles are read and
do not change; events, the gig's history and its other columns are left out of `Booking`, since
its handlers write them and never read them back, except `escrowId`, which follows `row`. There,
an admin sees every row, as in the memory store, so as to check what the handlers would do with
it (section 4). The scheduler is honest: it calls for gigs it found in `DeliveryPending`, some
time later. The 72 hours and the webhook's signature are not modelled. `TransitionAllowed` is
checked at `SaveGig`, right before the state is written, on the gig the request read earlier; a
transition request whose edge does not exist is not started, for it changes nothing.
`booking_payouts` runs no webhooks: its captures were booked before. In `GigRecords` a brief is
complete, a vendor has a profile that fits, and an escrow is only its vendor, its deposit and
whether it is disputed; refunds, rulings and releases are `Booking`'s. In `Outbox` a subscriber
has subscribed before the first event and to every topic, a handler's effect is that it has
returned, and a pass that finds nothing to do is not a step. In `Sessions` passwords, codes and
tokens are right or wrong and requests the limiter refuses are left out; access tokens expire,
but a refresh token outlives the model. In `Profiles` a text is the number of its save. In
`Intake` all requests are of one identity and the map is a line; what a publication does to the
gig's row is `GigRecords`' and to the outbox `Outbox`'s. In `Connections` a policed table has
one row per user.

Requests that pass because Redis does not answer are steps of the model but are not counted
against the limit.

*Not modelled:* rounding of floating-point numbers (the scores, distances and fees are exact
integers here; a score may differ by a point of a hundred where the code rounds several times);
host and creator profiles, which are plain upserts; reads and listings of gigs, applications and
escrows, which change nothing; the notification tables; path matching, body parsing and the
parsing of addresses; signatures, hashing and token bytes; the in-memory repositories other than
that of profiles, and the other test doubles, which production never starts with
(`StartsLiveOrNot`); and the web application, which renders pages and calls the API.

## 7 Plan

1. *Done.* `Vault`, `Escrow`, `EscrowLedger` and its proofs; `GigLifecycle`; `Booking` with its
   runs; `GigRecords` and its proofs; `Announcements`, `Outbox` and its proofs.
2. *Done.* `Sessions`, `Connections` with `Deployment`, `RateLimiter` and `Intake`, each with
   its proofs; `Quotes` and its proofs; `Matching`, `Profiles` with `ProfileStore`,
   `GeocodeCache`, `Enquiry`, `StripeErrors`.
3. *Done.* Proofs about `Booking`: its safety properties for any set of requests and any quote.
4. *Done.* The remaining properties of `GigRecords` and `Outbox`, from invariants beside the
   ones there were.
5. *Done.* Proofs about `Profiles`, `Matching` and the venue of `Intake`.
6. `WavesFollowRank` as a theorem: the ranking lemmas where `IntakeProofs` can cite them, and
   that the point of a draft is one of the model's.
7. `LedgerFolds` for every length, by the induction that `BookingProofs` uses for `Load`.
8. The property that relates the escrow's row and the gig's after a cancellation, a dispute or a
   release (hazards without a property in `PROJECT.json`): no relation holds of the code as it
   is.
