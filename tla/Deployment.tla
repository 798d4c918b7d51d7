----------------------------- MODULE Deployment ------------------------------
(***************************************************************************)
(* What a process of the API is made of.  The environment decides which    *)
(* dependencies it is wired with (app.ts), each with a stand-in for        *)
(* development, and production refuses to start rather than run on one     *)
(* (index.ts and app.ts).  The number of trusted proxies decides whose     *)
(* address a request is counted against (resolveClientIp).                 *)
(***************************************************************************)
EXTENDS Integers, Sequences

CONSTANT Unset    \* TRUSTED_PROXY_HOPS is not set
ASSUME UnsetAssumption == Unset \notin Int

\* An environment: production or not, the variables that are set, the proxies.
Names == {"DESI_NEXUS_TOKEN_SECRET", "DESI_NEXUS_WEBHOOK_SECRET", "STRIPE_API_KEY",
          "REDIS_URL", "DATABASE_URL", "DATABASE_SYSTEM_URL", "GEOCODER_URL"}
Environments(hops) == [production : BOOLEAN, set : SUBSET Names, hops : hops]

\* index.ts: refused before anything is built.
Required == {"DESI_NEXUS_TOKEN_SECRET", "DESI_NEXUS_WEBHOOK_SECRET", "STRIPE_API_KEY",
             "REDIS_URL", "DATABASE_URL"}

-----------------------------------------------------------------------------
\* buildDeps: a dependency is "live", a "stand-in", or "refused".

OrStandIn(env, name) ==
  IF name \in env.set THEN "live" ELSE IF env.production THEN "refused" ELSE "stand-in"

\* The store needs a second login in production, for the paths that belong to no user.
DefaultStore(env) ==
  IF "DATABASE_URL" \in env.set /\ "DATABASE_SYSTEM_URL" \notin env.set /\ env.production
    THEN "refused" ELSE OrStandIn(env, "DATABASE_URL")

\* The bus is the outbox of the store that defaultStore has opened.
DefaultBus(env) ==
  IF DefaultStore(env) = "live" THEN "live"
  ELSE IF env.production THEN "refused" ELSE "stand-in"

DefaultRateLimiter(env) == OrStandIn(env, "REDIS_URL")
DefaultStripeGateway(env) == OrStandIn(env, "STRIPE_API_KEY")
DefaultGeocoder(env) == OrStandIn(env, "GEOCODER_URL")

\* A secret that is not configured is drawn at random, for this process alone.
Secret(env, name) == IF name \in env.set THEN "live" ELSE "stand-in"

BuildDeps(env) ==
  [store |-> DefaultStore(env), bus |-> DefaultBus(env), limiter |-> DefaultRateLimiter(env),
   stripe |-> DefaultStripeGateway(env), geocoder |-> DefaultGeocoder(env),
   tokens |-> Secret(env, "DESI_NEXUS_TOKEN_SECRET"),
   webhooks |-> Secret(env, "DESI_NEXUS_WEBHOOK_SECRET")]

\* trustedProxyHops, read when the module is loaded.
HopsAccepted(env) == IF env.hops = Unset THEN ~env.production ELSE env.hops >= 0
TrustedHops(env) == IF env.hops = Unset THEN 0 ELSE env.hops

Starts(env) ==
  /\ HopsAccepted(env)
  /\ env.production => Required \subseteq env.set
  /\ \A d \in DOMAIN BuildDeps(env) : BuildDeps(env)[d] # "refused"

-----------------------------------------------------------------------------
\* Every proxy appends the address it saw to X-Forwarded-For.

\* resolveClientIp: the entry of the outermost proxy that is ours, counted from the right.
ResolveClientIp(chain, direct, hops) ==
  IF hops <= 0 \/ chain = <<>> THEN direct
  ELSE chain[IF Len(chain) < hops THEN 1 ELSE Len(chain) - hops + 1]

-----------------------------------------------------------------------------
\* What is to hold of them

\* A production process that starts has no stand-in among its dependencies: no gateway that
\* moves no money, no store that forgets, no limit per pod (index.ts:14-24, app.ts).
ProductionIsLive(env) ==
  env.production /\ Starts(env) =>
    \A d \in DOMAIN BuildDeps(env) : BuildDeps(env)[d] = "live"

\* Nothing the client writes can move its address (app.ts:378-381): what stands left of the
\* entries that our proxies have appended makes no difference.
ForgeryIsIgnored(forged, appended, direct, hops) ==
  hops >= 1 /\ Len(appended) >= hops =>
    ResolveClientIp(forged \o appended, direct, hops)
      = ResolveClientIp(appended, direct, hops)
=============================================================================
