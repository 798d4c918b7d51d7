---------------------------- MODULE GeocodeCache -----------------------------
(***************************************************************************)
(* The geocoder of POST /v1/gigs, as operators: the cache of one process   *)
(* (infra/geocode/cached.ts), a Map and so a sequence in insertion order,  *)
(* the reading of a Census answer (infra/geocode/census.ts), and the fences*)
(* of domain/geo.ts.  The map is a line here, and a place a number of      *)
(* tenths of a mile on it.                                                 *)
(***************************************************************************)
EXTENDS Integers, Sequences, FiniteSets

CONSTANT Metros    \* SERVICE_METROS: a set of [center, radius]

Distance(a, b) == IF a <= b THEN b - a ELSE a - b

\* withinPilotFootprint: inside the fence of the nearest metro.
WithinPilotFootprint(point) ==
  \E m \in Metros :
    /\ \A n \in Metros : Distance(point, m.center) <= Distance(point, n.center)
    /\ Distance(point, m.center) <= m.radius

\* estimatedRoadMiles, rounded to a tenth.
RoadMiles(a, b) == (118 * Distance(a, b) + 50) \div 100

-----------------------------------------------------------------------------
\* An answer of the service is a sequence of matches [readable, point].

SamePlace == 1    \* SAME_PLACE_MILES

\* parseCensusResponse: the code of the failure, or the point of the first match if every
\* other one is the same building.
ParseCensusResponse(matches) ==
  LET parsed == SelectSeq(matches, LAMBDA m : m.readable)
      Failure(code) == [ok |-> FALSE, code |-> code]
  IN IF matches = <<>> THEN Failure("not_found")
     ELSE IF parsed = <<>> THEN Failure("unavailable")
     ELSE IF \E i \in DOMAIN parsed : Distance(parsed[1].point, parsed[i].point) > SamePlace
       THEN Failure("ambiguous")
       ELSE [ok |-> TRUE, point |-> parsed[1].point]

-----------------------------------------------------------------------------
\* A cache is a sequence of entries [key, point, version, expiresAt].

CachedMut(cache, key, now) ==    \* mutant: an entry is good for ever
  \E i \in DOMAIN cache : cache[i].key = key

Cached(cache, key, now) ==
  \E i \in DOMAIN cache : cache[i].key = key /\ cache[i].expiresAt > now

EntryOf(cache, key) == cache[CHOOSE i \in DOMAIN cache : cache[i].key = key]

\* Map.delete: a key is there once at most.
Without(cache, key) ==
  LET place == {i \in DOMAIN cache : cache[i].key = key}
      k == CHOOSE i \in place : TRUE
  IN IF place = {}
       THEN cache
       ELSE [i \in 1 .. Len(cache) - 1 |-> IF i < k THEN cache[i] ELSE cache[i + 1]]

\* A hit is inserted again, at the end, as it was.
Touched(cache, key) == Append(Without(cache, key), EntryOf(cache, key))

\* Map.set keeps the place of a key that is there; the first entries go while there are
\* more than max.
Stored(cache, entry, max) ==
  LET present == \E i \in DOMAIN cache : cache[i].key = entry.key
      set == IF present
               THEN [i \in DOMAIN cache |-> IF cache[i].key = entry.key THEN entry ELSE cache[i]]
               ELSE Append(cache, entry)
  IN IF Len(set) > max THEN SubSeq(set, Len(set) - max + 1, Len(set)) ELSE set
=============================================================================
