------------------------------ MODULE MCIntake -------------------------------
(***************************************************************************)
(* Intake for TLC: one process with two requests, limits of one request,   *)
(* an address that the service stops to tell apart, one outside the fence *)
(* of its nearest metro, one without a number, and eighteen vendors,       *)
(* enough for a third wave.                                                *)
(***************************************************************************)
EXTENDS Intake, TLC

MCPodOf == [w \in Workers |-> "pod"]
MCCapacity == [p \in Policies |-> 1]
MCCost == [p \in Policies |-> IF p = "default" THEN 1 ELSE 2]
MCRefill == [p \in Policies |-> 1]

MCMetros == {[center |-> 0, radius |-> 200], [center |-> 600, radius |-> 400]}
Match(x) == [readable |-> TRUE, point |-> x]
Unreadable == [readable |-> FALSE, point |-> 0]
MCCensus == [hall |-> << <<Unreadable, Match(50), Match(51)>>, <<Match(50), Match(250)>> >>,
             club |-> << <<Match(250)>>, <<Match(250)>> >>,
             frisco |-> << <<>>, <<>> >>]

MCEventGroups == {{"sangeet", "mehndi"}, {"reception"}}
Vendor(n) ==
  [id |-> n, specialties |-> {"mua"}, unavailable |-> {}, home |-> 100 * n, miles |-> 0,
   policy |-> [DefaultTravelPolicy EXCEPT !.max = 1800], rate |-> 100 + 8 * n,
   payoutReady |-> n # 2,
   events |-> IF n % 4 = 0 THEN NotSaid ELSE [e \in {"mehndi"} |-> n],
   tags |-> {"tamil"}, languages |-> IF n % 2 = 0 THEN {"hindi"} ELSE {},
   proximity |-> 10000 - 500 * n, reputation |-> 8000, responsiveness |-> 5000]
MCLineups == [all |-> {Vendor(n) : n \in 1 .. 18}]
MCBrief == [specialty |-> "mua", eventType |-> "sangeet", eventDate |-> 1,
            tags |-> {"telugu"}, languages |-> {"hindi", "telugu"},
            budgetMin |-> 100, budgetMax |-> 230]

\* Forms of a gig: addresses, coordinates with a budget whose ends are swapped, and an
\* unknown specialty.
Form(address) ==
  [address |-> address, venue |-> Absent, known |-> TRUE, dated |-> TRUE, min |-> 1, max |-> 2]
MCForms ==
  {Form("hall"), Form("club"), Form("frisco"),
   [Form("hall") EXCEPT !.venue = 50, !.min = 3], [Form("hall") EXCEPT !.known = FALSE]}

\* The body of an enquiry.  One that is refused leaves no trace; which are refused, and by
\* whom, is asked of every body below.
Text(n) == [units |-> n, chars |-> n]
Emoji == [units |-> 2, chars |-> 1]
Good == [website |-> Text(0), name |-> Text(5), email |-> TRUE, phone |-> Text(0),
         message |-> Text(10), source |-> Absent, date |-> "real",
         eventType |-> "unknown", metroCode |-> "known"]
MCBodies == {Good}

\* What the table takes of what the service accepts: see Enquiry.
ASSUME
  \A input \in Inputs({Text(0), Text(7), Text(4001), Emoji}) :
    TheTwoAgree(input)

\* The limiter of one process: see RateLimiter.
ASSUME
  \A p \in Policies, tokens \in 0 .. 4, ts, time, later \in 0 .. 4 :
    LET stored == [tokens |-> tokens, ts |-> ts]
    IN tokens <= Full(p) => /\ SweepIsHarmless(p, stored, time, later)
                            /\ time >= ts => WaitIsEnough(p, stored, time)

WorkerSymmetry == Permutations(Workers)
=============================================================================
