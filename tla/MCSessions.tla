----------------------------- MODULE MCSessions -----------------------------
(***************************************************************************)
(* Sessions for TLC: an account locks at the second wrong password; a lock *)
(* lasts one tick, and a code is good within the tick it was sent in.      *)
(***************************************************************************)
EXTENDS Sessions, TLC

\* A body that is accepted, and six that are not, each for a reason of its own.
Good == [email |-> TRUE, phone |-> TRUE, displayName |-> 2, roles |-> {"host", "crew"},
         homeBase |-> TRUE, languages |-> {"telugu"},
         password |-> [length |-> 12, common |-> FALSE]]
MCRegistrations ==
  {Good,
   [Good EXCEPT !.phone = FALSE], [Good EXCEPT !.displayName = 1],
   [Good EXCEPT !.roles = {"host", "admin"}], [Good EXCEPT !.homeBase = FALSE],
   [Good EXCEPT !.languages = {"klingon"}], [Good EXCEPT !.password.common = TRUE]}

WorkerSymmetry == Permutations(Workers)
=============================================================================
