---------------------------- MODULE MCGigRecords ----------------------------
(***************************************************************************)
(* GigRecords for TLC.                                                     *)
(***************************************************************************)
EXTENDS GigRecords, TLC

\* Requests that can be swapped, and applicants that can.
RecordsSymmetry == Permutations(Workers) \cup Permutations(Vendors)
=============================================================================
