--------------------------- MODULE Announcements ---------------------------
(***************************************************************************)
(* What the outbox promises: a subscriber is told only of what has really  *)
(* happened, and of what was announced with its change it is told sooner   *)
(* or later.  No tables, no relays, no crashes.                            *)
(***************************************************************************)
CONSTANTS
  Changes,          \* changes of state that are made known
  Events,           \* what there is to tell of them
  About,            \* a function: the change an event is about
  Subscribers,
  Sure              \* pairs of a subscriber and an event it is bound to hear of

VARIABLES
  changed,          \* the changes that have happened
  told              \* pairs of a subscriber and an event it has been told of

vars == <<changed, told>>

Init == changed = {} /\ told = {}

Change(c) ==
  /\ c \notin changed
  /\ changed' = changed \cup {c}
  /\ UNCHANGED told

\* Tells some subscribers of an event, possibly not for the first time.
Tell(S, e) ==
  /\ About[e] \in changed
  /\ told' = told \cup (S \X {e})
  /\ UNCHANGED changed

Next ==
  \/ \E c \in Changes : Change(c)
  \/ \E S \in SUBSET Subscribers, e \in Events : Tell(S, e)

Safe == Init /\ [][Next]_vars

Spec == Safe /\ \A s \in Subscribers, e \in Events :
                  <<s, e>> \in Sure => WF_vars(Tell({s}, e))
=============================================================================
