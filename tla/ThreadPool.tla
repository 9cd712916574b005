------------------------------ MODULE ThreadPool ------------------------------
(***************************************************************************)
(* What class Threading promises to a program, with no lock in sight: a     *)
(* pool of threads, at most one per id; and a reset, during which no thread *)
(* begins and which is over only when every thread is.                      *)
(***************************************************************************)
CONSTANT Ids

VARIABLES
  alive,     \* the ids that have a thread
  stopping   \* a reset is going on

vars == <<alive, stopping>>

Init == alive = {} /\ stopping = FALSE

Begin(id) ==
  /\ ~stopping
  /\ id \notin alive
  /\ alive' = alive \cup {id}
  /\ UNCHANGED stopping

End(id) ==
  /\ id \in alive
  /\ alive' = alive \ {id}
  /\ UNCHANGED stopping

Stop ==
  /\ ~stopping
  /\ stopping' = TRUE
  /\ UNCHANGED alive

Stopped ==
  /\ stopping
  /\ alive = {}
  /\ stopping' = FALSE
  /\ UNCHANGED alive

Next == Stop \/ Stopped \/ \E id \in Ids : Begin(id) \/ End(id)

Spec == Init /\ [][Next]_vars
=============================================================================
