------------------------------ MODULE UnitPool ------------------------------
(***************************************************************************)
(* What base::for_each promises its callers, with nothing said of threads, *)
(* slices or counters: every unit is run once, from start to end, and the  *)
(* call returns only when all of them have been.                           *)
(***************************************************************************)
CONSTANT Units

VARIABLES
  running,   \* units whose body is executing
  ended,     \* units whose body has returned
  over       \* the call has returned

poolVars == <<running, ended, over>>

Init == running = {} /\ ended = {} /\ over = FALSE

Start(i) ==
  /\ ~over
  /\ i \notin running \cup ended
  /\ running' = running \cup {i}
  /\ UNCHANGED <<ended, over>>

Finish(i) ==
  /\ i \in running
  /\ running' = running \ {i}
  /\ ended' = ended \cup {i}
  /\ UNCHANGED over

Return ==
  /\ ended = Units
  /\ running = {}
  /\ over' = TRUE
  /\ UNCHANGED <<running, ended>>

Next == Return \/ \E i \in Units : Start(i) \/ Finish(i)

Spec == Init /\ [][Next]_poolVars
=============================================================================
