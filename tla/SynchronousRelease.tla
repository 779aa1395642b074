------------------------- MODULE SynchronousRelease -------------------------
(***************************************************************************)
(* What a synchronous release of a task system promises (litmus.h: "Used   *)
(* by a task master to release all threads after each of them has been set *)
(* up"): tasks set themselves up and wait; one release starts all that     *)
(* wait, at a time when no task is still setting itself up; tasks may drop *)
(* out on the way, and those that never wait do not take part.             *)
(***************************************************************************)
CONSTANT Task

VARIABLES
  phase,     \* phase[t]: "setup", "waiting", "go", "out"
  released   \* the release has happened

vars == <<phase, released>>

Init ==
  /\ phase \in [Task -> {"setup", "go", "out"}]
  /\ released = FALSE

Arrive(t) ==
  /\ ~released
  /\ phase[t] = "setup"
  /\ phase' = [phase EXCEPT ![t] = "waiting"]
  /\ UNCHANGED released

Drop(t) ==
  /\ phase[t] # "out"
  /\ phase' = [phase EXCEPT ![t] = "out"]
  /\ UNCHANGED released

Release ==
  /\ ~released
  /\ \A t \in Task : phase[t] # "setup"
  /\ phase' = [t \in Task |-> IF phase[t] = "waiting" THEN "go" ELSE phase[t]]
  /\ released' = TRUE

Next == Release \/ \E t \in Task : Arrive(t) \/ Drop(t)

Spec == Init /\ [][Next]_vars
=============================================================================
