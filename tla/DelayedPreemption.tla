-------------------------- MODULE DelayedPreemption --------------------------
(***************************************************************************)
(* What liblitmus promises of non-preemptive sections, without control     *)
(* pages, store buffers or instructions.  One processor runs a set of      *)
(* tasks.  A task inside a section keeps the processor; a preemption that  *)
(* falls due meanwhile is owed, and the task hands the processor over      *)
(* before it leaves the section.                                           *)
(***************************************************************************)
CONSTANTS Task,   \* tasks that share the processor
          Idle    \* the processor runs none of them

VARIABLES running,   \* the task that has the processor, or Idle
          mode,      \* mode[t]: "out" of, "in", or "closing" a section
          owed       \* tasks whose preemption was delayed and is still due

vars == <<running, mode, owed>>

Init ==
  /\ running = Idle
  /\ mode = [t \in Task |-> "out"]
  /\ owed = {}

\* An outermost section begins: only a task that owes nothing is "out".
Begin(t) ==
  /\ running = t /\ mode[t] = "out"
  /\ mode' = [mode EXCEPT ![t] = "in"]
  /\ UNCHANGED <<running, owed>>

\* The section is given up; a last look for delayed preemptions follows.
Close(t) ==
  /\ running = t /\ mode[t] = "in"
  /\ mode' = [mode EXCEPT ![t] = "closing"]
  /\ UNCHANGED <<running, owed>>

\* The look found nothing: a task never leaves with a preemption due.
Leave(t) ==
  /\ running = t /\ mode[t] = "closing" /\ t \notin owed
  /\ mode' = [mode EXCEPT ![t] = "out"]
  /\ UNCHANGED <<running, owed>>

\* A preemption falls due while the section is, or seems, open.
Delay(t) ==
  /\ running = t /\ mode[t] # "out"
  /\ owed' = owed \cup {t}
  /\ UNCHANGED <<running, mode>>

\* The processor goes to next: never away from a task inside a section.
Preempt(next) ==
  /\ running # Idle => mode[running] # "in"
  /\ running' = next
  /\ owed' = owed \ {running}
  /\ UNCHANGED mode

\* The task hands the processor over itself and so leaves its section.
Yield(t, next) ==
  /\ running = t /\ mode[t] = "closing"
  /\ mode' = [mode EXCEPT ![t] = "out"]
  /\ running' = next
  /\ owed' = owed \ {t}

Next ==
  \/ \E t \in Task : Begin(t) \/ Close(t) \/ Leave(t) \/ Delay(t)
  \/ \E next \in Task \cup {Idle} : Preempt(next)
  \/ \E t \in Task, next \in Task \cup {Idle} : Yield(t, next)

Spec == Init /\ [][Next]_vars
=============================================================================
