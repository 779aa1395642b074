------------------------------- MODULE Locks -------------------------------
(***************************************************************************)
(* Real-time locks as the programs of LockPrograms use them.  A workload   *)
(* is one lock test, run by the test process and the child it forks, or    *)
(* several rtspin with -X on one semaphore.  The kernel is not part of the *)
(* repository: object descriptors and locks are modelled by the rules that *)
(* the tests insist on, without processors and priorities.                 *)
(***************************************************************************)
EXTENDS LockPrograms, FiniteSets

CONSTANTS
  Spinners,  \* how many rtspin share a semaphore
  MaxOd      \* object descriptors are 0..MaxOd

ASSUME LocksAssumption == Spinners \in Nat /\ Spinners >= 2 /\ MaxOd \in Nat

Actor == 1..Spinners     \* in a test, 1 is the test and 2 its child

VARIABLES
  plugin,    \* the active plugin
  program,   \* program[a]: the calls of actor a
  at,        \* at[a]: the position of its next call
  status,    \* "unborn", "running", "ended", "failed" (saw an answer it did not
             \* expect), "killed"
  realtime,  \* the actors in real-time mode
  table,     \* table[a][od]: the object that a's descriptor od refers to
  owner      \* owner[o]: who holds object o, 0 for nobody

vars == <<plugin, program, at, status, realtime, table, owner>>

Protocol == {"FMLP", "SRP", "MPCP", "MPCP_VS", "DPCP", "PCP", "DFLP"}
Object == Protocol \X {0, 1}

TypeOK ==
  /\ plugin \in Plugin
  /\ \A a \in Actor : at[a] \in 1..Len(program[a]) + 1
  /\ status \in [Actor -> {"unborn", "running", "ended", "failed", "killed"}]
  /\ realtime \subseteq Actor
  /\ table \in [Actor -> [0..MaxOd -> Object \cup {NoObject}]]
  /\ owner \in [Object -> Actor \cup {0}]
  /\ \A a \in realtime : status[a] = "running"
  /\ \A o \in Object : owner[o] # 0 => status[owner[o]] = "running"

Spinning == \E p \in Protocol : program = [a \in Actor |-> RtSpin(p)]

Init ==
  /\ plugin \in Plugin
  /\ \/ \E t \in {u \in Tests : plugin \in u.plugins} :
          /\ program = [a \in Actor |-> IF a <= 2 THEN t.programs[a] ELSE <<>>]
          /\ status = [a \in Actor |-> IF a = 1 THEN "running" ELSE "unborn"]
     \/ \E p \in Protocol :
          /\ program = [a \in Actor |-> RtSpin(p)]
          /\ status = [a \in Actor |-> "running"]
  /\ at = [a \in Actor |-> 1]
  /\ realtime = {}
  /\ table = [a \in Actor |-> [od \in 0..MaxOd |-> NoObject]]
  /\ owner = [o \in Object |-> 0]

-----------------------------------------------------------------------------
(* The kernel's rules.                                                     *)

Supported(p) ==
  CASE plugin = "P_FP" -> p \in Protocol
    [] plugin = "PSN_EDF" -> p \in {"FMLP", "SRP"}
    [] plugin = "GSN_EDF" -> p = "FMLP"
    [] OTHER -> FALSE

Holds(a) == {o \in Object : owner[o] = a}

\* Which locks a holder of o may take: SRP and PCP nest with themselves.  In the
\* variant every protocol nests with itself.
MayNest_Same(o, q) == o[1] = q[1]
MayNest(o, q) == o[1] = q[1] /\ o[1] \in {"SRP", "PCP"}

ObjectOf(a, od) == IF od \in 0..MaxOd THEN table[a][od] ELSE NoObject

AnswerOpen(a, o) ==
  CASE o[1] \notin Protocol -> "EINVAL"
    [] o[1] \in Protocol /\ ~Supported(o[1]) -> "ENXIO"
    [] Supported(o[1]) /\ o[1] # "FMLP" /\ a \notin realtime -> "EPERM"
    [] OTHER -> "ok"

\* Nobody asks this while the lock is another's: litmus_lock() blocks then.
AnswerLock(a, od) ==
  CASE ObjectOf(a, od) = NoObject -> "EINVAL"
    [] ObjectOf(a, od) # NoObject /\ a \notin realtime -> "EPERM"
    [] ObjectOf(a, od) # NoObject /\ a \in realtime
         /\ \E o \in Holds(a) : ~MayNest(o, ObjectOf(a, od)) -> "EBUSY"
    [] OTHER -> "ok"

AnswerUnlock(a, od) ==
  IF ObjectOf(a, od) # NoObject /\ owner[ObjectOf(a, od)] = a THEN "ok" ELSE "EINVAL"

-----------------------------------------------------------------------------
(* Calls.                                                                  *)

Current(a) == program[a][at[a]]
Calls(a, c) ==
  /\ status[a] = "running" /\ at[a] <= Len(program[a]) /\ Current(a).call = c

\* exit(), and death: descriptors are closed and locks released.  In the
\* variant locks stay with the dead.
Gone_KeepsLocks(a, s) ==
  /\ status' = [status EXCEPT ![a] = s]
  /\ realtime' = realtime \ {a}
  /\ table' = [table EXCEPT ![a] = [od \in 0..MaxOd |-> NoObject]]
  /\ UNCHANGED owner
Gone(a, s) ==
  /\ status' = [status EXCEPT ![a] = s]
  /\ realtime' = realtime \ {a}
  /\ table' = [table EXCEPT ![a] = [od \in 0..MaxOd |-> NoObject]]
  /\ owner' = [o \in Object |-> IF owner[o] = a THEN 0 ELSE owner[o]]

\* The answer is what the program insists on, or it does not look.
Accepted(a, answer) == Current(a).expect \in {answer, "any"}

Advance(a) == at' = [at EXCEPT ![a] = @ + 1] /\ UNCHANGED <<plugin, program>>

\* fail(): exit(200).
Fail(a, answer) ==
  /\ ~Accepted(a, answer)
  /\ Gone(a, "failed")
  /\ UNCHANGED <<plugin, program, at>>

\* open_*_sem(), litmus_open_lock(): the lowest free descriptor.
OpenLock(a) ==
  /\ Calls(a, "open")
  /\ LET o == Current(a).object
         free == {od \in 0..MaxOd : table[a][od] = NoObject}
         od == CHOOSE i \in free : \A j \in free : i <= j
     IN \/ /\ AnswerOpen(a, o) = "ok" /\ Accepted(a, "ok") /\ Advance(a)
           /\ table' = [table EXCEPT ![a][od] = o]
           /\ UNCHANGED <<status, realtime, owner>>
        \/ /\ AnswerOpen(a, o) # "ok" /\ Accepted(a, AnswerOpen(a, o)) /\ Advance(a)
           /\ UNCHANGED <<status, realtime, table, owner>>
        \/ Fail(a, AnswerOpen(a, o))

LitmusLock(a) ==
  /\ Calls(a, "lock")
  /\ LET answer == AnswerLock(a, Current(a).od)
         o == ObjectOf(a, Current(a).od)
     IN /\ answer = "ok" => owner[o] = 0
        /\ \/ /\ Accepted(a, answer) /\ Advance(a)
              /\ owner' = IF answer = "ok" THEN [owner EXCEPT ![o] = a] ELSE owner
              /\ UNCHANGED <<status, realtime, table>>
           \/ Fail(a, answer)

LitmusUnlock(a) ==
  /\ Calls(a, "unlock")
  /\ LET answer == AnswerUnlock(a, Current(a).od)
         o == ObjectOf(a, Current(a).od)
     IN \/ /\ Accepted(a, answer) /\ Advance(a)
           /\ owner' = IF answer = "ok" THEN [owner EXCEPT ![o] = 0] ELSE owner
           /\ UNCHANGED <<status, realtime, table>>
        \/ Fail(a, answer)

OdClose(a) ==
  /\ Calls(a, "close")
  /\ LET od == Current(a).od
         answer == IF ObjectOf(a, od) = NoObject THEN "EINVAL" ELSE "ok"
     IN \/ /\ Accepted(a, answer) /\ Advance(a)
           /\ table' = IF answer = "ok" THEN [table EXCEPT ![a][od] = NoObject] ELSE table
           /\ UNCHANGED <<status, realtime, owner>>
        \/ Fail(a, answer)

\* task_mode(): locks stay held.
TaskMode(a) ==
  /\ \/ Calls(a, "rt") /\ realtime' = realtime \cup {a}
     \/ Calls(a, "background") /\ realtime' = realtime \ {a}
  /\ Advance(a)
  /\ UNCHANGED <<status, table, owner>>

\* The child starts with an empty table, whatever its parent has open.
Fork(a) ==
  /\ Calls(a, "fork")
  /\ status' = [status EXCEPT ![2] = "running"]
  /\ Advance(a)
  /\ UNCHANGED <<realtime, table, owner>>

\* Blocks until the child is gone, and asserts that it exited with 0.
Waitpid(a) ==
  /\ Calls(a, "waitpid") /\ status[2] \in {"ended", "failed", "killed"}
  /\ LET answer == IF status[2] = "ended" THEN "ok" ELSE "child failed"
     IN \/ Accepted(a, answer) /\ Advance(a) /\ UNCHANGED <<status, realtime, table, owner>>
        \/ Fail(a, answer)

\* The critical section of rtspin's job.
LoopFor(a) ==
  /\ Calls(a, "critical")
  /\ Advance(a)
  /\ UNCHANGED <<status, realtime, table, owner>>

Exit(a) ==
  /\ status[a] = "running" /\ at[a] = Len(program[a]) + 1
  /\ Gone(a, "ended")
  /\ UNCHANGED <<plugin, program, at>>

\* A spinner is interrupted, wherever it is.
Kill(a) ==
  /\ Spinning /\ status[a] = "running"
  /\ Gone(a, "killed")
  /\ UNCHANGED <<plugin, program, at>>

-----------------------------------------------------------------------------
ActorStep(a) ==
  \/ OpenLock(a) \/ LitmusLock(a) \/ LitmusUnlock(a) \/ OdClose(a)
  \/ TaskMode(a) \/ Fork(a) \/ Waitpid(a) \/ LoopFor(a) \/ Exit(a)

Next == \E a \in Actor : ActorStep(a) \/ Kill(a)

Spec == Init /\ [][Next]_vars

\* Programs run; a lock that is released again and again is granted to each
\* waiter in the end (the protocols' queues); nothing makes a signal arrive.
FairSpec ==
  /\ Spec
  /\ \A a \in Actor : WF_vars(ActorStep(a)) /\ SF_vars(LitmusLock(a))

-----------------------------------------------------------------------------
(* Properties.                                                             *)

\* One set of rules answers every test as the test insists: no test of
\* src/tests contradicts another, under any plugin it is listed for.
TestsPass == ~Spinning => \A a \in Actor : status[a] # "failed"

\* Critical sections exclude, also when their tasks are killed in them.
Exclusion ==
  \A a, b \in Actor : Calls(a, "critical") /\ Calls(b, "critical") => a = b

\* No lock that rtspin asks for is refused, wherever the others are or were
\* killed: it does not look at the answer (rtspin.c, job()), and would run its
\* critical section without the lock.
NeverRefused ==
  Spinning => \A a \in Actor : Calls(a, "lock") => AnswerLock(a, Current(a).od) = "ok"

\* Whoever comes to the end of its program has given back every lock it took,
\* though it may have stopped being real-time while it held one.
NoLockAtExit ==
  \A a \in Actor : status[a] = "running" /\ at[a] = Len(program[a]) + 1 => Holds(a) = {}

\* The invariant: the variables keep their types, rtspin gets its lock, critical
\* sections exclude, and nobody keeps a lock.
LocksInv == TypeOK /\ NeverRefused /\ Exclusion /\ NoLockAtExit

\* Nobody waits for ever, for a lock of a task that was killed in its critical
\* section or for a child.
EverybodyEnds == <>(\A a \in Actor : status[a] # "running")
=============================================================================
