--------------------------- MODULE PriorityTests ---------------------------
(***************************************************************************)
(* The tests that are about priorities: preempt_on_resume (tests/sched.c), *)
(* pcp_inheritance, srp_ceiling_blocking and lock_dpcp_pcp (tests/pcp.c),  *)
(* from their synchronous release on.  Their children compete for          *)
(* processors and locks under the rules of the kernel, which is not part   *)
(* of the repository: the highest priority runs, and the locking protocols *)
(* are those the tests are named for.  Time is counted in ticks of 25 ms,  *)
(* and what a child does between two loops takes none.                     *)
(***************************************************************************)
EXTENDS Integers, Sequences, FiniteSets

CONSTANTS
  Jitter,    \* by how many ticks a loop or a sleep may be longer than asked for
  Wrap,      \* lt_t counts modulo this
  Release    \* when the task system is released, on the kernel's clock

ASSUME PriorityAssumption ==
  Jitter \in Nat /\ Wrap \in Nat \ {0} /\ Release \in 0..Wrap - 1

-----------------------------------------------------------------------------
(* The tests: what each child does once it is released.                    *)

Step(does, n, what) == <<[does |-> does, n |-> n, what |-> what]>>

Work(n) == Step("work", n, "")             \* while (cputime() - start < ...)
Sleep(n) == Step("sleep", n, "")           \* lt_sleep()
NextPeriod(n) == Step("period", n, "")     \* sleep_next_period(), n: the period
LitmusLock(l) == Step("lock", 0, l)
LitmusUnlock(l) == Step("unlock", 0, l)
Start == Step("start", 0, "")              \* start = wctime()
Stop == Step("stop", 0, "")                \* stop = wctime()
Read(what) == Step("read", 0, what)        \* cpu = sched_getcpu(), preempted = *mutex
SetMutex == Step("set", 0, "")             \* *mutex = 1
AssertRead(n) == Step("same", n, "")       \* ASSERT on the value read
AssertMore(n) == Step("more", n, "")       \* ASSERT( stop - start > ... )
AssertLess(n) == Step("less", n, "")       \* ASSERT( stop - start < ... )
Kill(t) == Step("kill", 0, t)              \* kill(child, SIGUSR2)

Second == 40
Highest == 1
Middle == Highest + 1
Lowest == 511

\* A child: its processor, its priority, its phase, its calls.  The deadline is
\* the one of init_rt_task_param(), 0.
Child(cpu, priority, phase, program) ==
  [cpu |-> cpu, priority |-> priority, phase |-> phase, program |-> program,
   relative_deadline |-> 0]

\* params.relative_deadline -= n, of an unsigned 0.  The variant adds n to the
\* period.
Earlier_Later(child, n) == [child EXCEPT !.relative_deadline = 100 * Second + n]
Earlier(child, n) == [child EXCEPT !.relative_deadline = (@ - n) % Wrap]

\* The variant does not kill lo.
KillBoth_MidOnly == Kill("mid")
KillBoth == Kill("mid") \o Kill("lo")

\* lo's critical section.
Section(l) == LitmusLock(l) \o Work(10) \o LitmusUnlock(l)

\* hi measures how long it waits for the lock, and then kills the others.  The
\* variant kills them first.
Measured_KillFirst(l, asserts) ==
  KillBoth \o Start \o LitmusLock(l) \o LitmusUnlock(l) \o Stop \o asserts
Measured(l, asserts) ==
  Start \o LitmusLock(l) \o LitmusUnlock(l) \o Stop \o asserts \o KillBoth

preempt_on_resume ==
  [lo |-> Child(0, Lowest, 0, Work(10 * Second)),
   hi |-> Earlier(Child(0, Highest, 0, Work(4) \o Start \o Sleep(4) \o Stop
                                          \o Kill("lo") \o AssertLess(8)), 1)]

pcp_inheritance ==
  [lo |-> Child(0, Lowest, 0, Section("PCP") \o NextPeriod(100 * Second)),
   mid |-> Child(0, Middle, 4, Work(5 * Second) \o NextPeriod(100 * Second)),
   hi |-> Child(0, Highest, 2, Measured("PCP", AssertMore(4) \o AssertLess(Second)))]

\* Less than 10 ms: not a tick.
srp_ceiling_blocking ==
  [lo |-> Child(0, Lowest, 0, Section("SRP")),
   mid |-> Earlier(Child(0, Middle, 4, Work(5 * Second)), 5),
   hi |-> Earlier(Child(0, Highest, 2, Measured("SRP", AssertLess(1))), 8)]

lock_dpcp_pcp ==
  [lo |-> Child(1, Lowest, 2, LitmusLock("DPCP") \o Read("cpu") \o SetMutex
                                \o LitmusUnlock("DPCP") \o AssertRead(0) \o NextPeriod(12)),
   hi |-> Child(0, Highest, 0, LitmusLock("PCP") \o Work(10) \o Read("mutex")
                                \o LitmusUnlock("PCP") \o AssertRead(1) \o Kill("lo"))]

\* The plugins they are for.
Tests == [P_FP |-> {preempt_on_resume, pcp_inheritance, srp_ceiling_blocking, lock_dpcp_pcp},
          PSN_EDF |-> {preempt_on_resume, srp_ceiling_blocking}]

-----------------------------------------------------------------------------
Cpus == {0, 1}
Locks == {"PCP", "SRP", "DPCP"}
Nobody == "nobody"
Ended == {"exited", "failed", "killed"}

VARIABLES
  plugin,  \* the scheduler: fixed priorities or earliest deadline first
  test,    \* the children of the test
  now,     \* the time since the release
  state,   \* state[t]: "asleep" (not released, or sleeping), "ready", "blocked"
           \* on a lock, or how it has ended
  at,      \* at[t]: the position of the next call
  left,    \* left[t]: the ticks that remain of the loop t is in
  wake,    \* wake[t]: when t wakes up
  cpu,     \* cpu[t]: the processor t is on
  owner,   \* owner[l]: who holds the lock
  begun,   \* the children that have run since their release
  clock,   \* what hi has measured: [start, stop]
  read,    \* read[t]: the value t read last
  mutex    \* *mutex of lock_dpcp_pcp

vars == <<plugin, test, now, state, at, left, wake, cpu, owner, begun, clock, read, mutex>>

Children == DOMAIN test

TypeOK ==
  /\ plugin \in DOMAIN Tests /\ test \in Tests[plugin]
  /\ now \in Nat /\ mutex \in {0, 1}
  /\ state \in [Children -> {"asleep", "ready", "blocked"} \cup Ended]
  /\ \A t \in Children : /\ at[t] \in 1..(Len(test[t].program) + 1)
                         /\ {left[t], wake[t], read[t]} \subseteq Nat
  /\ cpu \in [Children -> Cpus]
  /\ owner \in [Locks -> Children \cup {Nobody}]
  /\ \A l \in Locks : owner[l] # Nobody => state[owner[l]] \notin Ended
  /\ begun \subseteq Children
  /\ clock.start \in 0..now /\ clock.stop \in 0..now

\* release_ts(): the children wait for their phases.
Init ==
  /\ plugin \in DOMAIN Tests /\ test \in Tests[plugin]
  /\ now = 0
  /\ state = [t \in Children |-> IF test[t].phase = 0 THEN "ready" ELSE "asleep"]
  /\ at = [t \in Children |-> 1] /\ left = [t \in Children |-> 0]
  /\ wake = [t \in Children |-> test[t].phase]
  /\ cpu = [t \in Children |-> test[t].cpu]
  /\ owner = [l \in Locks |-> Nobody]
  /\ begun = {} /\ clock = [start |-> 0, stop |-> 0]
  /\ read = [t \in Children |-> 0] /\ mutex = 0

-----------------------------------------------------------------------------
(* The kernel.                                                             *)

Call(t) == test[t].program[at[t]]
BlockedOn(l) == {t \in Children : state[t] = "blocked" /\ Call(t).what = l}
Holds(t) == {l \in Locks : owner[l] = t}

\* Lower is better.  A deadline of 0 is the period.
Priority(t) ==
  IF plugin = "P_FP" THEN test[t].priority
  ELSE (Release + test[t].phase + (IF test[t].relative_deadline = 0 THEN 100 * Second
                                   ELSE test[t].relative_deadline)) % Wrap

\* A task has its own priority or that of a task that waits for a lock it holds.
\* The agent of a DPCP lock is above every task of the processor.
Above(s, t) ==
  LET Priorities(u) ==
        {Priority(v) : v \in {u} \cup UNION {BlockedOn(l) : l \in Holds(u)}}
          \cup (IF "DPCP" \in Holds(u) THEN {-1} ELSE {})
  IN \A p \in Priorities(t) : \E q \in Priorities(s) : q < p

\* Under the SRP a job does not start below the ceiling of a lock that is held:
\* none of the others is above the ceiling of the only lock.
MayRun(t) ==
  /\ state[t] = "ready"
  /\ t \in begun \/ owner["SRP"] = Nobody

Runs(t) ==
  /\ MayRun(t)
  /\ \A s \in Children \ {t} : MayRun(s) /\ cpu[s] = cpu[t] => Above(t, s)

\* A lock that is given up goes to the highest of those who wait for it.
Heir(l) ==
  IF BlockedOn(l) = {} THEN Nobody
  ELSE CHOOSE t \in BlockedOn(l) :
         \A s \in BlockedOn(l) : Priority(t) <= Priority(s)

\* t gives up the locks ls and is then in state s, on its own processor.
GivesUp(t, ls, s) ==
  LET heirs == {Heir(l) : l \in ls} \ {Nobody}
  IN /\ owner' = [l \in Locks |-> IF l \in ls THEN Heir(l) ELSE owner[l]]
     /\ state' = [u \in Children |-> CASE u = t -> s [] u \in heirs -> "ready"
                                       [] OTHER -> state[u]]
     /\ at' = [u \in Children |-> IF (u = t /\ s = "ready") \/ u \in heirs
                                  THEN at[u] + 1 ELSE at[u]]
     /\ cpu' = [cpu EXCEPT ![t] = test[t].cpu]

Released(t, n) == state[t] = "asleep" /\ wake[t] <= n

\* while (cputime() - start < ...).
Looping(t) == left[t] > 0

\* Time passes when the tasks that run are in a loop.
Tick ==
  /\ \A t \in Children : Runs(t) => Looping(t)
  /\ \E t \in Children : state[t] \notin Ended
  /\ now' = now + 1
  /\ left' = [t \in Children |-> IF Runs(t) THEN left[t] - 1 ELSE left[t]]
  /\ state' = [t \in Children |-> IF Released(t, now + 1) THEN "ready" ELSE state[t]]
  /\ UNCHANGED <<plugin, test, at, wake, cpu, owner, begun, clock, read, mutex>>

-----------------------------------------------------------------------------
(* The calls of the task that runs.                                        *)

Calls(t, does) ==
  /\ Runs(t) /\ left[t] = 0
  /\ at[t] <= Len(test[t].program) /\ Call(t).does = does
  /\ begun' = begun \cup {t}
  /\ UNCHANGED <<plugin, test, now>>

Advance(t) == at' = [at EXCEPT ![t] = @ + 1]

DoWork(t) ==
  /\ Calls(t, "work") /\ Advance(t)
  /\ \E n \in Call(t).n..(Call(t).n + Jitter) : left' = [left EXCEPT ![t] = n]
  /\ UNCHANGED <<state, wake, cpu, owner, clock, read, mutex>>

DoSleep(t) ==
  /\ \/ /\ Calls(t, "sleep")
        /\ \E j \in 0..Jitter : wake' = [wake EXCEPT ![t] = now + Call(t).n + j]
     \/ /\ Calls(t, "period")
        /\ wake' = [wake EXCEPT ![t] = test[t].phase + Call(t).n]
  /\ Advance(t)
  /\ state' = [state EXCEPT ![t] = IF wake'[t] <= now THEN "ready" ELSE "asleep"]
  /\ UNCHANGED <<left, cpu, owner, clock, read, mutex>>

DoLock(t) ==
  LET l == Call(t).what
  IN /\ Calls(t, "lock")
     /\ cpu' = [cpu EXCEPT ![t] = IF l = "DPCP" THEN 0 ELSE @]
     /\ \/ /\ owner[l] = Nobody /\ owner' = [owner EXCEPT ![l] = t] /\ Advance(t)
           /\ UNCHANGED state
        \/ /\ owner[l] # Nobody /\ state' = [state EXCEPT ![t] = "blocked"]
           /\ UNCHANGED <<owner, at>>
     /\ UNCHANGED <<left, wake, clock, read, mutex>>

DoUnlock(t) ==
  /\ Calls(t, "unlock") /\ owner[Call(t).what] = t
  /\ GivesUp(t, {Call(t).what}, "ready")
  /\ UNCHANGED <<left, wake, clock, read, mutex>>

DoMeasure(t) ==
  /\ \/ Calls(t, "start") /\ clock' = [clock EXCEPT !.start = now] /\ UNCHANGED <<read, mutex>>
     \/ Calls(t, "stop") /\ clock' = [clock EXCEPT !.stop = now] /\ UNCHANGED <<read, mutex>>
     \/ /\ Calls(t, "read") /\ UNCHANGED <<clock, mutex>>
        /\ read' = [read EXCEPT ![t] = IF Call(t).what = "cpu" THEN cpu[t] ELSE mutex]
     \/ Calls(t, "set") /\ mutex' = 1 /\ UNCHANGED <<clock, read>>
  /\ Advance(t) /\ UNCHANGED <<state, left, wake, cpu, owner>>

\* ASSERT(): a child whose assertion fails exits with another status.
AssertionTrue(t) ==
  LET delay == clock.stop - clock.start
  IN CASE Call(t).does = "more" -> delay > Call(t).n
       [] Call(t).does = "less" -> delay < Call(t).n
       [] Call(t).does = "same" -> read[t] = Call(t).n

DoAssert(t) ==
  /\ \E does \in {"more", "less", "same"} : Calls(t, does)
  /\ IF AssertionTrue(t) THEN Advance(t) /\ UNCHANGED <<state, cpu, owner>>
                  ELSE GivesUp(t, Holds(t), "failed")
  /\ UNCHANGED <<left, wake, clock, read, mutex>>

\* kill() of a child that has ended, and not been waited for, has no effect.
DoKill(t) ==
  LET victim == Call(t).what
  IN /\ Calls(t, "kill") /\ Advance(t)
     /\ IF state[victim] \in Ended THEN UNCHANGED <<state, cpu, owner>>
        ELSE /\ state' = [state EXCEPT ![victim] = "killed"]
             /\ owner' = [l \in Locks |-> IF owner[l] = victim THEN Nobody ELSE owner[l]]
             /\ cpu' = [cpu EXCEPT ![victim] = test[victim].cpu]
     /\ UNCHANGED <<left, wake, clock, read, mutex>>

\* The end of FORK_TASK(): exit(0).
Exit(t) ==
  /\ Runs(t) /\ left[t] = 0 /\ at[t] > Len(test[t].program)
  /\ GivesUp(t, Holds(t), "exited")
  /\ begun' = begun \cup {t}
  /\ UNCHANGED <<plugin, test, now, left, wake, clock, read, mutex>>

AllEnded == \A t \in Children : state[t] \in Ended

Done == AllEnded /\ UNCHANGED vars

Next ==
  \/ Tick
  \/ \E t \in Children : \/ DoWork(t) \/ DoSleep(t) \/ DoLock(t) \/ DoUnlock(t)
                         \/ DoMeasure(t) \/ DoAssert(t) \/ DoKill(t) \/ Exit(t)
  \/ Done

Spec == Init /\ [][Next]_vars

-----------------------------------------------------------------------------
(* Properties.                                                             *)

\* No child's ASSERT fails: hi wakes up within 200 ms, waits for the PCP lock
\* for more than 100 ms and less than a second, does not notice the SRP lock, and
\* is preempted by lo, which runs on hi's processor while it has the DPCP lock.
AssertionsHold == \A t \in Children : state[t] # "failed"

\* The parent asserts that hi exits and that the others are killed: none of them
\* gets to its end before hi has killed it.
KilledInTime ==
  \A t \in Children : IF t = "hi" THEN state[t] # "killed" ELSE state[t] # "exited"

\* From the time hi is released until it has ended, and when it does not sleep,
\* nobody but the holder of a lock runs on its processor in its place: mid, which
\* has no lock, does not, and neither does lo after it has unlocked.
NoInversion ==
  \A t \in Children \ {"hi"} :
    /\ state["hi"] \in {"ready", "blocked"}
    /\ cpu[t] = test["hi"].cpu
    /\ Runs(t)
    => Holds(t) # {}

\* hi kills nobody who holds a lock: the file of the locks, .pcp_locks or
\* .srp_locks, is the same for the tests that follow.
NoneKilledInSection ==
  [][\A t \in Children :
       state[t] # "killed" /\ state'[t] = "killed" => Holds(t) = {}]_vars

\* The children have ended a second after the release, although the loops of lo
\* and mid would go on for much longer.
OverInASecond == now > Second => AllEnded

\* The tests pass: types, the assertions of the children and of their parent, and
\* the end of it all.
TestsPass == TypeOK /\ AssertionsHold /\ KilledInTime /\ OverInASecond
=============================================================================
