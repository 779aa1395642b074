------------------------------- MODULE Suite -------------------------------
(***************************************************************************)
(* The test runner (src/tests/runner.c) and the processes its tests fork.  *)
(* Tests differ here in how many children they fork, whether these wait    *)
(* for a synchronous release, and how the test looks at their status.      *)
(* Processes may fail an assertion, be killed by a signal or not come into *)
(* being; what the tests assert is modelled in Locks and Admission.        *)
(***************************************************************************)
EXTENDS Naturals, Sequences, FiniteSets

CONSTANTS
  Catalogs,   \* sequences of tests: what make_catalog.py may find
  Plugins,    \* the plugins that may be active
  MaxTests,   \* bounds the length of a suite
  MaxFaults   \* bounds the faults

\* The three kinds of synchronous tests, and those whose children do not wait.
\* children: how many; lenient: only WEXITSTATUS is looked at.
Kind == [
  alone   |-> [children |-> 0, sync |-> FALSE, lenient |-> FALSE],
  child   |-> [children |-> 1, sync |-> FALSE, lenient |-> FALSE],
  lenient |-> [children |-> 1, sync |-> FALSE, lenient |-> TRUE],
  rate    |-> [children |-> 1, sync |-> TRUE, lenient |-> FALSE],
  resume  |-> [children |-> 2, sync |-> TRUE, lenient |-> FALSE],
  ceiling |-> [children |-> 3, sync |-> TRUE, lenient |-> FALSE]]

MaxChildren == 3

\* create_tc_tables(): the tests that are compiled into the suite of a plugin.
RunsUnder(test, plugin) ==
  \/ plugin \in test.plugins
  \/ "ALL" \in test.plugins
  \/ "LITMUS" \in test.plugins /\ plugin # "LINUX"

Kinds(catalog, plugin) ==
  LET tests == SelectSeq(catalog, LAMBDA test : RunsUnder(test, plugin))
  IN [i \in 1..Len(tests) |-> tests[i].kind]

ASSUME SuiteAssumption ==
  /\ MaxTests \in Nat /\ MaxFaults \in Nat
  /\ \A c \in Catalogs, p \in Plugins :
       Kinds(c, p) \in Seq(DOMAIN Kind) /\ Len(Kinds(c, p)) <= MaxTests

\* <<i, 0>> is the process of test i, <<i, k>> the k-th child it forks.
Proc == (1..MaxTests) \X (0..MaxChildren)

VARIABLES
  suite,      \* the kinds of the tests that are run
  runner,     \* "running"; "done"; "failed" when it cannot fork; "killed"
  verdict,    \* of the tests so far: "ok", "failed", or "silent" (no line at all)
  state,      \* of each process
  at,         \* how far it is: forks or waits of a test, kills of a child
  collected,  \* the children that were waited for
  pending,    \* pending[p]: what is in the stdout buffer of p (<<0, 0>>: the runner)
  out,        \* what has been written to stdout
  faults,     \* what went wrong: [test, what, early]
  broadcast   \* a child called kill(-1, SIGUSR2)

vars == <<suite, runner, verdict, state, at, collected, pending, out, faults, broadcast>>

Live == {"forking", "polling", "releasing", "collecting", "setup", "waiting", "released"}
Ended == {"exited", "failed", "crashed", "killed"}

TypeOK ==
  /\ suite \in Seq(DOMAIN Kind) /\ Len(suite) <= MaxTests
  /\ runner \in {"running", "done", "failed", "killed"}
  /\ verdict \in Seq({"ok", "failed", "silent"}) /\ Len(verdict) <= Len(suite)
  /\ state \in [Proc -> {"unborn", "absent"} \cup Live \cup Ended]
  /\ at \in [Proc -> 0..MaxChildren]
  /\ collected \subseteq {p \in Proc : state[p] \in Ended}
  /\ Cardinality(faults) <= MaxFaults
  /\ broadcast \in BOOLEAN

Runner == <<0, 0>>
Line(text, i) == <<text, i>>

Init ==
  /\ \E c \in Catalogs, p \in Plugins : suite = Kinds(c, p)
  /\ runner = "running" /\ verdict = <<>>
  /\ state = [p \in Proc |-> "unborn"] /\ at = [p \in Proc |-> 0]
  /\ collected = {}
  /\ pending = [p \in Proc \cup {Runner} |-> IF p = Runner THEN <<Line("suite", 0)>> ELSE <<>>]
  /\ out = <<>>
  /\ faults = {} /\ broadcast = FALSE

-----------------------------------------------------------------------------
Test(p) == <<p[1], 0>>
KindOf(p) == Kind[suite[p[1]]]
IsTest(p) == p[2] = 0

\* The last child is the one with the highest priority; it signals the others.
Hi(p) == <<p[1], KindOf(p).children>>
IsHi(p) == KindOf(p).sync /\ p = Hi(p)

\* get_nr_ts_release_waiters(): whoever waits, of whichever test.
Waiters == {p \in Proc : state[p] = "waiting"}

\* exit() writes what is in the buffer, a signal does not.
End(p, how) ==
  /\ state' = [state EXCEPT ![p] = how]
  /\ out' = IF how \in {"exited", "failed"} THEN out \o pending[p] ELSE out

\* A fault is early when it hits a test before the release its children wait for.
Faulty(p, what) ==
  /\ Cardinality(faults) < MaxFaults
  /\ faults' = faults \cup {[test |-> p[1], what |-> what,
                             early |-> KindOf(p).sync
                                         /\ state[Test(p)] \in {"forking", "polling", "releasing"}]}

Fork(parent, p) ==
  /\ state' = [state EXCEPT ![p] = IF IsTest(p) THEN "forking" ELSE "setup"]
  /\ pending' = [pending EXCEPT ![p] = pending[parent]]

-----------------------------------------------------------------------------
(* The runner.                                                             *)

Current == <<Len(verdict) + 1, 0>>
Running == runner = "running"

\* run_test(), up to the fork: fflush() empties the buffer.  In the variant
\* there is no fflush().
RunTest_NoFlush ==
  /\ Running /\ Len(verdict) < Len(suite) /\ state[Current] = "unborn"
  /\ state' = [state EXCEPT ![Current] = "forking"]
  /\ pending' = [p \in DOMAIN pending |->
                   IF p \in {Runner, Current} THEN pending[Runner] \o <<Line("test", Current[1])>> ELSE pending[p]]
  /\ UNCHANGED <<suite, runner, verdict, at, collected, out, faults, broadcast>>
RunTest ==
  /\ Running /\ Len(verdict) < Len(suite) /\ state[Current] = "unborn"
  /\ out' = out \o pending[Runner] \o <<Line("test", Current[1])>>
  /\ state' = [state EXCEPT ![Current] = "forking"]
  /\ pending' = [pending EXCEPT ![Runner] = <<>>]
  /\ UNCHANGED <<suite, runner, verdict, at, collected, faults, broadcast>>

\* SYSCALL(fork()) ends the runner when it fails.
RunnerCannotFork ==
  /\ Running /\ Len(verdict) < Len(suite) /\ state[Current] = "unborn"
  /\ Faulty(Current, "fork")
  /\ runner' = "failed"
  /\ out' = out \o pending[Runner] \o <<Line("test", Current[1])>>
  /\ pending' = [pending EXCEPT ![Runner] = <<>>]
  /\ UNCHANGED <<suite, verdict, state, at, collected, broadcast>>

\* waitpid() and the verdict: a test that exits with another status than 0 is
\* counted as failed, but nothing is printed.
VerdictOn(how) ==
  CASE how = "exited" -> "ok"
    [] how = "failed" -> "silent"
    [] OTHER -> "failed"

Report ==
  /\ Running /\ Len(verdict) < Len(suite) /\ state[Current] \in Ended
  /\ LET v == VerdictOn(state[Current]) IN
       /\ verdict' = Append(verdict, v)
       /\ pending' = [pending EXCEPT ![Runner] =
                        IF v = "silent" THEN @ ELSE Append(@, Line(v, Current[1]))]
  /\ UNCHANGED <<suite, runner, state, at, collected, out, faults, broadcast>>

\* The end of main().
Result ==
  /\ Running /\ Len(verdict) = Len(suite)
  /\ runner' = "done"
  /\ out' = out \o pending[Runner] \o <<Line("result", 0)>>
  /\ pending' = [pending EXCEPT ![Runner] = <<>>]
  /\ UNCHANGED <<suite, verdict, state, at, collected, faults, broadcast>>

-----------------------------------------------------------------------------
(* The process of a test.                                                  *)

\* FORK_TASK(), or fork(); a lenient test asserts that fork() worked, the
\* others use -1 as if it were a pid.
ForkTask(p) ==
  /\ IsTest(p) /\ state[p] = "forking" /\ at[p] < KindOf(p).children
  /\ LET c == <<p[1], at[p] + 1>> IN
       \/ /\ Fork(p, c)
          /\ at' = [at EXCEPT ![p] = @ + 1]
          /\ UNCHANGED <<out, faults>>
       \/ /\ Faulty(p, "fork")
          /\ IF KindOf(p).lenient
             THEN End(p, "failed") /\ UNCHANGED at
             ELSE /\ state' = [state EXCEPT ![c] = "absent"]
                  /\ at' = [at EXCEPT ![p] = @ + 1]
                  /\ UNCHANGED out
          /\ UNCHANGED pending
  /\ UNCHANGED <<suite, runner, verdict, collected, broadcast>>

Forked(p) ==
  /\ IsTest(p) /\ state[p] = "forking" /\ at[p] = KindOf(p).children
  /\ state' = [state EXCEPT ![p] = IF KindOf(p).sync THEN "polling" ELSE "collecting"]
  /\ at' = [at EXCEPT ![p] = 0]
  /\ UNCHANGED <<suite, runner, verdict, collected, pending, out, faults, broadcast>>

\* do ... while (waiters != 2).  The variant is content with one less.
Polled_OneShort(p) == Cardinality(Waiters) + 1 >= KindOf(p).children
Polled(p) == Cardinality(Waiters) = KindOf(p).children

Poll(p) ==
  /\ state[p] = "polling" /\ Polled(p)
  /\ state' = [state EXCEPT ![p] = "releasing"]
  /\ UNCHANGED <<suite, runner, verdict, at, collected, pending, out, faults, broadcast>>

\* release_ts() releases whoever waits by now; nobody looks at its answer.
ReleaseTs(p) ==
  /\ state[p] = "releasing"
  /\ \/ /\ state' = [q \in Proc |-> IF q = p THEN "collecting"
                                    ELSE IF q \in Waiters THEN "released" ELSE state[q]]
        /\ UNCHANGED faults
     \/ Faulty(p, "release") /\ state' = [state EXCEPT ![p] = "collecting"]
  /\ UNCHANGED <<suite, runner, verdict, at, collected, pending, out, broadcast>>

\* The child the next waitpid() names: first the one with the highest priority.
Awaited(p) == IF at[p] = 0 THEN Hi(p) ELSE <<p[1], at[p]>>

\* What it asserts of the status.  The variant looks at WEXITSTATUS only.
Asserted_Lenient(p, how) ==
  IF KindOf(p).sync /\ at[p] > 0 THEN how = "killed" ELSE how # "failed"
Asserted(p, how) ==
  CASE KindOf(p).lenient -> how # "failed"
    [] KindOf(p).sync /\ at[p] > 0 -> how = "killed"
    [] OTHER -> how = "exited"

\* Children there may be an answer about; for pid -1 any child will do.
Candidates(p) ==
  LET children == {<<p[1], k>> : k \in 1..KindOf(p).children}
      uncollected == {c \in children : state[c] # "absent"} \ collected
  IN IF state[Awaited(p)] = "absent" THEN uncollected ELSE {Awaited(p)} \cap uncollected

\* waitpid() waits for the end of the child.
Answers(c) == state[c] \in Ended

Waitpid(p) ==
  /\ state[p] = "collecting" /\ at[p] < KindOf(p).children
  /\ \/ /\ Candidates(p) = {}       \* ECHILD
        /\ End(p, "failed") /\ UNCHANGED <<at, collected>>
     \/ \E c \in Candidates(p) :
          /\ Answers(c)
          /\ collected' = collected \cup {c}
          /\ IF Asserted(p, state[c])
             THEN at' = [at EXCEPT ![p] = @ + 1] /\ UNCHANGED <<state, out>>
             ELSE End(p, "failed") /\ UNCHANGED at
  /\ UNCHANGED <<suite, runner, verdict, pending, faults, broadcast>>

AllCollected(p) == at[p] = KindOf(p).children

TestExits(p) ==
  /\ state[p] = "collecting" /\ AllCollected(p)
  /\ End(p, "exited")
  /\ UNCHANGED <<suite, runner, verdict, at, collected, pending, faults, broadcast>>

-----------------------------------------------------------------------------
(* The children.                                                           *)

\* wait_for_ts_release(), or the end of a child that does not wait.
Arrive(p) ==
  /\ state[p] = "setup"
  /\ IF KindOf(p).sync
     THEN state' = [state EXCEPT ![p] = "waiting"] /\ UNCHANGED out
     ELSE End(p, "exited")
  /\ UNCHANGED <<suite, runner, verdict, at, collected, pending, faults, broadcast>>

\* Whom the child with the highest priority signals next.  The variant signals
\* nobody.
ToSignal_None(p) == 0
ToSignal(p) == KindOf(p).children - 1 - at[p]

\* A process that has ended and been waited for is not there any more.
Vanished(q) == q \in collected \/ (state[q] \in Ended /\ state[Test(q)] \in Ended)

\* kill(child, SIGUSR2).  The child is -1 when its fork failed: then everybody
\* but the caller is signalled.
Signal(p) ==
  /\ state[p] = "released" /\ IsHi(p) /\ ToSignal(p) > 0
  /\ LET v == <<p[1], ToSignal(p)>> IN
       \/ /\ state[v] = "absent"
          /\ state' = [q \in Proc |-> IF q # p /\ state[q] \in Live THEN "killed" ELSE state[q]]
          /\ runner' = IF Running THEN "killed" ELSE runner
          /\ broadcast' = TRUE
          /\ at' = [at EXCEPT ![p] = @ + 1]
          /\ UNCHANGED out
       \/ /\ state[v] # "absent" /\ ~Vanished(v)
          /\ state' = IF state[v] \in Live THEN [state EXCEPT ![v] = "killed"] ELSE state
          /\ at' = [at EXCEPT ![p] = @ + 1]
          /\ UNCHANGED <<runner, out, broadcast>>
       \/ /\ state[v] # "absent" /\ Vanished(v)       \* ESRCH
          /\ End(p, "failed")
          /\ UNCHANGED <<runner, at, broadcast>>
  /\ UNCHANGED <<suite, verdict, collected, pending, faults>>

\* A child comes to its end.  The others work, or wait for a lock or their next
\* period, for longer than the one with the highest priority lives.
ChildExits(p) ==
  /\ state[p] = "released"
  /\ IF IsHi(p) THEN ToSignal(p) = 0 ELSE state[Hi(p)] \notin Live
  /\ End(p, "exited")
  /\ UNCHANGED <<suite, runner, verdict, at, collected, pending, faults, broadcast>>

\* An assertion fails, here or in init_litmus(); or a signal ends the process.
Fault(p) ==
  /\ state[p] \in Live
  /\ \E how \in {"failed", "crashed"} :
       /\ state[p] = "waiting" => how = "crashed"
       /\ Faulty(p, how) /\ End(p, how)
  /\ UNCHANGED <<suite, runner, verdict, at, collected, pending, broadcast>>

-----------------------------------------------------------------------------
RunnerStep == RunTest \/ RunnerCannotFork \/ Report \/ Result

ProcStep(p) ==
  \/ ForkTask(p) \/ Forked(p) \/ Poll(p) \/ ReleaseTs(p) \/ Waitpid(p) \/ TestExits(p)
  \/ Arrive(p) \/ Signal(p) \/ ChildExits(p)

Next == RunnerStep \/ \E p \in Proc : ProcStep(p) \/ Fault(p)

Spec == Init /\ [][Next]_vars

\* Processes are scheduled; nothing makes a fault happen.
FairSpec == Spec /\ WF_vars(RunnerStep) /\ \A p \in Proc : WF_vars(ProcStep(p))

-----------------------------------------------------------------------------
(* Properties.                                                             *)

\* "ok" means that each process of the test came to its end or was signalled by
\* the test, and that every fork worked; only a test that looks at WEXITSTATUS
\* alone passes over a child that a signal ended.
OkIsOk ==
  \A i \in 1..Len(verdict) : verdict[i] = "ok" =>
    \A k \in 0..Kind[suite[i]].children :
      \/ state[<<i, k>>] = "exited"
      \/ state[<<i, k>>] = "killed" /\ k \in 1..Kind[suite[i]].children - 1
      \/ state[<<i, k>>] = "crashed" /\ k > 0 /\ Kind[suite[i]].lenient

\* A test that is reported as ok leaves no process behind, so that the next one
\* starts from a clean slate.
NoLeftovers ==
  \A i \in 1..Len(verdict) : verdict[i] = "ok" =>
    \A k \in 1..Kind[suite[i]].children : <<i, k>> \in collected

\* The invariant: types, and what it means that a test is reported as ok.
SuiteInv == TypeOK /\ OkIsOk /\ NoLeftovers

\* Tests fail for what happens in them, unless an earlier one fell out before its
\* release: the count they poll is the kernel's, and whoever still waits is in it.
FailsAlone ==
  \A i \in 1..Len(verdict) : verdict[i] # "ok" =>
    \E f \in faults : f.test = i \/ (f.test < i /\ f.early)

\* No line of the report appears twice, though every process of every test has
\* the runner's buffer and writes it when it exits.
PrintedOnce == \A i, j \in 1..Len(out) : i # j => out[i] # out[j]

\* kill(-1, SIGUSR2), which ends everything that may be signalled, takes two
\* faults before a release: a fork that failed, and another that leaves somebody
\* waiting in place of the child that is missing, or the child whose brother is
\* missing for the release of a later test.
SignalsOnlyItsOwn ==
  broadcast => \E f, g \in faults : f # g /\ f.what = "fork" /\ f.early /\ g.early

\* A suite comes to an end whatever fails, but for what happens before a
\* synchronous release, which its test then waits for for ever.
SuiteEnds == [](\A f \in faults : ~f.early) => <>~Running
=============================================================================
