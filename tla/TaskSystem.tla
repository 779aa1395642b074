----------------------------- MODULE TaskSystem -----------------------------
(***************************************************************************)
(* The synchronous release of a task system: real-time tasks that set      *)
(* themselves up and wait (src/bin, src/tests), release_ts                 *)
(* (src/bin/release_ts.c) or a test's parent that polls the statistics of  *)
(* the kernel and releases them, and the script that starts and reaps them *)
(* all (src/carun.py).  The kernel is not part of the repository: its      *)
(* calls and /proc/litmus/stats are modelled as the programs use them.     *)
(***************************************************************************)
EXTENDS Integers, FiniteSets, Sequences, RtPrograms

CONSTANTS
  Task,           \* the task system
  Program,        \* Program[t]: the calls of task t, see RtPrograms
  Releasers,      \* who may release: "release_ts", "test" (the parent in a test)
  Operands,       \* for how many tasks release_ts (-f, and 0 stands for -w) or a
                  \* test may wait
  CallsMayFail,   \* TRUE: system calls may fail for reasons of their own
  StatsMayFail    \* TRUE: reading /proc/litmus/stats may fail

ASSUME TaskSystemAssumption ==
  /\ IsFiniteSet(Task)
  /\ \A t \in Task :
       Program[t] \in Seq([call : STRING, fail : {"bail", "ignore"}])
  /\ Releasers \subseteq {"release_ts", "test"}
  /\ Operands \subseteq Nat
  /\ CallsMayFail \in BOOLEAN /\ StatsMayFail \in BOOLEAN

VARIABLES
  status,    \* status[t]: "unborn", "running", "waiting", "exited", "failed"
  at,        \* at[t]: position in Program[t] of t's next call
  admitted,  \* tasks whose parameters the kernel has
  realtime,  \* tasks that are scheduled by LITMUS^RT
  releaser,  \* "unborn", "poll" (release_ts), "poll_test", "release", "done", "failed"
  expected,  \* the operand that the releaser is started with
  ready, all, \* wait_until_ready's local variables
  seen,      \* tasks that were real-time when the statistics were last read (history)
  launcher   \* "launch", "join", "done"

vars == <<status, at, admitted, realtime, releaser, expected, ready, all, seen, launcher>>
taskVars == <<status, at, admitted, realtime>>
releaserVars == <<releaser, expected, ready, all, seen>>

Status == {"unborn", "running", "waiting", "exited", "failed"}

TypeOK ==
  /\ status \in [Task -> Status]
  /\ at \in [Task -> Nat]
  /\ \A t \in Task : at[t] \in 1..Len(Program[t]) + 1
  /\ admitted \subseteq Task
  /\ realtime \subseteq admitted
  /\ releaser \in {"unborn", "poll", "poll_test", "release", "done", "failed"}
  /\ expected \in Operands
  /\ ready \in Nat /\ all \in Nat /\ ready <= all
  /\ seen \subseteq Task
  /\ launcher \in {"launch", "join", "done"}

Init ==
  /\ status = [t \in Task |-> "unborn"]
  /\ at = [t \in Task |-> 1]
  /\ admitted = {} /\ realtime = {}
  /\ releaser = "unborn"
  /\ expected \in Operands
  /\ ready = 0 /\ all = 0
  /\ seen = {}
  /\ launcher = "launch"

Waiting == {t \in Task : status[t] = "waiting"}

-----------------------------------------------------------------------------
(* Tasks.                                                                  *)

\* t's next call is c.
Reaches(t, c) ==
  /\ status[t] = "running" /\ at[t] <= Len(Program[t])
  /\ Program[t][at[t]].call = c

Return(t) == at' = [at EXCEPT ![t] = @ + 1]

\* exit(): the kernel forgets the task.
Exit(t, s) ==
  /\ status' = [status EXCEPT ![t] = s]
  /\ admitted' = admitted \ {t} /\ realtime' = realtime \ {t}

SetRtTaskParam(t) ==
  /\ Reaches(t, "set_rt_task_param") /\ t \notin realtime
  /\ admitted' = admitted \cup {t}
  /\ Return(t)
  /\ UNCHANGED <<status, realtime, releaserVars, launcher>>

\* task_mode(LITMUS_RT_TASK): -EINVAL for a task that is real-time already,
\* and the kernel refuses a task without parameters.
CanBecomeRt(t) == t \in admitted /\ t \notin realtime
TaskModeRt(t) ==
  /\ Reaches(t, "task_mode_rt") /\ CanBecomeRt(t)
  /\ realtime' = realtime \cup {t}
  /\ Return(t)
  /\ UNCHANGED <<status, admitted, releaserVars, launcher>>

\* task_mode(BACKGROUND_TASK): -EINVAL for a task that is not real-time.
TaskModeBg(t) ==
  /\ Reaches(t, "task_mode_bg") /\ t \in realtime
  /\ realtime' = realtime \ {t}
  /\ Return(t)
  /\ UNCHANGED <<status, admitted, releaserVars, launcher>>

\* Blocks until the release; the kernel refuses tasks that are not real-time.
WaitForTsRelease(t) ==
  /\ Reaches(t, "wait_for_ts_release") /\ t \in realtime
  /\ status' = [status EXCEPT ![t] = "waiting"]
  /\ UNCHANGED <<at, admitted, realtime, releaserVars, launcher>>

\* The calls that change nothing here: migration, memory locking, locks, the
\* arena, a whole sequence of jobs, the program that execvp() started.
Plain == {"migrate", "get_rt_task_param", "init_litmus", "init_rt_thread",
          "litmus_open_lock", "open_sem", "initialize", "jobs", "execvp"}
PlainCall(t) ==
  /\ \E c \in Plain : Reaches(t, c)
  /\ Return(t)
  /\ UNCHANGED <<status, admitted, realtime, releaserVars, launcher>>

\* A call fails because the kernel must refuse it, or for reasons of its own;
\* the program bails out or goes on.  (jobs_forever neither ends nor fails.)
\* In the variant bail_out() returns.
Refused(t) ==
  \/ Reaches(t, "set_rt_task_param") /\ t \in realtime
  \/ Reaches(t, "task_mode_rt") /\ ~CanBecomeRt(t)
  \/ Reaches(t, "task_mode_bg") /\ t \notin realtime
  \/ Reaches(t, "wait_for_ts_release") /\ t \notin realtime
FailCall_GoesOn(t) ==
  /\ status[t] = "running" /\ at[t] <= Len(Program[t])
  /\ ~Reaches(t, "jobs_forever") /\ (CallsMayFail \/ Refused(t))
  /\ Return(t)
  /\ UNCHANGED <<status, admitted, realtime, releaserVars, launcher>>
FailCall(t) ==
  /\ status[t] = "running" /\ at[t] <= Len(Program[t])
  /\ ~Reaches(t, "jobs_forever") /\ (CallsMayFail \/ Refused(t))
  /\ \/ /\ Program[t][at[t]].fail = "bail"
        /\ Exit(t, "failed") /\ UNCHANGED at
     \/ /\ Program[t][at[t]].fail = "ignore"
        /\ Return(t) /\ UNCHANGED <<status, admitted, realtime>>
  /\ UNCHANGED <<releaserVars, launcher>>

\* A signal interrupts wait_for_ts_release(): the task bails out.
Interrupt(t) ==
  /\ CallsMayFail
  /\ status[t] = "waiting"
  /\ Exit(t, "failed")
  /\ UNCHANGED <<at, releaserVars, launcher>>

\* main() returns.
Finish(t) ==
  /\ status[t] = "running" /\ at[t] = Len(Program[t]) + 1
  /\ Exit(t, "exited")
  /\ UNCHANGED <<at, releaserVars, launcher>>

-----------------------------------------------------------------------------
(* release_ts, and the parent of the synchronous-release tests.            *)

\* The condition under which release_ts stops polling.
Satisfied_OneShort(rdy, al) ==
  expected <= rdy + 1 /\ (expected = 0 => rdy >= al)
Satisfied_Strict(rdy, al) ==
  expected < rdy /\ (expected = 0 => rdy >= al)
Satisfied(rdy, al) ==
  expected <= rdy /\ (expected = 0 => rdy >= al)

\* read_litmus_stats(): both numbers come from one read of the file.
ReadLitmusStats_Swapped ==
  /\ ready' = Cardinality(realtime)
  /\ all' = Cardinality(Waiting)
ReadLitmusStats ==
  /\ ready' = Cardinality(Waiting)
  /\ all' = Cardinality(realtime)

\* One round of wait_until_ready(): a failed read is reported, and the
\* condition evaluated with the values there were.  In the variant a failed
\* read leaves zeros.
WaitUntilReady_Zeros ==
  /\ releaser = "poll"
  /\ \/ ReadLitmusStats /\ seen' = realtime
     \/ StatsMayFail /\ ready' = 0 /\ all' = 0 /\ UNCHANGED seen
  /\ releaser' = IF Satisfied(ready', all') THEN "release" ELSE "poll"
  /\ UNCHANGED <<taskVars, expected, launcher>>
WaitUntilReady ==
  /\ releaser = "poll"
  /\ \/ ReadLitmusStats /\ seen' = realtime
     \/ StatsMayFail /\ UNCHANGED <<ready, all, seen>>
  /\ releaser' = IF Satisfied(ready', all') THEN "release" ELSE "poll"
  /\ UNCHANGED <<taskVars, expected, launcher>>

\* One round of a test's loop around get_nr_ts_release_waiters(), which
\* asserts that the read succeeded.
PollWaiters ==
  /\ releaser = "poll_test"
  /\ \/ /\ ReadLitmusStats /\ seen' = realtime
        /\ releaser' = IF ready' = expected THEN "release" ELSE "poll_test"
     \/ /\ StatsMayFail
        /\ releaser' = "failed" /\ UNCHANGED <<ready, all, seen>>
  /\ UNCHANGED <<taskVars, expected, launcher>>

\* release_ts(&delay): everyone who waits now, in one step; or nobody.
ReleaseTs ==
  /\ releaser = "release"
  /\ \/ /\ status' = [t \in Task |-> IF t \in Waiting THEN "running" ELSE status[t]]
        /\ at' = [t \in Task |-> IF t \in Waiting THEN at[t] + 1 ELSE at[t]]
        /\ releaser' = "done"
     \/ /\ CallsMayFail
        /\ releaser' = "failed"
        /\ UNCHANGED <<status, at>>
  /\ UNCHANGED <<admitted, realtime, expected, ready, all, seen, launcher>>

-----------------------------------------------------------------------------
(* The script: starts the tasks, then release_ts, then waits for them all. *)

LaunchTask(t) ==
  /\ launcher = "launch" /\ status[t] = "unborn"
  /\ status' = [status EXCEPT ![t] = "running"]
  /\ UNCHANGED <<at, admitted, realtime, releaserVars, launcher>>

\* A test has children to wait for.
LaunchReleaser ==
  /\ launcher = "launch" /\ \A t \in Task : status[t] # "unborn"
  /\ \/ "release_ts" \in Releasers /\ releaser' = "poll"
     \/ "test" \in Releasers /\ expected # 0 /\ releaser' = "poll_test"
  /\ launcher' = "join"
  /\ UNCHANGED <<taskVars, expected, ready, all, seen>>

Join ==
  /\ launcher = "join"
  /\ \A t \in Task : status[t] \in {"exited", "failed"}
  /\ releaser \in {"done", "failed"}
  /\ launcher' = "done"
  /\ UNCHANGED <<taskVars, releaserVars>>

-----------------------------------------------------------------------------
TaskStep(t) ==
  \/ SetRtTaskParam(t) \/ TaskModeRt(t) \/ TaskModeBg(t)
  \/ WaitForTsRelease(t) \/ PlainCall(t)
  \/ FailCall(t) \/ Finish(t)

ReleaserStep == WaitUntilReady \/ PollWaiters \/ ReleaseTs

LauncherStep == LaunchReleaser \/ Join \/ \E t \in Task : LaunchTask(t)

Next == ReleaserStep \/ LauncherStep \/ \E t \in Task : TaskStep(t) \/ Interrupt(t)

Spec == Init /\ [][Next]_vars

\* Every process that can take its next step eventually does (a read of the
\* statistics that fails changes nothing, so that one succeeds eventually);
\* nothing makes a signal arrive.
FairSpec ==
  /\ Spec
  /\ WF_vars(ReleaserStep) /\ WF_vars(LauncherStep)
  /\ \A t \in Task : WF_vars(TaskStep(t))

-----------------------------------------------------------------------------
(* Properties.                                                             *)

\* t has a wait_for_ts_release() ahead of it that it has not reached.
SettingUp(t) ==
  /\ status[t] \in {"unborn", "running"}
  /\ \E i \in at[t]..Len(Program[t]) : Program[t][i].call = "wait_for_ts_release"

\* release_ts -f, or a test, waits for as many tasks as there are.
Counted == expected = Cardinality(Task)

\* Nobody is left behind: once a task system that was counted is released, no
\* task is still on its way to wait_for_ts_release(), where nothing would ever
\* release it.  This is "all threads after each of them has been set up" of
\* include/litmus.h.
NobodyLeftBehind ==
  Counted /\ releaser = "done" => \A t \in Task : ~SettingUp(t) /\ status[t] # "waiting"

\* "Wait until all tasks are ready for release" (release_ts -w): when it stops
\* polling, no task is still setting itself up that was real-time when the
\* statistics were last read, however many reads have failed since.  Of a
\* release without any successful read this says nothing.
SeenAreReleased ==
  releaser \in {"release", "done"} => \A t \in seen : ~SettingUp(t)

\* A task whose calls failed on the way never runs its jobs as an ordinary
\* background task, or before the others: jobs run in real-time mode, and
\* after the release.
JobsInRealTime ==
  \A t \in Task : Reaches(t, "jobs") => t \in realtime /\ releaser = "done"

\* Tasks take part in a release that counts them.
Phase(t) ==
  CASE ~Counted \/ status[t] \in {"exited", "failed"} -> "out"
    [] Counted /\ SettingUp(t) -> "setup"
    [] Counted /\ status[t] = "waiting" -> "waiting"
    [] Counted /\ status[t] \in {"unborn", "running"} /\ ~SettingUp(t) -> "go"

Synchronous == INSTANCE SynchronousRelease WITH
  phase <- [t \in Task |-> Phase(t)], released <- (Counted /\ releaser = "done")

\* Counting and releasing implement a synchronous release: all tasks that are
\* not gone start together, and none starts alone.
ReleasesTogether == Synchronous!Spec

\* The script comes to an end, unless its release or a task failed before
\* the tasks were released: what fails afterwards does not keep it from
\* ending.  And release_ts -w ends in any case, since it does not wait for those
\* that are gone.
EndsUnlessFailed ==
  /\ Counted => <>(\/ launcher = "done" \/ releaser = "failed"
                   \/ releaser \notin {"release", "done"} /\ \E t \in Task : status[t] = "failed")
  /\ expected = 0 => <>(releaser \in {"done", "failed"})
=============================================================================
