# liblitmus: a verification project

liblitmus is the user-space library of LITMUS^RT, a real-time extension of
Linux: system call stubs, a shared control page for non-preemptive sections,
helpers that bring tasks to their processors and into real-time mode, a set of
real-time programs (`bin/`) and a test suite (`tests/`). The library is small;
what is difficult is that almost every line runs against a kernel that acts on
its own: it preempts, delays preemptions, migrates, admits, releases and blocks.

The kernel is not part of the repository. It is modelled only as far as the
code, its tests and its comments use it; those definitions are marked external
in `PROJECT.json` ("map").

## 1. Inventory

| component | state | operations | who it interacts with | what is hard | what makes it correct |
|---|---|---|---|---|---|
| Non-preemptive sections (`src/kernel_iface.c`) | `ctrl_page->sched.np.flag`, `np.preempt`, one page per thread | `enter_np`, `exit_np`, `requested_to_preempt` | the scheduler interrupt and remote processors read and write the same word | interleaving by single memory access, the store buffer, nesting | a task in a section keeps the processor; no delayed preemption is lost; each is carried out at the outermost exit |
| Control page (`src/kernel_iface.c`, `src/litmus.c`) | thread-local `ctrl_page`: NULL, a page or MAP_FAILED | `map_file`, `init_kernel_iface`, `init_rt_thread`, `get_ctrl_page`, lazy initialisation in `enter_np` | threads, `fork()` | a pointer that survives `fork()`, a failed mapping | a thread uses its own page and no other; no stuck flag; no wild access |
| Task system release (`bin/release_ts.c`, `carun.py`, release loops of the tests) | numbers read from `/proc/litmus/stats` | `wait_until_ready`, `get_nr_ts_release_waiters`, `release_ts`, launching and reaping | tasks that set themselves up meanwhile | a race between polling and arriving, failing reads and calls | nobody arrives after the only release; all start together; the campaign ends |
| Real-time programs (`bin/*.c`) | the position in `main`, real-time mode; the clock, the end of the program | parameters, migration, `task_mode`, waiting, `job`, `loop_for` | kernel, `release_ts` | calls that fail half-way; preemption inside a loop | jobs run only in real-time mode and after the release, for the time they were given |
| Cache arena (`bin/ca_*.c`, `cpu_spin.c`) | an array of cache lines linked by two indices | `randrange`, `init_arena`, `cacheline_walk`, `cacheline_walk_hot` | none | arithmetic at the edge of RAND_MAX; a permutation that must be one cycle | a walk reads every line exactly once and stays inside |
| Cluster migration (`src/migration.c`) | the files below `/proc/litmus/domains` and `/proc/litmus/cpus` | `read_mapping`, `domain_to_cpus`, `cpu_to_domains`, `domain_to_first_cpu`, `be_migrate_thread_to_*` | a plugin switch changes the files | parsing from the end of the text, two reads of one mapping | the task goes to the processors of its domain; both directions agree |
| Task mode and admission (`src/task.c`, `src/litmus.c`, `tests/core_api.c`, `setsched`) | scheduling policy, parameters, affinity | `sporadic_*`, `task_mode`, a parent's `sched_setscheduler` | load balancing, plugin switches, parents and children over a pipe | admission while the task runs or sleeps | migration before admission; the child wakes up real-time; children end |
| Locks (`src/litmus.c`, `tests/locks.c`, `nesting.c`, `pcp.c`, `fdso.c`, `rtspin -X`) | object descriptors, lock owners | `litmus_open_lock`, `litmus_lock`, `litmus_unlock`, `od_close` | other tasks, `fork()`, mode changes, death | blocking, nesting rules, an ignored result | exclusion; what is taken is given back; nobody waits for ever; no priority inversion; the tests do not contradict each other |
| Cache-partition monitor (`check_cp_setting` in `ca_spin.c`, `ca_spinwrite.c`, `cpu_spin.c`) | a flag, two kinds of events | `count_bits`, `check_cp_setting`, in every iteration of a job (in `ca_spin_v2.c` the calls are commented out) | the kernel takes partitions away and gives them back | a flag that is reset between two checks, a read that fails | events come in pairs; none while the partitions are there |
| Execution-time files (`get_exec_times` in `rtspin.c`, `rtspin_cache.c`) | a file, read in two passes | counting, reading a column | none | comments, commas, blank and unfinished lines | both passes see the same jobs; every job is run |
| Test runner (`tests/runner.c`, `make_catalog.py`, `tests.h`) | a counter of passed tests, the stdout buffer | `run_test`, `run_tests`, `FORK_TASK`, `waitpid`, `kill` | tests, their children, the kernel's count of waiters | forks, assertions and releases that fail half-way; children that are left behind | ok means ok; tests do not disturb each other; the suite ends |
| System call stubs, clocks, formatting; `uncache.c`; programs that are not built; measurement scripts | | | | | not modelled: single calls, pure I/O, glue |

The hazards the code is exposed to are listed at their lines in `PROJECT.json`
("hazards") with the properties that would notice them going wrong. Those that
only options lead to are in section 6.

## 2. Modules

```
DelayedPreemption  <=refines=  NpSection <- MCNpSection      NpSection_proofs
                               CtrlPage  <- MCCtrlPage       CtrlPage_proofs
SynchronousRelease <=refines=  TaskSystem <- MCTaskSystem    TaskSystem_proofs
                               RtPrograms (the programs TaskSystem runs)
                               CacheArena                    CacheArena_proofs
                   CpuMapping <- Admission <- MCAdmission    Admission_proofs
                   LockPrograms <- Locks                     Locks_proofs
                               PriorityTests
                               Suite     <- MCSuite          Suite_proofs
                   ExecTimes <- SpinJobs <- MCSpinJobs       SpinJobs_proofs
```

A definition whose name ends in an underscore and a word (`Iterations_Early`)
is a variant: the code with a plausible mistake. No specification uses it; it
is what the property it is listed with in `PROJECT.json` ("mutants") rules out.

**DelayedPreemption, NpSection.** `DelayedPreemption` is the contract between
task and scheduler: inside a section a preemption may be owed, and it is paid
after the outermost exit. `NpSection` has one action per memory access of
`kernel_iface.c:117-141`: `EnterNp`/`EnterStore` load and store `++np.flag`;
`ExitNp`/`ExitStore` the `--np.flag` of line 130, `ExitFence` the
`__sync_synchronize()` of line 132, `ExitCheck` the test of line 133,
`SchedYield` the call of line 134. A store buffer per processor (`sb`) drains
by `CommitStore`. The scheduler acts at any point: `Preempt` switches when it
sees no section, `DelayLocally` and `DelayRemotely` set the preempt bit
otherwise. `SharedWord` says whether flag and preempt bit are bit-fields of one
word, so that a store of one also stores what was loaded of the other.

**CtrlPage.** Who maps what, over threads and processes: `PthreadCreate` starts
with no page, `Fork` copies the pointer, `InitKernelIface` maps a page or leaves
MAP_FAILED, `EnterNp` initialises on demand, `GetCtrlPage` hands out the
pointer. `InitAfterFork` says whether a forked child calls `init_rt_thread()`
first, `MmapMayFail` whether `mmap` may fail after `open`.

**RtPrograms, TaskSystem, SynchronousRelease.** `RtPrograms` lists the library
calls of each `main` in order, each with what the program does when it fails.
`TaskSystem` runs them beside `release_ts` (one action per round of
`wait_until_ready`, one for `release_ts()`), the polling parent of a test, and
the launcher of `carun.py`. `SynchronousRelease` is what all this promises:
everybody who takes part starts in one step.

**CacheArena.** `init_arena` step by step (each exchange of the shuffle is an
action, with every result `randrange` can have), then a walk from every starting
line. `randrange` is translated with its quotient and its single retry
condition, so that RAND_MAX matters.

**CpuMapping, Admission.** `CpuMapping` translates `migration.c` as operators
on texts whose digits are sets of bits. `Admission` composes them with the tasks
that use them: `ReadDomain` and `SetAffinity` are the two halves of
`be_migrate_thread_to_domain`, `MigrateToCpu` is `be_migrate_thread_to_cpu`,
`LookUpFirstCpu` the second read in `sporadic_partitioned`, `SetParam` and
`BecomeRealTime` admission by the task or by its parent; the parents and
children are those of `core_api.c` with their pipe. `Balance` and `SetSched`
interfere.

**LockPrograms, Locks.** `LockPrograms` holds the scripts of 42 tests (each
`SYSCALL` and `SYSCALL_FAILS` with its descriptor and expected answer) and the
job of `rtspin -X`. `Locks` is one set of kernel rules inferred from them and
runs each script under each plugin it is listed for, and several rtspin, with
signals, on one semaphore.

**PriorityTests.** The four tests that `Locks` leaves out because time and
priorities decide them: `preempt_on_resume`, `pcp_inheritance`,
`srp_ceiling_blocking`, `lock_dpcp_pcp`, from their release on. Each child is a
list of calls (`Work`, `Sleep`, `LitmusLock`, ...); a child makes its next call
when it runs, and `Tick` lets 25 ms pass when everybody who runs is in a loop.
Who runs (`Above`, `MayRun`, `Runs`) is the kernel's: fixed priorities or
deadlines, inheritance, the ceiling of the SRP, the agent of the DPCP. Deadlines
are computed modulo `Wrap`, as `lt_t` is: `sched.c:39` subtracts from 0.

**Suite.** `runner.c` over processes: `RunTest` to `Report` are `run_test`, with
the buffer of its standard output, which every fork copies; `Kinds` is the
selection `make_catalog.py` makes for a plugin. Tests differ in how many
children they fork, whether these wait for a release and what is asserted of
their status (`Kind`). `ForkTask`, `Poll`, `ReleaseTs`, `Waitpid`, `Signal` are
the steps of the tests' bodies. `Faulty` steps make a fork, an assertion, a
process or a release fail. That only the child with the highest priority comes
to its end (`ChildExits`) is what `KilledInTime` of PriorityTests shows.

**ExecTimes, SpinJobs.** `ExecTimes` is `get_exec_times` on files of tokens,
as operators for one round of each pass; which numbers
a file holds is the constant `Value`. `SpinJobs` runs the passes round by
round (`CountJobs`, `ReadJob`), adds the times up to the end of the program
(`AddTime`, `AddPeriods`) and then runs the jobs: a job is a list of loops (`Parts`), an iteration of a loop takes
processor time while other time passes (`LoopOnce`), and in the programs that do
so each iteration checks the cache partitions (`CheckCpSetting`).

## 3. What the runs check

| run | question | bounds and why they are enough |
|---|---|---|
| `np` | sections and delayed preemptions with separate words: `NpExclusion`, `NoLostPreemption`, `RequestedIffOwed`, `ImplementsPromise`, `PreemptionServed` | two tasks (one to preempt and one to be preempted), nesting 2 (an inner and an outer exit), three buffered stores (more than one exit emits) |
| `np_shared_word` | the same with one word: `NoLostPreemption` is violated | nesting 1 suffices |
| `ctrl_page` | `NoStuckFlag`, `GetCtrlPageOwn`, `OwnFlagOnly` when forked children initialise, `mmap` may fail | three threads: a process with two threads, or three processes |
| `ctrl_page_mmap` | `NoWildAccess` when `mmap` may fail: violated | |
| `release` | `release_ts -w`, `release_ts -f 3` or a test's loop, everything may fail: `NobodyLeftBehind`, `JobsInRealTime`, `SeenAreReleased`, `ReleasesTogether`, `EndsUnlessFailed` | `Operands` 0 (`-w`) and 3 (`-f 3` and a test); three tasks with three different programs: one early, one late, one gone |
| `arena` | `EnumeratesArena`, `EnumeratesHot`, `NoOverrun` | six lines, four of them hot, every shuffle; RAND_MAX above 36 |
| `arena_large` | RAND_MAX = 7 against six lines: `EnumeratesArena` is violated | |
| `admission` | `MappingInv` (types, `SentToDomain`, `MasksAgree`), `InAskedDomain`, `NotRefused`, `InTurn` (`MigratesBefore`, `WakesRealTime`, `StaysInDomain`), `ChildrenEnd` | a child may be late (section 5); for the numbers see below |
| `locks` | `LocksInv` (types, `NeverRefused`, `Exclusion`, `NoLockAtExit`), `TestsPass`, `EverybodyEnds` | tests have two processes; three rtspin with two jobs each, so that a lock is handed over while another waits |
| `priority` | `TestsPass` (types, `AssertionsHold`, `KilledInTime`, `OverInASecond`), `NoInversion`, `NoneKilledInSection` | the tests as they are; loops and sleeps up to 75 ms longer than asked for. With 100 ms the tests fail: `preempt_on_resume` allows its child 200 ms for 100 ms of sleep, `lock_dpcp_pcp` leaves 100 ms before lo exits |
| `suite` | `SuiteInv` (types, `OkIsOk`, `NoLeftovers`), `FailsAlone`, `PrintedOnce`, `SignalsOnlyItsOwn`, `SuiteEnds` | two tests of every two kinds and three in a row, two faults: one to leave a process behind and one to be disturbed by it |
| `spin` | `SpinInv` (types, `WithinWcet`, `EmergencyOnlyIfLong`), `ReadsFile`, `AllJobsRun`, `MarksJustified` (`MarksPaired`, `QuietWhenKept`), `ProgramEnds` | files of up to three of eight lines, columns up to three (a line with one word fewer than asked for, and with two fewer); jobs of four ticks, iterations of one or two, two ticks of delay in each job, and a period of five, which is just what `FileIsExecuted` (section 4) asks for: two of delay and one too many in each of three loops |

Where a run names a property with parts in brackets, it checks their conjunction.

*Scaling of `CpuMapping`.* The code's groups of 8 digits with 4 bits become
groups of 2 digits with 1 bit; five processors then fill two groups and a third
that is short (5 digits) or full (6 digits), the two cases the loop in
`read_mapping` distinguishes. The limits (64 bits of a mask, 4096 processors)
are 5, so that the machine is exactly at both. All processors are online.

*Time.* In `spin` and `priority` it is counted in ticks, so that the clock is
bounded by the program's duration and by the tests' own assertions.

*Symmetry* is used only in the `CtrlPage` runs, which check no liveness (their
`OwnFlagOnly` is an action property that does not name a thread).

*`CHECK_DEADLOCK FALSE`* stands where a system may stop: a killed process, a
campaign that is over or hangs on a failed task, programs that end.

### Fairness

- `NpSection!FairSpec`: a running task executes its next instruction, store
  buffers drain and `sched_yield` returns (weak fairness: processors do that).
  That a section ends is the duty of its caller: strong fairness of `ExitNp`.
- `TaskSystem!FairSpec`: weak fairness of the releaser, the launcher and each
  task: Linux runs what can run. Reading the statistics may fail any finite
  number of times. Signals need not arrive. `EndsUnlessFailed` excuses what failed
  before a release that counts the tasks; `-w` and what fails later have no excuse.
- `Admission!FairSpec`: weak fairness of parents and children only. A parent that
  fails before it lets its child go leaves it blocked or polling: `ChildrenEnd`
  excuses that (`LetGo`) and no other failure.
- `Locks!FairSpec`: weak fairness of each program, strong fairness of
  `LitmusLock`: the protocols queue their waiters, so that a lock which is free
  again and again is granted.
- `Suite!FairSpec`: weak fairness of the runner and of each process: Linux runs
  what can run. Faults need not happen. `SuiteEnds` has the premise that none
  hits a test before its release; without it the polling loops never end.
- `SpinJobs!FairSpec`: weak fairness of the program, whose delays are bounded in
  each job.

## 4. What is proved

TLAPS checks these for every value of the constants that the named assumptions
allow. Each safety proof has an inductive invariant, split by action.

**NpSection_proofs** (`TypeCorrect`, `SectionsExclude`, `NothingLost`,
`RequestedIsOwed`, `Implements`), from `NpAssumption`. The property
`NoLostPreemption` is not inductive: it speaks of finished exits, while what
decides is where the flag's store is. The invariant `IInv` says, for each
position in `enter_np` and `exit_np`, what the flag is in memory, in the store
buffer and in the register; `OwedInv` adds for separate words that a preemption
which is owed has its bit set until the check sees it. Type correctness and
exclusion hold in both layouts, the other three for separate words.

**CtrlPage_proofs** (`TypeCorrect`, `Unstuck`, `OwnPage`, `OwnFlags`,
`NobodyFaults`), for any threads. Under `InitAfterFork` a forked child
re-initialises before any other call, so pointers of running threads differ;
`NobodyFaults` also assumes that `mmap` does not fail after `open`.
`TypeCorrect` assumes neither.

**TaskSystem_proofs** (`TypeCorrect`, `JobsRunReleased`, `LeavesNobodyBehind`,
`Implements`, `ReleasesWhatItSaw`), for any number of tasks, whatever calls and
reads fail. The last three assume that programs wait at most once;
`LeavesNobodyBehind` and `Implements` speak of a release that counts the tasks
(`Counted`). Invariant: waiters are at their wait and real-time (`WaitersWait`),
while the loop runs its numbers do not let it go on, so that a failed read
cannot (`Polling`), between the poll and the release everybody has arrived
(`Arrived`). `ReleasesWhatItSaw` is about `-w` as well as `-f` and the tests
(`Operands` has 0, the number of tasks, or both): when as many tasks wait as are
real-time, the two sets are the same, since waiting tasks are real-time. Reads
that fail do no harm: while release_ts polls, either no read has succeeded yet,
and it has seen no task, or its numbers are those that did not let it go on
(`PollingSeen`). `JobsRunReleased` assumes of the programs that jobs come behind
a wait whose failure ends the program, and that none leaves real-time mode in
between (`JobsAfterWait`). That the programs of `RtPrograms` are of these kinds
is checked by TLC (`ProgramsWaitOnce`, an assumption of `MCTaskSystem`).

**CacheArena_proofs** (`RandRangeInRange`, `TypeCorrect`, `StaysInArena`,
`WalksArena`, `WalksHot`), with limit * limit <= RAND_MAX for the arena's number
of lines: `randrange` stays below its limit, shuffling and walking stay in the
arena, and a walk reads every line once. The shuffle is Sattolo's: its links are
a permutation, each line it has still to place is on a cycle of its own among
those lines, and every cycle has such a line (`Shuffling`). Each exchange joins
two cycles, so that one is left (`OneCycle`). Cycles are spoken of by sets that
the links do not leave, which needs no induction: the lines a walk has read
would be such a set if it came back early. With glibc's RAND_MAX
of 2^31 - 1 the assumption covers 46340 lines of 32 bytes, 1.4 MB; the programs'
default sizes (at most 896 KB) are below.

**Admission_proofs** (`ReadsMask`, `TakesTurns`, `SendsToDomain`,
`AdmittedWhereAsked`, `AdmitsWhoCanBe`), from `AdmissionAssumption`: each parent
forks its own child, processors have numbers, and no domain has a number that
none of the processors has. `ReadsMask` says of `read_mapping()` alone that it
makes of the text of a mask that mask, for any width of digits, groups and
words, provided the text fits into its buffer. What an actor has still to do is
always the rest of the plan of its kind (`PlanInv`), so that its place is a
number; `TurnInv` relates the places of parent and child to the token in their
pipe, and `WayInv` says what a task has found out at each place. For `TakesTurns`
two more facts are needed: a child that was not late is at its read when its
parent goes on (`OnTime`), and real-time tasks are on processors of the domain of
their parameters (`Placed`). `AdmitsWhoCanBe` assumes that the processors online
are numbered from 0, no more than the buffer takes, and covered by the domains
(section 5 says what happens otherwise); `TakesTurns`, `SendsToDomain` and
`AdmittedWhereAsked` assume nothing of the kind.

**Locks_proofs** (`TypeCorrect`, `LocksExclude`, `SpinnersGiveBack`), for any
number of rtspin on one semaphore, any descriptor table and any signals. rtspin
does not look at what `litmus_lock()` answers: the invariant says that its
descriptor is open, that it is real-time and that it holds nothing when it asks,
so that no rule of the kernel refuses it (`NeverRefused`). Types and exclusion are proved for the
scripts of the tests as well.

**Suite_proofs** (`RunsInShape`, `SuiteCorrect`, `PrintsOnce`, `SignalsItsOwn`,
`TestsFailAlone`), for suites of any length and any number of faults,
from `SuiteAssumption`. The shape of a run (`Inv1`) says which test runs, which
of its processes there are, in which step each one is, and what the test knows
of the children it has collected. `PrintsOnce` adds that what is printed and what is in
the runner's buffer hold each line once (nobody else buffers any);
`SignalsItsOwn` that `kill(-1)` takes two faults before a release (`Orphans`);
`TestsFailAlone` that a test goes as planned (`AsPlanned`) when it has no fault
and no test before it had one before its release (`Clean`): then nobody else's
children wait in the kernel, which counts all that do.

**SpinJobs_proofs** (`MarksCanBeTrusted`, `JobsKeepToTheirTimes`,
`FileIsExecuted`, `FileIsRead`), for any file, times, grace, partitions and any duration of an
iteration, as long as iterations have a longest one. `LoopInv` accounts for a
job: what it has used before the current loop, and what this loop and the
later ones may take (their lengths and all but one tick of an iteration each),
stay below its execution time and three iterations; the chunks that `drand48`
cuts add up to it, or to the critical section where that is longer. `RunInv`
bounds the start of each job by the times before it and a period for each. It
needs that the delay of a job and its overrun fit into a period, the hypothesis
of `FileIsExecuted`; then no job is refused, since `main` adds a period for each
job but the first and the last job starts after that many.

`FileIsRead` states `ReadsFile` for files of any length, lines of any words and
any column. The text of a file is its lines one behind the other (`Layout`), so
that a position is a line and a place in it. A search that starts in a line ends
at the line's next word, blank or newline, hence a round of the first pass goes
from the beginning of a line to the one behind the next job (`CountRound`), and
so does a round of the second pass when that job reaches to the column, with the
number that is there (`ReadRound`). `FileInv` says that the passes have counted,
and read, exactly the jobs before the line they are at; of a file with shorter
lines it only says that the second pass does not see the end of a file that ends
in a newline (`ReadRange`), which is what the assertion needs. The recursions
(`FlattenSeq`, `SkipComments`, `Column`) are functions on intervals of numbers.
The library's induction theorems take an operator, which the provers cannot
instantiate; `Ascend` replaces them: of the numbers up to n that are not in a set
there would be a least one (`MinIs`), so a set that has 0 and all successors has
them all. With it it is proved that each of these functions exists, so that the
CHOOSE which defines it satisfies its equation, and then what it returns.

Only model-checked:

- liveness (`PreemptionServed`, `EndsUnlessFailed`, `ChildrenEnd`,
  `EverybodyEnds`, `SuiteEnds`, `ProgramEnds`), which needs fairness and ENABLED;
- `TestsPass` of Locks: the scripts of the tests are fixed, and neither the number
  of rtspin nor more descriptors than they open make a difference to them, so TLC
  explores all their runs;
- `TestsPass`, `NoInversion` and `NoneKilledInSection` of PriorityTests: whether
  the tests pass depends on how much longer than asked for a loop or a sleep may
  be (`Jitter`); they compare it with the fixed times of the tests. TLC explores all
  their runs for the tolerance and release time of section 3.

## 5. Findings

1. `np_shared_word`: with flag and preempt bit in one word, the load and store
   of `--np.flag` (`kernel_iface.c:130`) can overwrite a request that arrives in
   between; the check that follows "let's check for delayed preemptions" misses
   it. (The header that defines `union np_flag` is the kernel's.)
2. `ctrl_page_mmap`: a failed `mmap` leaves MAP_FAILED in `ctrl_page`, which
   passes for a page in the next call.
3. `arena_large`: `randrange` retries only for one of the values that are out of
   range; with glibc this starts at a limit of 46409 lines.

Observed, without a run of their own:

- `get_ctrl_page` returns "the current tasks control page" (`litmus.h:416`), but
  after `fork()` the child has its parent's pointer until it calls
  `init_rt_thread()`: `GetCtrlPageOwn` needs `InitAfterFork`.
- `release_ts -w` takes the initial 0 and 0 for an answer when its first read of
  the statistics fails, and releases at once, without having seen any task.
  `SeenAreReleased` speaks of the tasks that it saw: later reads that fail do no
  harm.
- `base_task` and `base_mt_task` go on after a failed call (`base_task.c:36`): their
  jobs may run in a background task. `JobsInRealTime` is about the jobs of the
  programs that bail out.
- `be_migrate_thread_to_cpu` (`migration.c:190`) takes the "ID for CPU to migrate
  to" (`migration.h:17`) and compares it with the count of those online: with
  processors 0 and 2 online, 2 is refused. `domain_to_first_cpu`
  (`migration.c:163`) ends its search there too. `NotRefused` holds with all
  processors online.
- `loop_for`'s emergency exit "should only be possible if the execution time
  tracking is broken" (`rtspin.c:128`); it needs only a job longer than a second
  that starts just before the end of the program (`EmergencyOnlyIfLong`).
- With an unfinished last line and a line that does not reach to the column
  `get_exec_times` aborts in its assertion (`ReadsFile`). That line may be blank;
  or it is short and takes its column from the next one, so that two lines are
  one job of the second pass (with `-o 2`: "1", "1", "1", "4 1" without a
  newline). An unfinished last line alone is dropped, and
  "1,4" has no second column, since `%*s` reads the comma.
- With `-f` and `-s`, or with a critical section longer than a job, the duration
  (`rtspin.c:330`) is too short for the jobs, and the last ones are skipped in
  silence.
- `-C` sets what `check_cp_setting` compares with; without it that is 0 while the
  task asks for 8 partitions, so that every check marks an event.
- The duration that `check_cp_setting` prints runs from the start of the job to the last
  failed check, not for as long as partitions were missing.
- `rt_fork_non_rt` and `not_inherit_od` look at WEXITSTATUS alone: a child that a
  signal ends passes (`OkIsOk` says which tests).
- A fork that fails in `FORK_TASK` is not noticed; with a second fault the child
  with the highest priority calls `kill(-1, SIGUSR2)` (`SignalsOnlyItsOwn`).
- A test that exits with another status than 0 is counted as failed, but
  `run_test` prints no verdict for it.
- `sched.c:39` and `pcp.c:188, 205` subtract from a relative deadline of 0; the
  tests work under PSN-EDF because the kernel's sum wraps back.
- `suspended_admission` gives its child 100 ms to migrate before it admits it
  (`core_api.c:203`). A child that needs longer (`late`) calls
  `be_migrate_to_cpu` as a real-time task, which `migration.h:18` forbids;
  `MigratesBefore` excuses it. It wakes up as a real-time task in its domain all
  the same (`WakesRealTime`, `StaysInDomain`).
- The child of `suspended_admission` holds the write end of the pipe it reads
  from, so that it reads for ever when its parent fails before it writes the token.
- The six `*_lock_teardown` tests call `exit(0)` before they fork the task
  (`locks.c:294, 333, 372`, `pcp.c:583, 622, 661`), so that what they are named
  for is never exercised, and reported as ok.
- `core_api.c:190, 263` assign in their assertion (`err = sizeof(token)`);
  `task.c:28` sets `errno` to `-EINVAL`; `migration.h` declares
  `be_migrate_thread_to_cluster`, which is nowhere defined.
- `SYSCALL_FAILS` (`tests.h:59`) accepts a positive answer when `errno` still
  holds the expected error of an earlier call.
- `release_ts -w` may release before some task is real-time: the statistics
  cannot tell, and `SeenAreReleased` claims no more.

## 6. Not modelled

Deadlines and budgets beyond what `PriorityTests` needs: they are the kernel's.
Parsing of options and task files (with what it leaves uninitialised or wraps:
`ca_spin_v2` without `-D`, with `-C 0` or with `-S` above the arena's size, `ca_spin -l -1`), formatting,
clocks, cycle counters, tracing tools, `uncache.c` (a driver's test) and the
programs no rule of the Makefile builds. `jobs_are_rate_limited` and the
parameter checks of `core_api.c` are single calls whose answers the kernel
decides. In the kernel's rules only what the tests insist on.

## 7. Plan

Done in this order, the most important behaviour first: NpSection (with its
abstract specification and proofs), CtrlPage, TaskSystem, CacheArena,
CpuMapping with Admission, Locks, Suite, ExecTimes with SpinJobs, PriorityTests.

Then the proofs, each component's safety invariants in the same order, and the
reading of execution-time files last, since it needs induction over the file.
Section 4 names what stays with TLC.

Next: the refinement of a specification of mutual exclusion by Locks, and of one
of independent tests by Suite.
