-------------------------- MODULE TaskSystem_proofs --------------------------
(***************************************************************************)
(* Proofs about TaskSystem, for any number of tasks and any programs that  *)
(* wait for the release at most once: when release_ts -f, or a test's      *)
(* parent, waits for as many tasks as the task system has, nobody is left  *)
(* behind, whatever calls and reads fail on the way; and release_ts -w     *)
(* releases no task that it saw before that task waits, whatever reads     *)
(* fail after the one it saw the task in.  Whatever is expected and fails, *)
(* a task that comes to its jobs is in real-time mode and was released.    *)
(***************************************************************************)
EXTENDS TaskSystem, FiniteSetTheorems, TLAPS

AtWait(t) ==
  at[t] <= Len(Program[t]) /\ Program[t][at[t]].call = "wait_for_ts_release"

\* Waiting tasks are at their wait, and in real-time mode.
WaitersWait == \A t \in Task : status[t] = "waiting" => AtWait(t) /\ t \in realtime

\* While release_ts polls, the numbers it has do not let it go on, so that a
\* failed read cannot either.
Polling ==
  /\ launcher = "launch" => releaser = "unborn"
  /\ releaser \in {"unborn", "poll"} => expected = 0 \/ ready < expected

\* Between the poll and the release nobody can arrive: all have.
Arrived ==
  Counted /\ releaser = "release" => \A t \in Task : status[t] \in {"waiting", "exited", "failed"}

IInv == TypeOK /\ WaitersWait /\ Polling /\ Arrived /\ NobodyLeftBehind

\* With -w there is no test that polls; while release_ts does, it has seen no task
\* or has numbers that do not let it go on; and what was seen is released.
PollingSeen ==
  /\ launcher = "launch" => releaser = "unborn"
  /\ releaser # "poll_test"
  /\ releaser \in {"unborn", "poll"} => seen = {} \/ ready < all

SeenInv == TypeOK /\ WaitersWait /\ (expected = 0 => PollingSeen /\ SeenAreReleased)

-----------------------------------------------------------------------------
(* Lemmas.                                                                 *)

\* Programs have a length.
LEMMA ProgramType == \A t \in Task : Len(Program[t]) \in Nat
  BY TaskSystemAssumption

\* The numbers that read_litmus_stats() returns.
LEMMA StatsType ==
  ASSUME TypeOK, WaitersWait
  PROVE  /\ Cardinality(Waiting) \in Nat /\ Cardinality(realtime) \in Nat
         /\ Cardinality(Waiting) <= Cardinality(realtime)
         /\ Cardinality(Waiting) <= Cardinality(Task)
         /\ Cardinality(Waiting) = Cardinality(Task) => Waiting = Task
<1>1. IsFiniteSet(Task) BY TaskSystemAssumption
<1>2. Waiting \subseteq Task /\ realtime \subseteq Task BY DEF Waiting, TypeOK
<1>3. Waiting \subseteq realtime BY DEF Waiting, WaitersWait
<1>4. IsFiniteSet(realtime) BY <1>1, <1>2, FS_Subset
<1>5. IsFiniteSet(Waiting) BY <1>1, <1>2, FS_Subset
<1>6. Cardinality(Waiting) \in Nat /\ Cardinality(realtime) \in Nat
  BY <1>4, <1>5, FS_CardinalityType
<1>7. Cardinality(Waiting) <= Cardinality(realtime) BY <1>3, <1>4, FS_Subset
<1>8. /\ Cardinality(Waiting) <= Cardinality(Task)
      /\ Cardinality(Task) = Cardinality(Waiting) => Task = Waiting
  BY <1>1, <1>2, FS_Subset
<1>9. QED BY <1>6, <1>7, <1>8

\* When as many tasks wait as the task system has, all tasks wait.
LEMMA AllWait ==
  ASSUME TypeOK, WaitersWait, Counted, expected <= Cardinality(Waiting)
  PROVE  \A t \in Task : status[t] = "waiting"
<1>1. Cardinality(Waiting) = Cardinality(Task)
  BY StatsType, FS_CardinalityType, TaskSystemAssumption DEF Counted
<1>2. Waiting = Task BY <1>1, StatsType
<1>3. QED BY <1>2 DEF Waiting

\* There is no task when none is expected.
LEMMA NoTask ==
  ASSUME Counted, expected = 0
  PROVE  Task = {}
  BY FS_EmptySet, TaskSystemAssumption DEF Counted

\* What a task that has not reached its wait has ahead of it does not depend
\* on the calls before it.
LEMMA StillAhead ==
  ASSUME TypeOK, NEW t \in Task, at[t] <= Len(Program[t]),
         Program[t][at[t]].call # "wait_for_ts_release"
  PROVE  (\E i \in at[t]..Len(Program[t]) : Program[t][i].call = "wait_for_ts_release")
         <=> (\E i \in at[t] + 1..Len(Program[t]) : Program[t][i].call = "wait_for_ts_release")
<1>1. at[t] \in Nat BY DEF TypeOK
<1>2. Len(Program[t]) \in Nat BY ProgramType
<1>3. \A i \in at[t]..Len(Program[t]) : i = at[t] \/ i \in at[t] + 1..Len(Program[t])
  BY <1>1, <1>2
<1>4. \A i \in at[t] + 1..Len(Program[t]) : i \in at[t]..Len(Program[t])
  BY <1>1, <1>2
<1>5. QED BY <1>3, <1>4

\* A task past its wait has none ahead of it.
LEMMA NoneAhead ==
  ASSUME TypeOK, NEW t \in Task, AtWait(t), WaitsOnce(Program[t])
  PROVE  ~ \E i \in at[t] + 1..Len(Program[t]) : Program[t][i].call = "wait_for_ts_release"
<1>1. at[t] \in 1..Len(Program[t]) BY ProgramType DEF TypeOK, AtWait
<1>2. SUFFICES ASSUME NEW i \in at[t] + 1..Len(Program[t]),
                      Program[t][i].call = "wait_for_ts_release"
               PROVE  FALSE
  OBVIOUS
<1>3. i \in 1..Len(Program[t]) /\ i # at[t] BY <1>1, ProgramType
<1>4. QED BY <1>1, <1>2, <1>3 DEF AtWait, WaitsOnce

-----------------------------------------------------------------------------
(* What every step preserves, whatever is expected: types, waiters in      *)
(* real-time mode, and that nobody who is past its wait gets a new one.    *)

LEMMA InitBase == Init => TypeOK /\ WaitersWait
<1> SUFFICES ASSUME Init PROVE TypeOK /\ WaitersWait
  OBVIOUS
<1>1. TypeOK BY ProgramType DEF Init, TypeOK, Status
<1>2. WaitersWait BY DEF Init, WaitersWait
<1>3. QED BY <1>1, <1>2

\* What a step of one task comes down to: a call returns, the task starts to
\* wait, or it is gone.
LEMMA TaskStepCases ==
  ASSUME TypeOK, NEW t \in Task, TaskStep(t) \/ Interrupt(t)
  PROVE  /\ UNCHANGED <<releaserVars, launcher>>
         /\ \/ /\ Return(t) /\ UNCHANGED status
               /\ status[t] = "running" /\ at[t] <= Len(Program[t])
               /\ Program[t][at[t]].call # "wait_for_ts_release"
                  \/ Program[t][at[t]].fail = "ignore"
               /\ admitted' \in {admitted, admitted \cup {t}}
               /\ \/ UNCHANGED realtime
                  \/ t \in admitted /\ realtime' = realtime \cup {t}
                  \/ realtime' = realtime \ {t}
            \/ /\ UNCHANGED <<at, admitted, realtime>>
               /\ status[t] = "running" /\ AtWait(t) /\ t \in realtime
               /\ status' = [status EXCEPT ![t] = "waiting"]
            \/ /\ UNCHANGED at
               /\ status[t] \in {"running", "waiting"}
               /\ \E s \in {"exited", "failed"} : Exit(t, s)
<1>1. UNCHANGED <<releaserVars, launcher>>
  BY DEF TaskStep, SetRtTaskParam, TaskModeRt, TaskModeBg, WaitForTsRelease, PlainCall,
         FailCall, Finish, Interrupt
<1>2. at[t] \in 1..Len(Program[t]) + 1 /\ Len(Program[t]) \in Nat
  BY ProgramType DEF TypeOK
<1>3. QED
  BY <1>1, <1>2
  DEF TaskStep, SetRtTaskParam, TaskModeRt, TaskModeBg, WaitForTsRelease, PlainCall,
      FailCall, Finish, Interrupt, Reaches, CanBecomeRt, AtWait, Plain

LEMMA TaskStepBase ==
  ASSUME TypeOK, WaitersWait, NEW t \in Task, TaskStep(t) \/ Interrupt(t)
  PROVE  /\ TypeOK' /\ WaitersWait'
         /\ \A u \in Task : SettingUp(u)' => SettingUp(u)
<1>1. at[t] \in Nat /\ Len(Program[t]) \in Nat /\ at[t] \in 1..Len(Program[t]) + 1
  BY ProgramType DEF TypeOK
<1>2. UNCHANGED <<releaserVars, launcher>> BY TaskStepCases
<1>4. CASE Return(t) /\ UNCHANGED status /\ status[t] = "running" /\ at[t] <= Len(Program[t])
           /\ admitted' \in {admitted, admitted \cup {t}}
           /\ \/ UNCHANGED realtime
              \/ t \in admitted /\ realtime' = realtime \cup {t}
              \/ realtime' = realtime \ {t}
  <2>1. at' = [at EXCEPT ![t] = @ + 1] BY <1>4 DEF Return
  <2>2. at' \in [Task -> Nat] /\ at'[t] = at[t] + 1 /\ \A u \in Task \ {t} : at'[u] = at[u]
    BY <2>1, <1>1 DEF TypeOK
  <2>3. \A u \in Task : at'[u] \in 1..Len(Program[u]) + 1
    BY <2>2, <1>1, <1>4 DEF TypeOK
  <2>4. admitted' \subseteq Task /\ realtime' \subseteq admitted'
    BY <1>4 DEF TypeOK
  <2>5. TypeOK' BY <1>2, <1>4, <2>2, <2>3, <2>4 DEF TypeOK, releaserVars
  <2>6. WaitersWait' BY <1>4, <2>2 DEF WaitersWait, AtWait
  <2>7. \A u \in Task : SettingUp(u)' => SettingUp(u)
    BY <1>1, <1>4, <2>2 DEF SettingUp
  <2>8. QED BY <2>5, <2>6, <2>7
<1>5. CASE /\ UNCHANGED <<at, admitted, realtime>>
           /\ status[t] = "running" /\ AtWait(t) /\ t \in realtime
           /\ status' = [status EXCEPT ![t] = "waiting"]
  <2>1. /\ status' \in [Task -> Status] /\ status'[t] = "waiting"
        /\ \A u \in Task \ {t} : status'[u] = status[u]
    BY <1>5 DEF TypeOK, Status
  <2>2. TypeOK' BY <1>2, <1>5, <2>1 DEF TypeOK, releaserVars
  <2>3. WaitersWait' BY <1>5, <2>1 DEF WaitersWait, AtWait
  <2>4. \A u \in Task : SettingUp(u)' => SettingUp(u) BY <1>5, <2>1 DEF SettingUp
  <2>5. QED BY <2>2, <2>3, <2>4
<1>6. CASE /\ UNCHANGED at
           /\ status[t] \in {"running", "waiting"}
           /\ \E s \in {"exited", "failed"} : Exit(t, s)
  <2>1. PICK s \in {"exited", "failed"} : Exit(t, s) BY <1>6
  <2>2. /\ status' \in [Task -> Status] /\ status'[t] = s
        /\ \A u \in Task \ {t} : status'[u] = status[u]
    BY <2>1 DEF TypeOK, Status, Exit
  <2>3. admitted' = admitted \ {t} /\ realtime' = realtime \ {t}
    BY <2>1 DEF Exit
  <2>4. TypeOK' BY <1>2, <1>6, <2>2, <2>3 DEF TypeOK, releaserVars
  <2>5. WaitersWait' BY <1>6, <2>2, <2>3 DEF WaitersWait, AtWait
  <2>6. \A u \in Task : SettingUp(u)' => SettingUp(u) BY <1>6, <2>2 DEF SettingUp
  <2>7. QED BY <2>4, <2>5, <2>6
<1>7. QED BY <1>4, <1>5, <1>6, TaskStepCases

LEMMA PollBase ==
  ASSUME TypeOK, WaitersWait, WaitUntilReady \/ PollWaiters
  PROVE  /\ UNCHANGED taskVars /\ UNCHANGED <<expected, launcher>>
         /\ releaser \in {"poll", "poll_test"}
         /\ releaser' \in {"poll", "poll_test", "release", "failed"}
         /\ \/ ready' = Cardinality(Waiting) /\ all' = Cardinality(realtime) /\ seen' = realtime
            \/ UNCHANGED <<ready, all, seen>>
         /\ TypeOK' /\ WaitersWait'
<1>1. UNCHANGED taskVars /\ UNCHANGED <<expected, launcher>>
      /\ releaser \in {"poll", "poll_test"}
      /\ releaser' \in {"poll", "poll_test", "release", "failed"}
  BY DEF WaitUntilReady, PollWaiters
<1>2. \/ ready' = Cardinality(Waiting) /\ all' = Cardinality(realtime) /\ seen' = realtime
      \/ UNCHANGED <<ready, all, seen>>
  BY DEF WaitUntilReady, PollWaiters, ReadLitmusStats
<1>3. ready' \in Nat /\ all' \in Nat /\ ready' <= all' /\ seen' \subseteq Task
  BY <1>2, StatsType DEF TypeOK
<1>4. TypeOK' BY <1>1, <1>3 DEF TypeOK, taskVars
<1>5. WaitersWait' BY <1>1 DEF WaitersWait, AtWait, taskVars
<1>6. QED BY <1>1, <1>2, <1>4, <1>5

LEMMA ReleaseTypes ==
  ASSUME TypeOK, WaitersWait, ReleaseTs
  PROVE  /\ UNCHANGED <<admitted, realtime, expected, ready, all, seen, launcher>>
         /\ releaser = "release" /\ releaser' \in {"done", "failed"}
         /\ releaser' = "done" => \A t \in Task : status'[t] # "waiting"
         /\ TypeOK' /\ WaitersWait'
<1>1. UNCHANGED <<admitted, realtime, expected, ready, all, seen, launcher>> /\ releaser = "release"
      /\ releaser' \in {"done", "failed"}
  BY DEF ReleaseTs
<1>2. CASE UNCHANGED <<status, at>> /\ releaser' = "failed"
  <2>1. TypeOK' BY <1>1, <1>2 DEF TypeOK
  <2>2. WaitersWait' BY <1>1, <1>2 DEF WaitersWait, AtWait
  <2>3. QED BY <1>1, <1>2, <2>1, <2>2
<1>3. CASE /\ status' = [t \in Task |-> IF t \in Waiting THEN "running" ELSE status[t]]
           /\ at' = [t \in Task |-> IF t \in Waiting THEN at[t] + 1 ELSE at[t]]
           /\ releaser' = "done"
  <2>1. \A t \in Task : at[t] \in Nat /\ Len(Program[t]) \in Nat
    BY ProgramType DEF TypeOK
  <2>2. status' \in [Task -> Status] BY <1>3 DEF TypeOK, Status
  <2>3. at' \in [Task -> Nat] BY <1>3, <2>1
  <2>4. \A t \in Waiting : AtWait(t) BY DEF WaitersWait, Waiting
  <2>5. \A t \in Task : at'[t] \in 1..Len(Program[t]) + 1
    BY <1>3, <2>1, <2>4 DEF TypeOK, AtWait
  <2>6. TypeOK' BY <1>1, <1>3, <2>2, <2>3, <2>5 DEF TypeOK
  <2>7. \A t \in Task : status'[t] # "waiting" BY <1>3 DEF Waiting
  <2>8. WaitersWait' BY <2>7 DEF WaitersWait
  <2>9. QED BY <1>1, <2>6, <2>7, <2>8
<1>4. QED BY <1>2, <1>3 DEF ReleaseTs

LEMMA ReleaseBase ==
  ASSUME TypeOK, WaitersWait, \A t \in Task : WaitsOnce(Program[t]), ReleaseTs
  PROVE  /\ UNCHANGED <<admitted, realtime, expected, ready, all, seen, launcher>>
         /\ releaser = "release" /\ releaser' \in {"done", "failed"}
         /\ releaser' = "done" => \A t \in Task : status'[t] # "waiting"
         /\ TypeOK' /\ WaitersWait'
         /\ \A u \in Task : SettingUp(u)' => SettingUp(u)
<1>1. CASE UNCHANGED <<status, at>>
  <2>1. \A u \in Task : SettingUp(u)' => SettingUp(u) BY <1>1 DEF SettingUp
  <2>2. QED BY <2>1, ReleaseTypes
<1>2. CASE /\ status' = [t \in Task |-> IF t \in Waiting THEN "running" ELSE status[t]]
           /\ at' = [t \in Task |-> IF t \in Waiting THEN at[t] + 1 ELSE at[t]]
  <2>1. \A t \in Waiting : AtWait(t) BY DEF WaitersWait, Waiting
  <2>2. ASSUME NEW t \in Task PROVE SettingUp(t)' => SettingUp(t)
    <3>1. CASE t \in Waiting
      <4>1. at'[t] = at[t] + 1 BY <1>2, <3>1
      <4>2. ~ \E i \in at[t] + 1..Len(Program[t]) : Program[t][i].call = "wait_for_ts_release"
        BY <2>1, <3>1, NoneAhead
      <4>3. QED BY <4>1, <4>2 DEF SettingUp
    <3>2. CASE t \notin Waiting BY <1>2, <3>2 DEF SettingUp
    <3>3. QED BY <3>1, <3>2
  <2>3. QED BY <2>2, ReleaseTypes
<1>3. QED BY <1>1, <1>2 DEF ReleaseTs

LEMMA LauncherBase ==
  ASSUME TypeOK, WaitersWait, LauncherStep
  PROVE  /\ TypeOK' /\ WaitersWait'
         /\ UNCHANGED <<expected, ready, all, seen>>
         /\ (releaser' = releaser \/ (launcher' = "join" /\ releaser' \in {"poll", "poll_test"}))
         /\ \A u \in Task : SettingUp(u)' => SettingUp(u)
         /\ \A u \in Task : status'[u] = status[u] \/ (status[u] = "unborn" /\ status'[u] = "running")
<1>1. CASE LaunchReleaser \/ Join
  <2>1. UNCHANGED taskVars /\ UNCHANGED <<expected, ready, all, seen>>
        /\ launcher' \in {"join", "done"}
        /\ (releaser' = releaser \/ (launcher' = "join" /\ releaser' \in {"poll", "poll_test"}))
    BY <1>1 DEF LaunchReleaser, Join, releaserVars
  <2>2. TypeOK' BY <2>1 DEF TypeOK, taskVars
  <2>3. WaitersWait' BY <2>1 DEF WaitersWait, AtWait, taskVars
  <2>4. \A u \in Task : SettingUp(u)' => SettingUp(u) BY <2>1 DEF SettingUp, taskVars
  <2>5. QED BY <2>1, <2>2, <2>3, <2>4 DEF taskVars
<1>2. ASSUME NEW t \in Task, LaunchTask(t)
      PROVE  /\ TypeOK' /\ WaitersWait'
             /\ UNCHANGED <<releaserVars, launcher>>
             /\ \A u \in Task : SettingUp(u)' => SettingUp(u)
             /\ \A u \in Task : status'[u] = status[u] \/ (status[u] = "unborn" /\ status'[u] = "running")
  <2>1. UNCHANGED <<at, admitted, realtime, releaserVars, launcher>>
        /\ status[t] = "unborn" /\ status' = [status EXCEPT ![t] = "running"]
    BY <1>2 DEF LaunchTask
  <2>2. /\ status' \in [Task -> Status] /\ status'[t] = "running"
        /\ \A u \in Task \ {t} : status'[u] = status[u]
    BY <2>1 DEF TypeOK, Status
  <2>3. TypeOK' BY <2>1, <2>2 DEF TypeOK, releaserVars
  <2>4. WaitersWait' BY <2>1, <2>2 DEF WaitersWait, AtWait
  <2>5. \A u \in Task : SettingUp(u)' => SettingUp(u)
    BY <2>1, <2>2 DEF SettingUp
  <2>6. QED BY <2>1, <2>2, <2>3, <2>4, <2>5
<1>3. QED BY <1>1, <1>2 DEF LauncherStep, releaserVars

LEMMA StutterBase ==
  ASSUME TypeOK, WaitersWait, UNCHANGED vars
  PROVE  TypeOK' /\ WaitersWait' /\ \A u \in Task : SettingUp(u)' <=> SettingUp(u)
<1>1. TypeOK' BY DEF vars, TypeOK
<1>2. WaitersWait' BY DEF vars, WaitersWait, AtWait
<1>3. \A u \in Task : SettingUp(u)' <=> SettingUp(u) BY DEF vars, SettingUp
<1>4. QED BY <1>1, <1>2, <1>3

-----------------------------------------------------------------------------
(* The invariant for -f and for tests.                                     *)

LEMMA InitInv == Init => IInv
<1> SUFFICES ASSUME Init PROVE IInv
  OBVIOUS
<1>1. Arrived /\ NobodyLeftBehind BY DEF Init, Arrived, NobodyLeftBehind
<1>2. Polling BY TaskSystemAssumption DEF Init, Polling
<1>3. QED BY <1>1, <1>2, InitBase DEF IInv

\* Between poll and release no task runs, and after it none starts to wait.
LEMMA TaskStepInv ==
  ASSUME IInv, NEW t \in Task, TaskStep(t) \/ Interrupt(t)
  PROVE  IInv'
<1> USE DEF IInv
<1>1. UNCHANGED <<releaserVars, launcher>> BY TaskStepCases
<1>2. TypeOK' /\ WaitersWait' /\ \A u \in Task : SettingUp(u)' => SettingUp(u)
  BY TaskStepBase
<1>3. Polling' BY <1>1 DEF Polling, releaserVars
<1>4. \A u \in Task : status'[u] \in {status[u], "waiting", "exited", "failed"}
  BY TaskStepCases DEF TypeOK, Exit
<1>5. Arrived' BY <1>1, <1>4 DEF Arrived, Counted, releaserVars
<1>6. ASSUME Counted, releaser = "done", NEW u \in Task, status'[u] = "waiting" PROVE FALSE
  <2>1. ~SettingUp(t) /\ status[u] # "waiting" BY <1>6 DEF NobodyLeftBehind
  <2>2. status[t] = "running" /\ AtWait(t)
    BY <1>6, <2>1, TaskStepCases DEF TypeOK, Exit
  <2>3. at[t] \in Nat /\ Len(Program[t]) \in Nat BY ProgramType DEF TypeOK
  <2>4. SettingUp(t) BY <2>2, <2>3 DEF SettingUp, AtWait
  <2>5. QED BY <2>1, <2>4
<1>7. NobodyLeftBehind' BY <1>1, <1>2, <1>6 DEF NobodyLeftBehind, Counted, releaserVars
<1>8. QED BY <1>2, <1>3, <1>5, <1>7

\* A poll ends only when everyone waits.
LEMMA PollInv ==
  ASSUME IInv, WaitUntilReady \/ PollWaiters
  PROVE  IInv'
<1> USE DEF IInv
<1>1. UNCHANGED taskVars /\ UNCHANGED <<expected, launcher>> /\ TypeOK' /\ WaitersWait'
      /\ releaser \in {"poll", "poll_test"}
      /\ releaser' \in {"poll", "poll_test", "release", "failed"}
  BY PollBase
<1>2. ready' = Cardinality(Waiting) \/ UNCHANGED <<ready, all>> BY PollBase
<1>5. ready \in Nat /\ ready' \in Nat /\ expected \in Nat
  BY <1>1, TaskSystemAssumption DEF TypeOK
<1>6. Polling'
  <2>1. ASSUME releaser' = "poll"
        PROVE  expected' = 0 \/ ready' < expected'
    <3>1. ~Satisfied(ready', all')
      BY <2>1 DEF WaitUntilReady, PollWaiters
    <3>2. QED BY <1>1, <1>5, <2>1, <3>1 DEF Satisfied
  <2>2. launcher' # "launch" BY <1>1 DEF Polling
  <2>3. QED BY <1>1, <2>1, <2>2 DEF Polling
<1>7. Arrived'
  <2>1. SUFFICES ASSUME Counted, releaser' = "release", Task # {}
                 PROVE  \A t \in Task : status[t] = "waiting"
    BY <1>1 DEF Arrived, Counted, taskVars
  <2>2. expected # 0 BY <2>1, NoTask
  <2>3. Satisfied(ready', all') \/ ready' = expected
    BY <2>1 DEF WaitUntilReady, PollWaiters
  <2>4. expected <= ready' BY <1>5, <2>3 DEF Satisfied
  <2>5. ready' = Cardinality(Waiting)
    <3>1. CASE PollWaiters
      BY <2>1, <3>1 DEF WaitUntilReady, PollWaiters, ReadLitmusStats
    <3>2. CASE WaitUntilReady
      <4>1. ready < expected BY <2>2, <3>2 DEF WaitUntilReady, Polling
      <4>2. QED BY <1>2, <1>5, <2>4, <4>1
    <3>3. QED BY <3>1, <3>2
  <2>6. QED BY <2>1, <2>4, <2>5, AllWait
<1>8. NobodyLeftBehind' BY <1>1 DEF NobodyLeftBehind, Counted
<1>9. QED BY <1>1, <1>6, <1>7, <1>8

\* The release reaches everyone that is not gone.
LEMMA ReleaseInv ==
  ASSUME IInv, \A t \in Task : WaitsOnce(Program[t]), ReleaseTs
  PROVE  IInv'
<1> USE DEF IInv
<1>1. /\ TypeOK' /\ WaitersWait' /\ UNCHANGED <<expected, launcher>>
      /\ releaser = "release" /\ releaser' \in {"done", "failed"}
      /\ \A u \in Task : SettingUp(u)' => SettingUp(u)
      /\ releaser' = "done" => \A t \in Task : status'[t] # "waiting"
  BY ReleaseBase
<1>2. Polling' /\ Arrived' BY <1>1 DEF Polling, Arrived
<1>3. Counted => \A u \in Task : ~SettingUp(u) BY <1>1 DEF Arrived, SettingUp
<1>4. NobodyLeftBehind' BY <1>1, <1>3 DEF NobodyLeftBehind, Counted
<1>5. QED BY <1>1, <1>2, <1>4

LEMMA LauncherInv == ASSUME IInv, LauncherStep PROVE IInv'
<1> USE DEF IInv
<1>1. /\ TypeOK' /\ WaitersWait' /\ UNCHANGED <<expected, ready>>
      /\ (releaser' = releaser \/ (launcher' = "join" /\ releaser' \in {"poll", "poll_test"}))
      /\ \A u \in Task : SettingUp(u)' => SettingUp(u)
      /\ \A u \in Task : status'[u] = status[u] \/ (status[u] = "unborn" /\ status'[u] = "running")
  BY LauncherBase
<1>2. Polling'
  BY DEF LauncherStep, LaunchReleaser, Join, LaunchTask, Polling, releaserVars
<1>3. Arrived' /\ NobodyLeftBehind' BY <1>1 DEF Arrived, NobodyLeftBehind, Counted
<1>4. QED BY <1>1, <1>2, <1>3

LEMMA NextInv ==
  ASSUME IInv, [Next]_vars, \A t \in Task : WaitsOnce(Program[t])
  PROVE  IInv'
<1>1. CASE ReleaserStep BY <1>1, PollInv, ReleaseInv DEF ReleaserStep
<1>2. CASE LauncherStep BY <1>2, LauncherInv
<1>3. CASE \E t \in Task : TaskStep(t) \/ Interrupt(t) BY <1>3, TaskStepInv
<1>4. CASE UNCHANGED vars
  <2>1. TypeOK' /\ WaitersWait' /\ \A u \in Task : SettingUp(u)' <=> SettingUp(u)
    BY <1>4, StutterBase DEF IInv
  <2>2. Polling' /\ Arrived' /\ NobodyLeftBehind'
    BY <1>4, <2>1 DEF IInv, vars, Polling, Arrived, NobodyLeftBehind, Counted
  <2>3. QED BY <2>1, <2>2 DEF IInv
<1>5. QED BY <1>1, <1>2, <1>3, <1>4 DEF Next

-----------------------------------------------------------------------------
(* The invariant for -w.                                                   *)

\* When as many tasks wait as are real-time, all that are real-time wait.
LEMMA AllSeenWait ==
  ASSUME TypeOK, WaitersWait, Cardinality(realtime) <= Cardinality(Waiting)
  PROVE  Waiting = realtime
<1>1. IsFiniteSet(realtime)
  <2>1. realtime \subseteq Task BY DEF TypeOK
  <2>2. QED BY <2>1, FS_Subset, TaskSystemAssumption
<1>2. Waiting \subseteq realtime BY DEF Waiting, WaitersWait
<1>3. Cardinality(Waiting) = Cardinality(realtime) BY StatsType
<1>4. QED BY <1>1, <1>2, <1>3, FS_Subset

LEMMA PollSeen ==
  ASSUME SeenInv, expected = 0, WaitUntilReady
  PROVE  PollingSeen' /\ SeenAreReleased'
<1>1. /\ UNCHANGED taskVars /\ UNCHANGED <<expected, launcher>>
      /\ TypeOK' /\ WaitersWait' /\ TypeOK /\ WaitersWait
  BY PollBase DEF SeenInv
<1>2. releaser = "poll" /\ releaser' = IF ready' >= all' THEN "release" ELSE "poll"
  BY <1>1 DEF WaitUntilReady, Satisfied, TypeOK
<1>3. launcher' # "launch" BY <1>1, <1>2 DEF SeenInv, PollingSeen
<1>4. CASE ReadLitmusStats /\ seen' = realtime
  <2>1. ready' = Cardinality(Waiting) /\ all' = Cardinality(realtime)
    BY <1>4 DEF ReadLitmusStats
  <2>2. ready' \in Nat /\ all' \in Nat BY <1>1 DEF TypeOK
  <2>3. PollingSeen' BY <1>2, <1>3, <2>2 DEF PollingSeen
  <2>4. ASSUME releaser' = "release" PROVE \A t \in seen' : ~SettingUp(t)'
    <3>1. Cardinality(realtime) <= Cardinality(Waiting) BY <1>2, <2>1, <2>2, <2>4
    <3>2. seen' = Waiting BY <1>1, <1>4, <3>1, AllSeenWait
    <3>3. QED BY <1>1, <3>2 DEF Waiting, SettingUp, taskVars
  <2>5. QED BY <1>2, <2>3, <2>4 DEF SeenAreReleased
<1>5. CASE UNCHANGED <<ready, all, seen>>
  <2>1. ready \in Nat /\ all \in Nat /\ (seen = {} \/ ready < all)
    BY <1>1, <1>2 DEF SeenInv, PollingSeen, TypeOK
  <2>2. PollingSeen' BY <1>2, <1>3, <1>5, <2>1 DEF PollingSeen
  <2>3. releaser' = "release" => seen' = {} BY <1>2, <1>5, <2>1
  <2>4. QED BY <1>2, <2>2, <2>3 DEF SeenAreReleased
<1>6. QED BY <1>4, <1>5 DEF WaitUntilReady

LEMMA NextSeen ==
  ASSUME SeenInv, [Next]_vars, \A t \in Task : WaitsOnce(Program[t])
  PROVE  SeenInv'
<1>1. CASE WaitUntilReady \/ PollWaiters
  <2>1. TypeOK' /\ WaitersWait' /\ expected' = expected BY <1>1, PollBase DEF SeenInv
  <2>2. expected = 0 => WaitUntilReady BY <1>1 DEF PollWaiters, SeenInv, PollingSeen
  <2>3. QED BY <2>1, <2>2, PollSeen DEF SeenInv
<1>2. CASE ReleaseTs
  <2>1. /\ TypeOK' /\ WaitersWait' /\ UNCHANGED <<expected, ready, all, seen, launcher>>
        /\ releaser = "release" /\ releaser' \in {"done", "failed"}
        /\ \A u \in Task : SettingUp(u)' => SettingUp(u)
    BY <1>2, ReleaseBase DEF SeenInv
  <2>2. expected = 0 => PollingSeen' BY <2>1 DEF SeenInv, PollingSeen
  <2>3. expected = 0 => SeenAreReleased' BY <2>1 DEF SeenInv, SeenAreReleased, TypeOK
  <2>4. QED BY <2>1, <2>2, <2>3 DEF SeenInv
<1>3. CASE LauncherStep
  <2>1. /\ TypeOK' /\ WaitersWait' /\ UNCHANGED <<expected, ready, all, seen>>
        /\ \A u \in Task : SettingUp(u)' => SettingUp(u)
    BY <1>3, LauncherBase DEF SeenInv
  <2>2. \/ UNCHANGED <<releaser, launcher>>
        \/ releaser' = releaser /\ launcher' # "launch"
        \/ /\ launcher = "launch" /\ launcher' = "join"
           /\ (releaser' = "poll" \/ (releaser' = "poll_test" /\ expected # 0))
    <3>1. LaunchReleaser \/ Join \/ \E t \in Task : LaunchTask(t) BY <1>3 DEF LauncherStep
    <3>2. CASE LaunchReleaser BY <3>2 DEF LaunchReleaser
    <3>3. CASE Join BY <3>3 DEF Join, releaserVars
    <3>4. CASE \E t \in Task : LaunchTask(t) BY <3>4 DEF LaunchTask, releaserVars
    <3>5. QED BY <3>1, <3>2, <3>3, <3>4
  <2>3. expected = 0 => PollingSeen' BY <2>1, <2>2 DEF SeenInv, PollingSeen
  <2>4. expected = 0 => SeenAreReleased'
    BY <2>1, <2>2 DEF SeenInv, SeenAreReleased, PollingSeen, TypeOK
  <2>5. QED BY <2>1, <2>3, <2>4 DEF SeenInv
<1>4. ASSUME NEW t \in Task, TaskStep(t) \/ Interrupt(t) PROVE SeenInv'
  <2>1. TypeOK' /\ WaitersWait' /\ \A u \in Task : SettingUp(u)' => SettingUp(u)
    BY <1>4, TaskStepBase DEF SeenInv
  <2>2. UNCHANGED <<releaserVars, launcher>> BY <1>4, TaskStepCases DEF SeenInv
  <2>3. expected = 0 => SeenAreReleased'
    BY <2>1, <2>2 DEF SeenInv, SeenAreReleased, TypeOK, releaserVars
  <2>4. QED BY <2>1, <2>2, <2>3 DEF SeenInv, PollingSeen, releaserVars
<1>5. CASE UNCHANGED vars
  <2>1. TypeOK' /\ WaitersWait' /\ \A u \in Task : SettingUp(u)' <=> SettingUp(u)
    BY <1>5, StutterBase DEF SeenInv
  <2>2. expected = 0 => SeenAreReleased'
    BY <1>5, <2>1 DEF vars, SeenInv, SeenAreReleased, TypeOK
  <2>3. QED BY <1>5, <2>1, <2>2 DEF SeenInv, PollingSeen, vars
<1>6. QED BY <1>1, <1>2, <1>3, <1>4, <1>5 DEF Next, ReleaserStep

-----------------------------------------------------------------------------
(* Theorems.                                                               *)

\* The invariant of releases that count.
THEOREM Invariance ==
  ASSUME \A t \in Task : WaitsOnce(Program[t])
  PROVE  Spec => []IInv
<1>1. Init => IInv BY InitInv
<1>2. IInv /\ [Next]_vars => IInv' BY NextInv
<1>3. QED BY <1>1, <1>2, PTL DEF Spec

\* release_ts -f with the size of the task system (src/carun.py), and the
\* loops of the tests, leave nobody behind: no task comes to
\* wait_for_ts_release() after the release.
THEOREM LeavesNobodyBehind ==
  ASSUME \A t \in Task : WaitsOnce(Program[t])
  PROVE  Spec => []NobodyLeftBehind
<1>1. IInv => NobodyLeftBehind BY DEF IInv
<1>2. QED BY <1>1, Invariance, PTL

\* release_ts -w, and release_ts -f and tests that wait for as many tasks as there
\* are, release no task that they saw before that task waits, whatever reads
\* and calls fail.
THEOREM ReleasesWhatItSaw ==
  ASSUME Operands \subseteq {0, Cardinality(Task)}, \A t \in Task : WaitsOnce(Program[t])
  PROVE  Spec => []SeenAreReleased
<1>1. Init => SeenInv
  BY InitBase DEF Init, SeenInv, PollingSeen, SeenAreReleased
<1>2. SeenInv /\ [Next]_vars => SeenInv' BY NextSeen
<1>3. IInv /\ SeenInv => SeenAreReleased
  <2>1. SUFFICES ASSUME IInv, SeenInv, Counted PROVE SeenAreReleased
    BY DEF SeenInv, TypeOK, Counted
  <2>2. QED BY <2>1 DEF IInv, TypeOK, Arrived, NobodyLeftBehind, SeenAreReleased, SettingUp
<1>4. QED BY <1>1, <1>2, <1>3, Invariance, PTL DEF Spec

-----------------------------------------------------------------------------
(* Whatever is expected, and whatever fails: types, and where jobs run.    *)

\* The invariant below relates what a task has behind it to its mode and to the
\* release: a task past a wait that it must not fail, and not yet past the end
\* of its real-time part, is in real-time mode, and the release has happened.
Past(t, i) ==
  /\ status[t] = "running" /\ i < at[t]
  /\ Program[t][i].call = "wait_for_ts_release" /\ Program[t][i].fail = "bail"
  /\ \A k \in i + 1..at[t] - 1 : Program[t][k].call # "task_mode_bg"

ReleasedInv ==
  \A t \in Task : \A i \in 1..Len(Program[t]) :
    Past(t, i) => t \in realtime /\ releaser = "done"

\* The releaser is started once.
LaunchedInv == launcher = "launch" => releaser = "unborn"

\* A task that was not started has made no call.
UnbornInv == \A t \in Task : status[t] = "unborn" => at[t] = 1

JobsInv == TypeOK /\ WaitersWait /\ LaunchedInv /\ UnbornInv /\ ReleasedInv

\* The types, in every step.
LEMMA NextBase ==
  ASSUME TypeOK, WaitersWait, [Next]_vars
  PROVE  TypeOK' /\ WaitersWait'
<1>1. CASE WaitUntilReady \/ PollWaiters BY <1>1, PollBase
<1>2. CASE ReleaseTs BY <1>2, ReleaseTypes
<1>3. CASE LauncherStep BY <1>3, LauncherBase
<1>4. CASE \E t \in Task : TaskStep(t) \/ Interrupt(t) BY <1>4, TaskStepBase
<1>5. CASE UNCHANGED vars BY <1>5, StutterBase
<1>6. QED BY <1>1, <1>2, <1>3, <1>4, <1>5 DEF Next, ReleaserStep

\* A task that returns from a call other than its wait has no new wait behind it.
LEMMA ReturnReleased ==
  ASSUME JobsInv, NEW t \in Task, Return(t), UNCHANGED <<status, releaser>>,
         at[t] <= Len(Program[t]),
         Program[t][at[t]].call # "wait_for_ts_release" \/ Program[t][at[t]].fail = "ignore",
         realtime \subseteq realtime'
         \/ (Program[t][at[t]].call = "task_mode_bg" /\ realtime' = realtime \ {t})
  PROVE  ReleasedInv'
<1>1. at[t] \in Nat /\ at'[t] = at[t] + 1 /\ \A u \in Task \ {t} : at'[u] = at[u]
  BY DEF JobsInv, TypeOK, Return
<1>2. SUFFICES ASSUME NEW u \in Task, NEW i \in 1..Len(Program[u]), Past(u, i)'
               PROVE  u \in realtime' /\ releaser' = "done"
  BY DEF ReleasedInv
<1>3. CASE u # t
  <2>1. Past(u, i) BY <1>1, <1>2, <1>3 DEF Past
  <2>2. QED BY <1>3, <2>1 DEF JobsInv, ReleasedInv
<1>4. CASE u = t
  <2>1. i \in Nat /\ i < at[t] + 1 BY <1>1, <1>2, <1>4, ProgramType DEF Past
  <2>2. i # at[t] BY <1>2, <1>4 DEF Past
  <2>3. i < at[t] BY <1>1, <2>1, <2>2
  <2>4. at[t] \in i + 1..at'[t] - 1 BY <1>1, <2>1, <2>3
  <2>5. Program[t][at[t]].call # "task_mode_bg" BY <1>2, <1>4, <2>4 DEF Past
  <2>6. \A k \in i + 1..at[t] - 1 : k \in i + 1..at'[t] - 1 BY <1>1, <2>1
  <2>7. Past(t, i) BY <1>2, <1>4, <2>3, <2>6 DEF Past
  <2>8. QED BY <1>4, <2>5, <2>7 DEF JobsInv, ReleasedInv
<1>5. QED BY <1>3, <1>4

LEMMA TaskReleased ==
  ASSUME JobsInv, NEW t \in Task, TaskStep(t) \/ Interrupt(t)
  PROVE  ReleasedInv'
<1>0. TypeOK BY DEF JobsInv
<1>1. UNCHANGED releaser BY <1>0, TaskStepCases DEF releaserVars
<1>2. CASE SetRtTaskParam(t) \/ TaskModeRt(t) \/ TaskModeBg(t) \/ PlainCall(t)
  BY <1>1, <1>2, ReturnReleased
     DEF SetRtTaskParam, TaskModeRt, TaskModeBg, PlainCall, Plain, Reaches
<1>3. CASE WaitForTsRelease(t)
  <2>1. /\ UNCHANGED <<at, realtime>> /\ status'[t] = "waiting"
        /\ \A u \in Task \ {t} : status'[u] = status[u]
    BY <1>0, <1>3 DEF WaitForTsRelease, TypeOK
  <2>2. \A u \in Task : \A i \in 1..Len(Program[u]) : Past(u, i)' => Past(u, i)
    BY <2>1 DEF Past
  <2>3. QED BY <1>1, <2>1, <2>2 DEF JobsInv, ReleasedInv
<1>4. CASE FailCall(t)
  <2>1. CASE Program[t][at[t]].fail = "ignore" /\ Return(t) /\ UNCHANGED <<status, admitted, realtime>>
    BY <1>1, <1>4, <2>1, ReturnReleased DEF FailCall
  <2>2. CASE Exit(t, "failed") /\ UNCHANGED at
    <3>1. /\ realtime' = realtime \ {t} /\ status'[t] = "failed"
          /\ \A u \in Task \ {t} : status'[u] = status[u]
      BY <1>0, <2>2 DEF Exit, TypeOK
    <3>2. \A u \in Task : \A i \in 1..Len(Program[u]) : Past(u, i)' => Past(u, i) /\ u # t
      BY <2>2, <3>1 DEF Past
    <3>3. QED BY <1>1, <3>1, <3>2 DEF JobsInv, ReleasedInv
  <2>3. QED BY <1>4, <2>1, <2>2 DEF FailCall
<1>5. CASE Finish(t) \/ Interrupt(t)
  <2>1. /\ realtime' = realtime \ {t} /\ status'[t] \in {"exited", "failed"} /\ UNCHANGED at
        /\ \A u \in Task \ {t} : status'[u] = status[u]
    BY <1>0, <1>5 DEF Finish, Interrupt, Exit, TypeOK
  <2>2. \A u \in Task : \A i \in 1..Len(Program[u]) : Past(u, i)' => Past(u, i) /\ u # t
    BY <2>1 DEF Past
  <2>3. QED BY <1>1, <2>1, <2>2 DEF JobsInv, ReleasedInv
<1>6. QED BY <1>2, <1>3, <1>4, <1>5 DEF TaskStep

\* The release is what lets a task past its wait.
LEMMA ReleaseReleased ==
  ASSUME JobsInv, ReleaseTs
  PROVE  ReleasedInv'
<1>1. releaser = "release" /\ UNCHANGED realtime BY DEF ReleaseTs
<1>2. \A t \in Task : \A i \in 1..Len(Program[t]) : ~Past(t, i)
  BY <1>1 DEF JobsInv, ReleasedInv
<1>3. CASE UNCHANGED <<status, at>>
  <2>1. \A t \in Task : \A i \in 1..Len(Program[t]) : ~Past(t, i)'
    BY <1>2, <1>3 DEF Past
  <2>2. QED BY <2>1 DEF ReleasedInv
<1>4. CASE /\ status' = [t \in Task |-> IF t \in Waiting THEN "running" ELSE status[t]]
           /\ at' = [t \in Task |-> IF t \in Waiting THEN at[t] + 1 ELSE at[t]]
           /\ releaser' = "done"
  <2>1. SUFFICES ASSUME NEW t \in Task, NEW i \in 1..Len(Program[t]), Past(t, i)'
                 PROVE  t \in realtime
    BY <1>1, <1>4 DEF ReleasedInv
  <2>2. CASE t \in Waiting BY <2>2 DEF Waiting, JobsInv, WaitersWait
  <2>3. CASE t \notin Waiting
    <3>1. Past(t, i) BY <1>4, <2>1, <2>3 DEF Past
    <3>2. QED BY <1>2, <3>1
  <2>4. QED BY <2>2, <2>3
<1>5. QED BY <1>3, <1>4 DEF ReleaseTs

LEMMA OthersReleased ==
  ASSUME JobsInv, WaitUntilReady \/ PollWaiters \/ LauncherStep \/ UNCHANGED vars
  PROVE  ReleasedInv' /\ LaunchedInv'
<1>1. \/ UNCHANGED <<status, at, realtime, launcher>>
         /\ (releaser' = releaser \/ releaser \in {"poll", "poll_test"})
      \/ LauncherStep
  BY DEF WaitUntilReady, PollWaiters, vars, taskVars
<1>2. CASE UNCHANGED <<status, at, realtime, launcher>>
           /\ (releaser' = releaser \/ releaser \in {"poll", "poll_test"})
  <2>1. \A t \in Task : \A i \in 1..Len(Program[t]) : Past(t, i)' => Past(t, i)
    BY <1>2 DEF Past
  <2>2. ReleasedInv' BY <1>2, <2>1 DEF JobsInv, ReleasedInv
  <2>3. QED BY <1>2, <2>2 DEF JobsInv, LaunchedInv
<1>3. CASE LaunchReleaser \/ Join
  <2>1. /\ UNCHANGED <<status, at, realtime>> /\ launcher' # "launch"
        /\ releaser' = releaser \/ releaser = "unborn"
    BY <1>3 DEF LaunchReleaser, Join, taskVars, releaserVars, JobsInv, LaunchedInv
  <2>2. \A t \in Task : \A i \in 1..Len(Program[t]) : Past(t, i)' => Past(t, i)
    BY <2>1 DEF Past
  <2>3. ReleasedInv' BY <2>1, <2>2 DEF JobsInv, ReleasedInv
  <2>4. QED BY <2>1, <2>3 DEF LaunchedInv
<1>4. ASSUME NEW t \in Task, LaunchTask(t) PROVE ReleasedInv' /\ LaunchedInv'
  <2>1. /\ UNCHANGED <<at, realtime, releaser, launcher>> /\ status[t] = "unborn"
        /\ \A u \in Task \ {t} : status'[u] = status[u]
    BY <1>4 DEF LaunchTask, releaserVars, JobsInv, TypeOK
  <2>2. at[t] = 1 BY <2>1 DEF JobsInv, UnbornInv
  <2>3. \A u \in Task : \A i \in 1..Len(Program[u]) : Past(u, i)' => Past(u, i)
    BY <2>1, <2>2, ProgramType DEF Past
  <2>4. QED BY <2>1, <2>3 DEF JobsInv, ReleasedInv, LaunchedInv
<1>5. QED BY <1>1, <1>2, <1>3, <1>4 DEF LauncherStep

LEMMA NextJobs ==
  ASSUME JobsInv, [Next]_vars
  PROVE  JobsInv'
<1>0. TypeOK /\ WaitersWait BY DEF JobsInv
<1>1. TypeOK' /\ WaitersWait' BY <1>0, NextBase
<1>2. CASE \E t \in Task : TaskStep(t) \/ Interrupt(t)
  <2>1. PICK t \in Task : TaskStep(t) \/ Interrupt(t) BY <1>2
  <2>2. UNCHANGED <<releaserVars, launcher>> BY <1>0, <2>1, TaskStepCases
  <2>3. LaunchedInv' BY <2>2 DEF releaserVars, JobsInv, LaunchedInv
  <2>4. UnbornInv'
    <3>1. status'[t] # "unborn"
      BY <1>0, <2>1, TaskStepCases DEF TypeOK, Exit
    <3>2. \A u \in Task \ {t} : status'[u] = status[u] /\ at'[u] = at[u]
      BY <1>0, <2>1, TaskStepCases DEF TypeOK, Return, Exit
    <3>3. QED BY <3>1, <3>2 DEF JobsInv, UnbornInv
  <2>5. QED BY <1>1, <2>1, <2>3, <2>4, TaskReleased DEF JobsInv
<1>3. CASE ReleaseTs
  <2>1. \A t \in Task : status'[t] = "unborn" => status[t] = "unborn" /\ at'[t] = at[t]
    BY <1>3 DEF ReleaseTs, Waiting
  <2>2. LaunchedInv' /\ UnbornInv'
    BY <1>3, <2>1 DEF ReleaseTs, JobsInv, LaunchedInv, UnbornInv
  <2>3. QED BY <1>1, <1>3, <2>2, ReleaseReleased DEF JobsInv
<1>4. CASE WaitUntilReady \/ PollWaiters \/ LauncherStep \/ UNCHANGED vars
  <2>1. UNCHANGED at /\ \A t \in Task : status'[t] = "unborn" => status[t] = "unborn"
    BY <1>0, <1>4 DEF WaitUntilReady, PollWaiters, LauncherStep, LaunchReleaser, LaunchTask,
       Join, vars, taskVars, TypeOK
  <2>2. UnbornInv' BY <2>1 DEF JobsInv, UnbornInv
  <2>3. QED BY <1>1, <1>4, <2>2, OthersReleased DEF JobsInv
<1>5. QED BY <1>2, <1>3, <1>4 DEF Next, ReleaserStep

LEMMA JobsInvariance == Spec => []JobsInv
<1>1. Init => JobsInv
  <2>1. SUFFICES ASSUME Init PROVE JobsInv OBVIOUS
  <2>2. LaunchedInv /\ UnbornInv BY <2>1 DEF Init, LaunchedInv, UnbornInv
  <2>3. ReleasedInv BY <2>1 DEF Init, ReleasedInv, Past
  <2>4. QED BY <2>1, <2>2, <2>3, InitBase DEF JobsInv
<1>2. JobsInv /\ [Next]_vars => JobsInv' BY NextJobs
<1>3. QED BY <1>1, <1>2, PTL DEF Spec

\* Every state is of the types, whatever is expected: release_ts has no more
\* tasks that wait than real-time tasks, and the kernel no real-time task
\* without parameters.
THEOREM TypeCorrect == Spec => []TypeOK
<1>1. JobsInv => TypeOK BY DEF JobsInv
<1>2. QED BY <1>1, JobsInvariance, PTL

\* A task that reaches its jobs (src/bin/rtspin.c, the loops of job()) is in
\* real-time mode and was released, whatever calls failed on the way: the wait
\* for the release is what the kernel refuses to all others.
THEOREM JobsRunReleased ==
  ASSUME \A t \in Task : JobsAfterWait(Program[t])
  PROVE  Spec => []JobsInRealTime
<1>1. JobsInv => JobsInRealTime
  <2>1. SUFFICES ASSUME JobsInv, NEW t \in Task, Reaches(t, "jobs")
                 PROVE  t \in realtime /\ releaser = "done"
    BY DEF JobsInRealTime
  <2>2. at[t] \in 1..Len(Program[t]) /\ Len(Program[t]) \in Nat
    BY <2>1, ProgramType DEF JobsInv, TypeOK, Reaches
  <2>3. PICK i \in 1..at[t] - 1 :
          /\ Program[t][i].call = "wait_for_ts_release" /\ Program[t][i].fail = "bail"
          /\ \A k \in i + 1..at[t] - 1 : Program[t][k].call # "task_mode_bg"
    BY <2>1, <2>2 DEF JobsAfterWait, Reaches
  <2>4. i \in 1..Len(Program[t]) /\ i < at[t] BY <2>2
  <2>5. Past(t, i) BY <2>1, <2>3, <2>4 DEF Past, Reaches
  <2>6. QED BY <2>1, <2>4, <2>5 DEF JobsInv, ReleasedInv
<1>2. QED BY <1>1, JobsInvariance, PTL

-----------------------------------------------------------------------------
(* Refinement of SynchronousRelease.                                       *)

\* The mapped phases are a function of the tasks; one changes at a time.
LEMMA PhaseUpdate ==
  ASSUME NEW t \in Task, \A u \in Task \ {t} : Phase(u)' = Phase(u), NEW p, Phase(t)' = p
  PROVE  [u \in Task |-> Phase(u)]' = [[u \in Task |-> Phase(u)] EXCEPT ![t] = p]
  OBVIOUS

LEMMA TaskStepMaps ==
  ASSUME IInv, Counted, Counted', NEW t \in Task, WaitsOnce(Program[t]),
         TaskStep(t) \/ Interrupt(t)
  PROVE  [Synchronous!Next]_(Synchronous!vars)
<1>1. TypeOK BY DEF IInv
<1>2. UNCHANGED releaser BY <1>1, TaskStepCases DEF releaserVars
<1>3. at[t] \in Nat /\ Len(Program[t]) \in Nat /\ at[t] \in 1..Len(Program[t]) + 1
  BY <1>1, ProgramType DEF TypeOK
<1>4. CASE /\ Return(t) /\ UNCHANGED status
           /\ status[t] = "running" /\ at[t] <= Len(Program[t])
           /\ Program[t][at[t]].call # "wait_for_ts_release"
              \/ Program[t][at[t]].fail = "ignore"
  <2>1. at'[t] = at[t] + 1 /\ \A u \in Task \ {t} : at'[u] = at[u]
    BY <1>1, <1>4 DEF Return, TypeOK
  <2>2. Program[t][at[t]].call # "wait_for_ts_release"
    BY <1>3, <1>4 DEF WaitsOnce
  <2>3. SettingUp(t)' <=> SettingUp(t)
    BY <1>1, <1>4, <2>1, <2>2, StillAhead DEF SettingUp
  <2>4. \A u \in Task : SettingUp(u)' <=> SettingUp(u)
    BY <1>4, <2>1, <2>3 DEF SettingUp
  <2>5. \A u \in Task : Phase(u)' = Phase(u) BY <1>4, <2>4 DEF Phase
  <2>6. QED BY <1>2, <2>5 DEF Synchronous!vars
<1>5. CASE /\ UNCHANGED <<at, admitted, realtime>>
           /\ status[t] = "running" /\ AtWait(t) /\ t \in realtime
           /\ status' = [status EXCEPT ![t] = "waiting"]
  <2>1. status'[t] = "waiting" /\ \A u \in Task \ {t} : status'[u] = status[u]
    BY <1>1, <1>5 DEF TypeOK
  <2>2. SettingUp(t) BY <1>3, <1>5 DEF SettingUp, AtWait
  <2>3. \A u \in Task \ {t} : Phase(u)' = Phase(u) BY <1>5, <2>1 DEF Phase, SettingUp
  <2>4. Phase(t) = "setup" /\ Phase(t)' = "waiting"
    BY <2>1, <2>2 DEF Phase, SettingUp
  <2>5. releaser # "done" BY <2>2 DEF IInv, NobodyLeftBehind
  <2>6. [u \in Task |-> Phase(u)]' = [[u \in Task |-> Phase(u)] EXCEPT ![t] = "waiting"]
    BY <2>3, <2>4, PhaseUpdate
  <2>7. Synchronous!Arrive(t) BY <1>2, <2>4, <2>5, <2>6 DEF Synchronous!Arrive
  <2>8. QED BY <2>7 DEF Synchronous!Next
<1>6. CASE /\ UNCHANGED at
           /\ status[t] \in {"running", "waiting"}
           /\ \E s \in {"exited", "failed"} : Exit(t, s)
  <2>1. status'[t] \in {"exited", "failed"} /\ \A u \in Task \ {t} : status'[u] = status[u]
    BY <1>1, <1>6 DEF TypeOK, Exit
  <2>2. \A u \in Task \ {t} : Phase(u)' = Phase(u) BY <1>6, <2>1 DEF Phase, SettingUp
  <2>3. Phase(t) # "out" /\ Phase(t)' = "out"
    BY <1>6, <2>1 DEF Phase, SettingUp
  <2>4. [u \in Task |-> Phase(u)]' = [[u \in Task |-> Phase(u)] EXCEPT ![t] = "out"]
    BY <2>2, <2>3, PhaseUpdate
  <2>5. Synchronous!Drop(t) BY <1>2, <2>3, <2>4 DEF Synchronous!Drop
  <2>6. QED BY <2>5 DEF Synchronous!Next
<1>7. QED BY <1>1, <1>4, <1>5, <1>6, TaskStepCases

LEMMA ReleaserMaps ==
  ASSUME IInv, IInv', Counted, Counted', ReleaserStep
  PROVE  [Synchronous!Next]_(Synchronous!vars)
<1>1. CASE WaitUntilReady \/ PollWaiters
  <2>1. UNCHANGED <<status, at>> /\ releaser # "done" /\ releaser' # "done"
    BY <1>1 DEF WaitUntilReady, PollWaiters, taskVars
  <2>2. \A u \in Task : Phase(u)' = Phase(u) BY <2>1 DEF Phase, SettingUp
  <2>3. QED BY <2>1, <2>2 DEF Synchronous!vars
<1>2. CASE ReleaseTs /\ UNCHANGED <<status, at>> /\ releaser' = "failed"
  <2>1. \A u \in Task : Phase(u)' = Phase(u) BY <1>2 DEF Phase, SettingUp
  <2>2. releaser # "done" BY <1>2 DEF ReleaseTs
  <2>3. QED BY <1>2, <2>1, <2>2 DEF Synchronous!vars
<1>3. CASE /\ ReleaseTs
           /\ status' = [t \in Task |-> IF t \in Waiting THEN "running" ELSE status[t]]
           /\ at' = [t \in Task |-> IF t \in Waiting THEN at[t] + 1 ELSE at[t]]
           /\ releaser' = "done"
  <2>1. releaser = "release" BY <1>3 DEF ReleaseTs
  <2>2. \A t \in Task : status[t] \in {"waiting", "exited", "failed"}
    BY <2>1 DEF IInv, Arrived
  <2>3. \A t \in Task : ~SettingUp(t)' BY <1>3 DEF IInv, NobodyLeftBehind
  <2>4. \A t \in Task : Phase(t) = IF t \in Waiting THEN "waiting" ELSE "out"
    BY <2>2 DEF Phase, SettingUp, Waiting
  <2>5. \A t \in Task : Phase(t)' = IF t \in Waiting THEN "go" ELSE "out"
    BY <1>3, <2>2, <2>3 DEF Phase, Waiting
  <2>6. \A t \in Task : /\ Phase(t) # "setup"
                       /\ Phase(t)' = IF Phase(t) = "waiting" THEN "go" ELSE Phase(t)
    BY <2>4, <2>5
  <2>7. Synchronous!Release BY <1>3, <2>1, <2>6 DEF Synchronous!Release
  <2>8. QED BY <2>7 DEF Synchronous!Next
<1>4. QED BY <1>1, <1>2, <1>3 DEF ReleaserStep, ReleaseTs

LEMMA LauncherMaps ==
  ASSUME IInv, Counted, Counted', LauncherStep
  PROVE  [Synchronous!Next]_(Synchronous!vars)
<1>1. CASE LaunchReleaser \/ Join
  <2>1. UNCHANGED <<status, at>> /\ (releaser' = "done" <=> releaser = "done")
    BY <1>1 DEF LaunchReleaser, Join, taskVars, releaserVars, IInv, Polling
  <2>2. \A u \in Task : Phase(u)' = Phase(u) BY <2>1 DEF Phase, SettingUp
  <2>3. QED BY <2>1, <2>2 DEF Synchronous!vars
<1>2. ASSUME NEW t \in Task, LaunchTask(t) PROVE [Synchronous!Next]_(Synchronous!vars)
  <2>1. /\ UNCHANGED <<at, releaser>> /\ status[t] = "unborn" /\ status'[t] = "running"
        /\ \A u \in Task \ {t} : status'[u] = status[u]
    BY <1>2 DEF LaunchTask, releaserVars, IInv, TypeOK
  <2>2. \A u \in Task : Phase(u)' = Phase(u) BY <2>1 DEF Phase, SettingUp
  <2>3. QED BY <2>1, <2>2 DEF Synchronous!vars
<1>3. QED BY <1>1, <1>2 DEF LauncherStep

\* The operand does not change, and without counting nobody takes part.
LEMMA CountedUnchanged ==
  ASSUME [Next]_vars
  PROVE  expected' = expected /\ Counted' = Counted
<1>1. expected' = expected
  BY DEF Next, ReleaserStep, WaitUntilReady, PollWaiters, ReleaseTs, LauncherStep,
     LaunchReleaser, Join, LaunchTask, TaskStep, SetRtTaskParam, TaskModeRt, TaskModeBg,
     WaitForTsRelease, PlainCall, FailCall, Finish, Interrupt, vars, releaserVars
<1>2. QED BY <1>1 DEF Counted

\* Counting and releasing implement the synchronous release of
\* SynchronousRelease: tasks that stay start together, none starts alone.
THEOREM Implements ==
  ASSUME \A t \in Task : WaitsOnce(Program[t])
  PROVE  Spec => ReleasesTogether
<1>1. Init => Synchronous!Init
  <2> SUFFICES ASSUME Init PROVE Synchronous!Init OBVIOUS
  <2>1. \A t \in Task : Phase(t) \in {"setup", "go", "out"}
    BY DEF Init, Phase
  <2>2. QED BY <2>1 DEF Init, Synchronous!Init
<1>2. IInv /\ IInv' /\ [Next]_vars => [Synchronous!Next]_(Synchronous!vars)
  <2> SUFFICES ASSUME IInv, IInv', [Next]_vars
               PROVE  [Synchronous!Next]_(Synchronous!vars)
    OBVIOUS
  <2>1. Counted' <=> Counted BY CountedUnchanged
  <2>2. CASE Counted
    <3>1. Counted' BY <2>1, <2>2
    <3>2. CASE ReleaserStep BY <2>2, <3>1, <3>2, ReleaserMaps
    <3>3. CASE LauncherStep BY <2>2, <3>1, <3>3, LauncherMaps
    <3>4. CASE \E t \in Task : TaskStep(t) \/ Interrupt(t)
      BY <2>2, <3>1, <3>4, TaskStepMaps
    <3>5. CASE UNCHANGED vars
      BY <2>2, <3>1, <3>5 DEF vars, Synchronous!vars, Phase, SettingUp
    <3>6. QED BY <3>2, <3>3, <3>4, <3>5 DEF Next
  <2>3. CASE ~Counted
    <3>1. \A t \in Task : Phase(t) = "out" /\ Phase(t)' = "out"
      BY <2>1, <2>3 DEF Phase
    <3>2. QED BY <2>1, <2>3, <3>1 DEF Synchronous!vars
  <2>4. QED BY <2>2, <2>3
<1>3. QED BY <1>1, <1>2, Invariance, PTL DEF Spec, ReleasesTogether, Synchronous!Spec
=============================================================================
