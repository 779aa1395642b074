-------------------------- MODULE SpinJobs_proofs --------------------------
(***************************************************************************)
(* Proofs about SpinJobs, for any files, execution times, grace, and any   *)
(* times that the loops may take.                                          *)
(*                                                                         *)
(* - TypeInv says in which stage the program is: how far the times are     *)
(*   read, added up and the jobs started.                                  *)
(* - MarkInv: the last mark of a job that is flagged is the first of a     *)
(*   pair; MarksJustified follows (MarksCanBeTrusted).                     *)
(* - LoopInv accounts for the time of a job: what its earlier parts have   *)
(*   used and what those that are left may take, an iteration too many in  *)
(*   each; SpinInv follows (JobsKeepToTheirTimes).                         *)
(* - RunInv compares each start with the sum of the times so far and a     *)
(*   period for each job, which never passes the end of the program that   *)
(*   main() computes; AllJobsRun follows (FileIsExecuted).                 *)
(* - FileInv says where either pass of get_exec_times() is in the file and *)
(*   what it has seen; ReadsFile follows for files of any length, lines of *)
(*   any form and any column (FileIsRead).  What the recursions of         *)
(*   ExecTimes compute is proved by induction, from the fact that a set of *)
(*   counterexamples would have a least one (MinIs, Ascend).               *)
(***************************************************************************)
EXTENDS SpinJobs, SequenceTheorems, FiniteSetTheorems, WellFoundedInduction, TLAPS

-----------------------------------------------------------------------------
(* Times.                                                                  *)

\* A set of natural numbers has a smallest one.
LEMMA MinIs ==
  ASSUME NEW S \in SUBSET Nat, S # {}
  PROVE  Min(S) \in S /\ \A x \in S : Min(S) <= x
<1> DEFINE R == {pair \in Nat \X Nat : pair[1] < pair[2]}
<1>1. IsWellFoundedOn(R, Nat) BY NatLessThanWellFounded DEF OpToRel
<1>2. \E x \in S : \A y \in S : ~(<<y, x>> \in R)
  <2> HIDE DEF R
  <2>1. QED BY <1>1, WFMin
<1>3. PICK x \in S : \A y \in S : ~(<<y, x>> \in R) BY <1>2
<1>4. ASSUME NEW y \in S PROVE x <= y
  <2>1. <<y, x>> \in Nat \X Nat /\ <<y, x>>[1] = y /\ <<y, x>>[2] = x OBVIOUS
  <2>2. ~(y < x)
    <3> DEFINE p == <<y, x>>
    <3>1. p \notin R BY <1>3
    <3>2. p \in Nat \X Nat BY <2>1
    <3>3. ~(p[1] < p[2]) BY <3>1, <3>2
    <3>4. QED BY <2>1, <3>3
  <2>3. QED BY <2>2
<1>5. QED BY <1>4 DEF Min

\* The shortest and the longest iteration.
Shortest == Min(LoopTimes)
Longest == Max(LoopTimes)

LEMMA LoopTime ==
  /\ Shortest \in Nat \ {0} /\ Longest \in Nat \ {0}
  /\ Longest \in LoopTimes /\ Shortest <= Longest
  /\ \A c \in LoopTimes : c \in Nat \ {0} /\ Shortest <= c /\ c <= Longest
<1>1. LoopTimes \subseteq Nat \ {0} /\ LoopTimes # {} BY SpinJobsAssumption
<1>2. Shortest \in LoopTimes /\ \A c \in LoopTimes : Shortest <= c
  <2>1. LoopTimes \in SUBSET Nat BY <1>1
  <2>2. QED BY <1>1, <2>1, MinIs DEF Shortest
<1>3. Longest \in LoopTimes /\ \A c \in LoopTimes : c <= Longest
  <2>1. PICK m \in LoopTimes : \A c \in LoopTimes : c <= m BY SpinJobsAssumption
  <2>2. m >= m /\ \A c \in LoopTimes : m >= c BY <1>1, <2>1
  <2>3. QED BY <1>1, <2>2 DEF Longest, Max
<1>4. QED BY <1>1, <1>2, <1>3

LEMMA MaxOfTwo ==
  ASSUME NEW a \in Int, NEW b \in Int
  PROVE  Max({a, b}) = IF a >= b THEN a ELSE b
<1>1. CASE a >= b
  <2>1. \A x \in {a, b} : (\A y \in {a, b} : x >= y) => x = a BY <1>1
  <2>2. a \in {a, b} /\ \A y \in {a, b} : a >= y BY <1>1
  <2>3. QED BY <1>1, <2>1, <2>2 DEF Max
<1>2. CASE ~(a >= b)
  <2>1. \A x \in {a, b} : (\A y \in {a, b} : x >= y) => x = b BY <1>2
  <2>2. b \in {a, b} /\ \A y \in {a, b} : b >= y BY <1>2
  <2>3. QED BY <1>2, <2>1, <2>2 DEF Max
<1>3. QED BY <1>1, <1>2

-----------------------------------------------------------------------------
(* Types.                                                                  *)

CpuPart == [kind : {"cpu"}, length : Int, limit : Nat]
CountPart == [kind : {"count"}, length : {1, Loops}, limit : {NoLimit}]
MonitorState ==
  [flag : BOOLEAN, marks : Seq({1, 2}), cur_time : Nat, duration : Int, misread : BOOLEAN]
\* The programs whose jobs are calls of loop_for().
Spinning == {"rtspin", "rtspin -f", "ca_thrash"}

ArgsInv ==
  /\ args.program \in Programs /\ args.scale \in Scales /\ args.cs \in CsLengths
  /\ args.num_cp \in {0, Param} /\ args.kept \in BOOLEAN

Fields ==
  /\ pc \in {"args", "count", "read", "sum", "job", "loop"} \cup Final
  /\ num_jobs \in Nat /\ exec_times \in Seq(Nat) /\ ran \in Seq(Nat)
  /\ program_end \in Nat /\ cur_job \in Nat /\ wall \in Nat /\ release \in Nat
  /\ parts \in Seq(CpuPart \cup CountPart)
  /\ loop \in [used : Nat, last_loop : LoopTimes \cup {0}, iter : 0..Loops \cup {1}]
  /\ job \in [start : Nat, exec : Nat, cpu : Nat, delay : 0..MaxDelay, emergency : BOOLEAN]
  /\ monitor \in MonitorState

\* How far the jobs are read, added up and started in each stage of the program.
Stages ==
  /\ Len(exec_times) <= num_jobs
  /\ Len(ran) <= cur_job + (IF pc = "loop" THEN 1 ELSE 0)
  /\ ~FromFile => ran = <<>> /\ pc \notin {"count", "read", "sum"}
  /\ pc \in {"args", "count", "read", "sum", "invalid", "aborted"} =>
       ran = <<>> /\ wall = 0 /\ release = 0
  /\ pc \in {"args", "count", "read", "invalid", "aborted"} => cur_job = 0 /\ program_end = 0
  /\ pc \in {"args", "count"} => exec_times = <<>>
  /\ FromFile /\ pc \in {"sum", "job", "loop", "done"} => Len(exec_times) = num_jobs
  /\ FromFile => cur_job + (IF pc = "loop" THEN 1 ELSE 0) <= num_jobs

TypeInv == ArgsInv /\ Fields /\ Stages
-----------------------------------------------------------------------------
(* The parts of a job.                                                     *)

LEMMA Numbers ==
  /\ Wcet \in Nat /\ Period \in Nat /\ Duration \in Nat /\ Second \in Nat /\ MaxDelay \in Nat
  /\ Loops \in Nat /\ Param \in Nat
  /\ Scales \subseteq Nat /\ CsLengths \subseteq Nat
BY SpinJobsAssumption

LEMMA ProductType ==
  ASSUME NEW a \in Nat, NEW b \in Nat
  PROVE  a * b \in Nat
  OBVIOUS

LEMMA ReadType ==
  ASSUME NEW f, NEW p, NEW column
  PROVE  ReadTime(f, p, column).time \in Nat
<1> DEFINE at == Column(f, SkipComments(f, p), column)
           number == at <= Len(f) /\ f[at] \in DOMAIN Value
<1>1. \A n \in DOMAIN Value : Value[n] \in Nat BY ExecTimesAssumption
<1>2. ReadTime(f, p, column).time = IF number THEN Value[f[at]] ELSE 0 BY DEF ReadTime
<1> HIDE DEF at
<1>3. QED BY <1>1, <1>2

\* What a part may take: its length, and an iteration but for one tick.
Cost(part) == IF part.length > 0 THEN part.length + Longest - 1 ELSE 0

CostOf(list) ==
  (IF Len(list) >= 1 THEN Cost(list[1]) ELSE 0)
  + (IF Len(list) >= 2 THEN Cost(list[2]) ELSE 0)
  + (IF Len(list) >= 3 THEN Cost(list[3]) ELSE 0)

\* Parts of the kind that the program has, at most three; a limit is a second
\* after the end of the program or later.
OfProgram(list) ==
  /\ list \in Seq(CpuPart \cup CountPart) /\ Len(list) <= 3
  /\ \A i \in 1..Len(list) :
       /\ list[i] \in (IF args.program \in Spinning THEN CpuPart ELSE CountPart)
       /\ list[i].limit # NoLimit => list[i].limit >= program_end + Second

LargerOf(a, b) == IF a >= b THEN a ELSE b

LEMMA SinglePart ==
  ASSUME NEW part \in CpuPart \cup CountPart
  PROVE  /\ <<part>> \in Seq(CpuPart \cup CountPart) /\ Len(<<part>>) = 1
         /\ \A i \in 1..Len(<<part>>) : <<part>>[i] = part
         /\ CostOf(<<part>>) = Cost(part)
<1>1. /\ <<part>> \in Seq(CpuPart \cup CountPart) /\ Len(<<part>>) = 1 /\ <<part>>[1] = part
      /\ \A i \in 1..Len(<<part>>) : <<part>>[i] = part
  OBVIOUS
<1>2. Cost(part) \in Int
  <2>1. part.length \in Int BY Numbers DEF CpuPart, CountPart
  <2>2. QED BY <2>1, LoopTime DEF Cost
<1>3. CostOf(<<part>>) = Cost(part)
  <2> DEFINE s == <<part>>
  <2> HIDE DEF s
  <2>1. Len(s) = 1 /\ s[1] = part BY <1>1 DEF s
  <2>2. CostOf(s) = Cost(part) BY <1>2, <2>1 DEF CostOf
  <2>3. QED BY <2>2 DEF s
<1>4. QED BY <1>1, <1>3

LEMMA PartsAre ==
  ASSUME ArgsInv, program_end \in Nat, NEW exec \in Nat,
         NEW list \in Parts(exec)
  PROVE  /\ OfProgram(list)
         /\ args.program \in Spinning =>
              CostOf(list) <= LargerOf(exec, args.cs) + 3 * (Longest - 1)
<1>1. /\ args.cs \in Nat /\ Loops \in Nat /\ program_end + 1 * Second \in Nat
      /\ program_end + 2 * Second \in Nat
      /\ Grace(1) >= program_end + Second /\ Grace(2) >= program_end + Second
      /\ Grace(1) \in Nat /\ Grace(2) \in Nat
  <2>1. args.cs \in Nat /\ Loops \in Nat /\ Second \in Nat BY Numbers DEF ArgsInv
  <2>2. 1 * Second = Second /\ 2 * Second = Second + Second BY <2>1
  <2>3. QED BY <2>1, <2>2 DEF Grace
<1>2. args.program \in {"rtspin", "rtspin -f", "ca_spin", "ca_spin_v2", "ca_thrash", "rtspin_cache"}
  BY SpinJobsAssumption DEF ArgsInv
<1>3. \A length \in Int, limit \in Nat :
        /\ LoopFor(length, limit) \in CpuPart
        /\ LoopFor(length, limit).length = length /\ LoopFor(length, limit).limit = limit
  BY DEF LoopFor, CpuPart
<1>4. /\ Repeat(1) \in CountPart /\ Repeat(1).limit = NoLimit
      /\ Repeat(Loops) \in CountPart /\ Repeat(Loops).limit = NoLimit
  BY DEF Repeat, CountPart
<1>5. LargerOf(exec, args.cs) \in Nat /\ LargerOf(exec, args.cs) >= exec
      /\ LargerOf(exec, args.cs) >= args.cs /\ Longest \in Nat \ {0}
  BY <1>1, LoopTime DEF LargerOf
<1>6. ASSUME NEW limit \in Nat, limit # NoLimit => limit >= program_end + Second,
             args.program \in Spinning, list = <<LoopFor(exec, limit)>>
      PROVE  OfProgram(list) /\ CostOf(list) <= LargerOf(exec, args.cs) + 3 * (Longest - 1)
  <2> DEFINE part == LoopFor(exec, limit)
  <2>1. part \in CpuPart /\ part.length = exec /\ part.limit = limit BY <1>3
  <2> HIDE DEF part
  <2>2. /\ list \in Seq(CpuPart \cup CountPart) /\ Len(list) = 1
        /\ \A i \in 1..Len(list) : list[i] = part
        /\ CostOf(list) = Cost(part)
    BY <1>6, <2>1, SinglePart DEF part
  <2>3. OfProgram(list) BY <1>6, <2>1, <2>2 DEF OfProgram
  <2>4. Cost(part) <= LargerOf(exec, args.cs) + 3 * (Longest - 1) BY <1>5, <2>1 DEF Cost
  <2>5. QED BY <2>2, <2>3, <2>4
<1>7. CASE args.program \in {"rtspin", "rtspin -f"}
  <2>1. list \in RtSpinParts(exec) BY <1>7 DEF Parts
  <2>2. args.program \in Spinning BY <1>7 DEF Spinning
  <2>3. CASE args.cs = 0
    <3>1. list = <<LoopFor(exec, Grace(1))>> BY <2>1, <2>3 DEF RtSpinParts
    <3>2. QED BY <1>1, <1>6, <2>2, <3>1
  <2>4. CASE args.cs # 0
    <3>1. PICK chunk1 \in Chunk1(exec, args.cs) :
            list = <<LoopFor(chunk1, Grace(1)), LoopFor(args.cs, Grace(1)),
                     LoopFor(Chunk2(exec, args.cs, chunk1), Grace(2))>>
      BY <2>1, <2>4 DEF RtSpinParts
    <3> DEFINE chunk2 == Chunk2(exec, args.cs, chunk1)
               a == LoopFor(chunk1, Grace(1))
               b == LoopFor(args.cs, Grace(1))
               c == LoopFor(chunk2, Grace(2))
    <3>2. /\ chunk1 \in Int /\ chunk2 \in Int /\ chunk2 = exec - args.cs - chunk1
          /\ args.cs <= exec => 0 <= chunk1 /\ chunk1 <= exec - args.cs
          /\ ~(args.cs <= exec) => exec - args.cs <= chunk1 /\ chunk1 <= 0
      BY <1>1, <3>1 DEF Chunk1, Chunk2
    <3> HIDE DEF chunk2
    <3>3. /\ a \in CpuPart /\ a.length = chunk1 /\ a.limit = Grace(1)
          /\ b \in CpuPart /\ b.length = args.cs /\ b.limit = Grace(1)
          /\ c \in CpuPart /\ c.length = chunk2 /\ c.limit = Grace(2)
      BY <1>1, <1>3, <3>2
    <3>4. list = <<a, b, c>> BY <3>1 DEF chunk2
    <3> HIDE DEF a, b, c
    <3>5. /\ list \in Seq(CpuPart \cup CountPart) /\ Len(list) = 3
          /\ list[1] = a /\ list[2] = b /\ list[3] = c
      BY <3>3, <3>4
    <3>6. OfProgram(list)
      <4>1. ASSUME NEW i \in 1..Len(list)
            PROVE  list[i] \in CpuPart /\ list[i].limit \in {Grace(1), Grace(2)}
        <5>1. i = 1 \/ i = 2 \/ i = 3 BY <3>5
        <5>2. QED BY <3>3, <3>5, <5>1
      <4>2. QED BY <1>1, <2>2, <3>5, <4>1 DEF OfProgram
    <3>7. CostOf(list) = Cost(a) + Cost(b) + Cost(c) BY <3>5 DEF CostOf
    <3>8. Cost(a) + Cost(b) + Cost(c) <= LargerOf(exec, args.cs) + 3 * (Longest - 1)
      BY <1>1, <1>5, <3>2, <3>3 DEF Cost, LargerOf
    <3>9. QED BY <3>6, <3>7, <3>8
  <2>5. QED BY <2>3, <2>4
<1>8. CASE args.program = "ca_thrash"
  <2>1. list = <<LoopFor(exec, NoLimit)>> BY <1>8 DEF Parts
  <2>2. QED BY <1>6, <1>8, <2>1 DEF Spinning, NoLimit
<1>9. ASSUME args.program \in {"ca_spin", "ca_spin_v2", "rtspin_cache"}
      PROVE  OfProgram(list) /\ args.program \notin Spinning
  <2>1. args.program \notin Spinning BY <1>9 DEF Spinning
  <2>2. list \in {<<Repeat(1)>>, <<Repeat(Loops)>>, <<Repeat(Loops), Repeat(Loops)>>}
    BY <1>9 DEF Parts
  <2>3. PICK part \in CountPart : part.limit = NoLimit /\ list \in {<<part>>, <<part, part>>}
    BY <1>4, <2>2
  <2>4. /\ list \in Seq(CpuPart \cup CountPart) /\ Len(list) <= 2
        /\ \A i \in 1..Len(list) : list[i] = part
    <3>1. CASE list = <<part>> BY <2>3, <3>1, SinglePart
    <3>2. CASE list = <<part, part>>
      <4>1. Len(list) = 2 /\ list \in Seq(CpuPart \cup CountPart) BY <2>3, <3>2
      <4>2. list[1] = part /\ list[2] = part BY <3>2
      <4>3. \A i \in 1..2 : i = 1 \/ i = 2 OBVIOUS
      <4>4. QED BY <4>1, <4>2, <4>3
    <3>3. QED BY <2>3, <3>1, <3>2
  <2>5. QED BY <2>1, <2>3, <2>4 DEF OfProgram
<1>10. QED BY <1>2, <1>7, <1>8, <1>9
-----------------------------------------------------------------------------
(* The invariant of the stages.                                            *)

LEMMA InitTypes == Init => TypeInv
<1> SUFFICES ASSUME Init PROVE TypeInv OBVIOUS
<1>1. ArgsInv BY DEF Init, ArgsInv
<1>2. /\ pc = "args" /\ num_jobs = 0 /\ exec_times = <<>> /\ ran = <<>> /\ program_end = 0
      /\ cur_job = 0 /\ wall = 0 /\ release = 0 /\ parts = <<>> /\ loop = NewLoop
      /\ job = [start |-> 0, exec |-> 0, cpu |-> 0, delay |-> 0, emergency |-> FALSE]
      /\ monitor = [flag |-> FALSE, marks |-> <<>>, cur_time |-> 0, duration |-> 0,
                    misread |-> FALSE]
  BY DEF Init
<1>3. Fields
  <2>1. <<>> \in Seq({1, 2}) /\ <<>> \in Seq(Nat) /\ <<>> \in Seq(CpuPart \cup CountPart)
    OBVIOUS
  <2>2. monitor \in MonitorState BY <1>2, <2>1 DEF MonitorState
  <2>3. job \in [start : Nat, exec : Nat, cpu : Nat, delay : 0..MaxDelay, emergency : BOOLEAN]
    BY <1>2, Numbers
  <2>4. loop \in [used : Nat, last_loop : LoopTimes \cup {0}, iter : 0..Loops \cup {1}]
    BY <1>2, Numbers DEF NewLoop
  <2>5. QED BY <1>2, <2>1, <2>2, <2>3, <2>4 DEF Fields
<1>4. Stages
  <2>1. Len(<<>>) = 0 OBVIOUS
  <2>2. Len(ran) = 0 /\ Len(exec_times) = 0 BY <1>2, <2>1
  <2>3. QED BY <1>2, <2>2 DEF Stages
<1>5. QED BY <1>1, <1>3, <1>4 DEF TypeInv

LEMMA AppendMark ==
  ASSUME NEW marks \in Seq({1, 2}), NEW mark \in {1, 2}
  PROVE  Append(marks, mark) \in Seq({1, 2})
  OBVIOUS

LEMMA MonitorType ==
  ASSUME Fields, Monitor
  PROVE  monitor' \in MonitorState
<1>1. /\ monitor \in MonitorState /\ wall \in Nat /\ job.start \in Nat
  BY DEF Fields
<1>2. ASSUME NEW mask PROVE CheckCpSetting(monitor, mask) \in MonitorState
  <2> DEFINE bad == CountBits(mask) # args.num_cp
             marked == IF bad THEN [monitor EXCEPT !.marks = Append(@, 1), !.flag = TRUE,
                                                   !.cur_time = wall]
                              ELSE monitor
  <2>1. marked \in MonitorState
    <3>1. Append(monitor.marks, 1) \in Seq({1, 2}) BY <1>1, AppendMark DEF MonitorState
    <3>2. QED BY <1>1, <3>1 DEF MonitorState
  <2> HIDE DEF marked
  <2>2. [marked EXCEPT !.marks = Append(@, 2), !.flag = FALSE,
                       !.duration = marked.cur_time - job.start] \in MonitorState
    <3>1. Append(marked.marks, 2) \in Seq({1, 2}) BY <2>1, AppendMark DEF MonitorState
    <3>2. marked.cur_time - job.start \in Int BY <1>1, <2>1 DEF MonitorState
    <3>3. QED BY <2>1, <3>1, <3>2 DEF MonitorState
  <2>3. QED BY <2>1, <2>2 DEF CheckCpSetting, marked
<1>3. ASSUME NEW m \in MonitorState PROVE [m EXCEPT !.misread = TRUE] \in MonitorState
  BY DEF MonitorState
<1>4. QED BY <1>1, <1>2, <1>3 DEF Monitor

LEMMA NewMonitorType ==
  ASSUME monitor \in MonitorState
  PROVE  NewMonitor \in MonitorState
<1>1. <<>> \in Seq({1, 2}) OBVIOUS
<1>2. ASSUME NEW f \in BOOLEAN, NEW s \in Seq({1, 2}), NEW n \in Int
      PROVE  [monitor EXCEPT !.flag = f, !.marks = s, !.duration = n] \in MonitorState
  BY DEF MonitorState
<1>3. FALSE \in BOOLEAN /\ 0 \in Int OBVIOUS
<1>4. QED BY <1>1, <1>2, <1>3, Zenon DEF NewMonitor

LEMMA ExecType ==
  ASSUME TypeInv, pc = "job", ~AllJobsSeen
  PROVE  /\ Exec \in Nat
         /\ FromFile => cur_job + 1 \in 1..Len(exec_times)
<1>1. /\ args.scale \in Nat /\ Wcet \in Nat /\ exec_times \in Seq(Nat) /\ cur_job \in Nat
  BY Numbers DEF TypeInv, ArgsInv, Fields
<1>2. FromFile => cur_job + 1 \in 1..Len(exec_times)
  BY <1>1 DEF AllJobsSeen, TypeInv, Stages
<1>3. FromFile => exec_times[cur_job + 1] \in Nat BY <1>1, <1>2
<1>4. QED BY <1>1, <1>2, <1>3, ProductType DEF Exec

LEMMA NextTypes == TypeInv /\ [Next]_vars => TypeInv'
<1> SUFFICES ASSUME TypeInv, [Next]_vars PROVE TypeInv' OBVIOUS
<1> USE DEF TypeInv
<1>1. args' = args
  BY DEF Next, vars, Start, CountJobs, ReadJob, ReadEnds, AddTime, AddPeriods, JobStart,
         JobRefused, FileEnds, LoopOnce, LoopEnds, SleepNextPeriod
<1>2. ArgsInv' /\ FromFile' = FromFile BY <1>1 DEF ArgsInv, FromFile
<1>3. ASSUME Start PROVE Fields' /\ Stages'
  <2>1. Fields' BY <1>3, Numbers DEF Start, StartJobs, Fields
  <2>2. Stages' BY <1>2, <1>3 DEF Start, StartJobs, Fields, Stages
  <2>3. QED BY <2>1, <2>2
<1>4. ASSUME CountJobs PROVE Fields' /\ Stages'
  <2>1. Fields' BY <1>4 DEF CountJobs, Fields
  <2>2. Stages' BY <1>2, <1>4 DEF CountJobs, Fields, Stages
  <2>3. QED BY <2>1, <2>2
<1>5. ASSUME ReadJob PROVE Fields' /\ Stages'
  <2>1. ReadTime(stream.text, stream.pos, args.column).time \in Nat BY ReadType
  <2>2. PICK time \in Nat : \/ exec_times' = Append(exec_times, time) /\ pc' = pc
                            \/ pc' = "invalid" /\ exec_times' = exec_times
    BY <1>5, <2>1 DEF ReadJob
  <2>3. /\ pc = "read" /\ Len(exec_times) < num_jobs
        /\ UNCHANGED <<args, num_jobs, program_end, cur_job, ran, wall, release, parts, loop,
                       job, monitor>>
    BY <1>5 DEF ReadJob, ReadsOn
  <2>4. Fields'
    <3>1. exec_times' \in Seq(Nat)
      <4>1. exec_times \in Seq(Nat) /\ Append(exec_times, time) \in Seq(Nat) BY DEF Fields
      <4>2. QED BY <2>2, <4>1
    <3>2. pc' \in {"read", "invalid"} BY <2>2, <2>3
    <3>3. QED BY <2>3, <3>1, <3>2 DEF Fields, Final
  <2>5. Stages' BY <1>2, <2>2, <2>3 DEF Fields, Stages
  <2>6. QED BY <2>4, <2>5
<1>6. ASSUME ReadEnds PROVE Fields' /\ Stages'
  <2>1. Fields' BY <1>6 DEF ReadEnds, reading, Fields, Final
  <2>2. Stages' BY <1>2, <1>6 DEF ReadEnds, reading, Fields, Stages
  <2>3. QED BY <2>1, <2>2
<1>7. ASSUME AddTime PROVE Fields' /\ Stages'
  <2>1. exec_times[cur_job + 1] \in Nat BY <1>7 DEF AddTime, Fields, Stages
  <2>2. Fields' BY <1>7, <2>1 DEF AddTime, reading, Fields
  <2>3. Stages' BY <1>2, <1>7 DEF AddTime, reading, Fields, Stages
  <2>4. QED BY <2>2, <2>3
<1>8. ASSUME AddPeriods PROVE Fields' /\ Stages'
  <2>1. Periods(num_jobs) \in Nat
    <3>1. num_jobs \in Nat /\ Period \in Nat BY Numbers DEF Fields
    <3>2. num_jobs > 1 => num_jobs - 1 \in Nat BY <3>1
    <3>3. QED BY <3>1, <3>2, ProductType DEF Periods
  <2>2. Fields' BY <1>8, <2>1 DEF AddPeriods, StartJobs, reading, Fields
  <2>3. Stages' BY <1>2, <1>8 DEF AddPeriods, StartJobs, reading, Fields, Stages
  <2>4. QED BY <2>2, <2>3
<1>9. ASSUME JobStart PROVE Fields' /\ Stages'
  <2>1. Exec \in Nat BY <1>9, ExecType DEF JobStart
  <2>2. FromFile => cur_job < Len(exec_times)
    <3>1. FromFile => cur_job + 1 \in 1..Len(exec_times) BY <1>9, ExecType DEF JobStart
    <3>2. QED BY <3>1 DEF Fields
  <2>3. parts' \in Seq(CpuPart \cup CountPart)
    <3>1. program_end \in Nat BY DEF Fields
    <3>2. QED BY <1>9, <2>1, <3>1, PartsAre DEF JobStart, OfProgram
  <2>4. monitor' \in MonitorState
    <3>1. monitor \in MonitorState BY DEF Fields
    <3>2. QED BY <1>9, <3>1, NewMonitorType DEF JobStart
  <2>5. ran' \in Seq(Nat) /\ Len(ran') <= Len(ran) + 1 BY <1>9, <2>1 DEF JobStart, Fields
  <2>6. /\ job' = NewJob(Exec) /\ loop' = NewLoop /\ pc = "job" /\ pc' = "loop"
        /\ UNCHANGED <<args, reading, program_end, cur_job, wall, release>>
        /\ ~FromFile => ran' = ran
    BY <1>9 DEF JobStart
  <2>7. Fields' BY <2>1, <2>3, <2>4, <2>5, <2>6, Numbers DEF Fields, reading, NewJob, NewLoop
  <2>8. Stages' BY <1>2, <2>2, <2>5, <2>6 DEF Fields, Stages, reading
  <2>9. QED BY <2>7, <2>8
<1>10. ASSUME JobRefused PROVE Fields' /\ Stages'
  <2>1. Fields' BY <1>10 DEF JobRefused, AfterRefusal, reading, Fields, Final
  <2>2. FromFile => cur_job < Len(exec_times)
    <3>1. FromFile => cur_job + 1 \in 1..Len(exec_times) BY <1>10, ExecType DEF JobRefused
    <3>2. QED BY <3>1 DEF Fields
  <2>3. /\ pc = "job" /\ UNCHANGED <<num_jobs, exec_times, ran, wall, release, program_end>>
        /\ FromFile => cur_job' = cur_job + 1 /\ pc' = "job"
        /\ ~FromFile => cur_job' = cur_job /\ pc' = "done"
    BY <1>10 DEF JobRefused, AfterRefusal, reading
  <2>4. Stages'
    <3>1. CASE FromFile BY <1>2, <2>2, <2>3, <3>1 DEF Fields, Stages
    <3>2. CASE ~FromFile BY <1>2, <2>3, <3>2 DEF Fields, Stages
    <3>3. QED BY <3>1, <3>2
  <2>5. QED BY <2>1, <2>4
<1>11. ASSUME FileEnds PROVE Fields' /\ Stages'
  <2>1. Fields' BY <1>11 DEF FileEnds, reading, Fields, Final
  <2>2. Stages' BY <1>2, <1>11 DEF FileEnds, reading, Fields, Stages
  <2>3. QED BY <2>1, <2>2
<1>12. ASSUME LoopOnce PROVE Fields' /\ Stages'
  <2>1. PICK c \in LoopTimes, d \in 0..(MaxDelay - job.delay) :
          /\ wall' = wall + c + d
          /\ \E e \in BOOLEAN :
               job' = [job EXCEPT !.cpu = @ + c, !.delay = @ + d, !.emergency = e]
          /\ \/ parts' = Tail(parts) /\ loop' = NewLoop
             \/ /\ loop' = [used |-> loop.used + c, last_loop |-> c,
                            iter |-> IF Head(parts).kind = "count" THEN loop.iter + 1 ELSE 0]
                /\ parts' = parts
    BY <1>12 DEF LoopOnce, Fields
  <2>2. c \in Nat BY LoopTime
  <2>3. monitor' \in MonitorState BY <1>12, MonitorType DEF LoopOnce
  <2>4. /\ parts \in Seq(CpuPart \cup CountPart) /\ parts # <<>> /\ GoesOn(Head(parts))
        /\ UNCHANGED <<args, pc, reading, program_end, cur_job, ran, release>> /\ pc = "loop"
    BY <1>12 DEF LoopOnce, Fields
  <2>5. Head(parts) \in CpuPart \cup CountPart /\ Tail(parts) \in Seq(CpuPart \cup CountPart)
    BY <2>4
  <2>6. loop' \in [used : Nat, last_loop : LoopTimes \cup {0}, iter : 0..Loops \cup {1}]
    <3>1. CASE loop' = NewLoop BY <3>1, Numbers DEF NewLoop
    <3>2. CASE loop' = [used |-> loop.used + c, last_loop |-> c,
                        iter |-> IF Head(parts).kind = "count" THEN loop.iter + 1 ELSE 0]
      <4>1. Head(parts).kind = "count" => Head(parts).length \in {1, Loops}
        BY <2>5 DEF CpuPart, CountPart
      <4>2. Head(parts).kind = "count" => loop.iter < Head(parts).length
        BY <2>4 DEF GoesOn
      <4>3. loop.iter \in Nat /\ loop.used \in Nat /\ Loops \in Nat BY Numbers DEF Fields
      <4>4. (IF Head(parts).kind = "count" THEN loop.iter + 1 ELSE 0) \in 0..Loops \cup {1}
        BY <4>1, <4>2, <4>3
      <4>5. QED BY <2>2, <3>2, <4>3, <4>4
    <3>3. QED BY <2>1, <3>1, <3>2
  <2>7. job' \in [start : Nat, exec : Nat, cpu : Nat, delay : 0..MaxDelay, emergency : BOOLEAN]
    <3>1. PICK e \in BOOLEAN :
            job' = [job EXCEPT !.cpu = @ + c, !.delay = @ + d, !.emergency = e]
      BY <2>1
    <3>2. job.cpu + c \in Nat /\ job.delay + d \in 0..MaxDelay BY <2>2, Numbers DEF Fields
    <3>3. QED BY <3>1, <3>2 DEF Fields
  <2>8. wall' \in Nat
    <3>1. wall \in Nat /\ d \in Nat BY DEF Fields
    <3>2. QED BY <2>1, <2>2, <3>1
  <2>9. parts' \in Seq(CpuPart \cup CountPart) BY <2>1, <2>4, <2>5
  <2>10. Fields' BY <2>3, <2>4, <2>6, <2>7, <2>8, <2>9 DEF Fields, reading
  <2>11. Stages' BY <1>2, <2>4 DEF Fields, Stages, reading
  <2>12. QED BY <2>10, <2>11
<1>13. ASSUME LoopEnds PROVE Fields' /\ Stages'
  <2>1. parts' \in Seq(CpuPart \cup CountPart) BY <1>13 DEF LoopEnds, Fields
  <2>2. Fields' BY <1>13, <2>1, Numbers DEF LoopEnds, reading, NewLoop, Fields
  <2>3. Stages' BY <1>2, <1>13 DEF LoopEnds, reading, Fields, Stages
  <2>4. QED BY <2>2, <2>3
<1>14. ASSUME SleepNextPeriod PROVE Fields' /\ Stages'
  <2>1. release + Period \in Nat /\ wall \in Nat BY Numbers DEF Fields
  <2>2. Max({wall, release + Period}) \in Nat BY <2>1, MaxOfTwo
  <2>3. Fields' BY <1>14, <2>1, <2>2 DEF SleepNextPeriod, reading, Fields
  <2>4. Stages' BY <1>2, <1>14 DEF SleepNextPeriod, reading, Fields, Stages
  <2>5. QED BY <2>3, <2>4
<1>15. ASSUME UNCHANGED vars PROVE Fields' /\ Stages'
  BY <1>2, <1>15 DEF vars, reading, Fields, Stages, MonitorState
<1>16. QED
  BY <1>2, <1>3, <1>4, <1>5, <1>6, <1>7, <1>8, <1>9, <1>10, <1>11, <1>12, <1>13, <1>14, <1>15
  DEF Next

LEMMA Types == Spec => []TypeInv
<1>1. QED BY InitTypes, NextTypes, PTL DEF Spec
-----------------------------------------------------------------------------
(* The marks of a job.                                                     *)

MarksOf(m, start) ==
  /\ \A i \in 1..Len(m.marks) : m.marks[i] = 2 => i > 1 /\ m.marks[i - 1] = 1
  /\ m.flag => Len(m.marks) >= 1 /\ m.marks[Len(m.marks)] = 1 /\ m.cur_time >= start
  /\ m.duration >= 0

QuietOf(m) == Len(m.marks) > 0 => ~args.kept \/ args.num_cp # Param \/ m.misread

MarkInv ==
  /\ MarksOf(monitor, job.start) /\ QuietOf(monitor)
  /\ pc = "loop" => wall >= job.start

LEMMA BadMark ==
  ASSUME NEW m \in MonitorState, NEW n \in MonitorState, NEW start \in Nat,
         MarksOf(m, start), wall \in Nat, wall >= start,
         n.marks = Append(m.marks, 1), n.cur_time = wall, n.duration = m.duration
  PROVE  MarksOf(n, start)
<1>1. m.marks \in Seq({1, 2}) BY DEF MonitorState
<1>2. /\ Len(n.marks) = Len(m.marks) + 1 /\ Len(m.marks) \in Nat
      /\ n.marks[Len(m.marks) + 1] = 1
      /\ \A i \in 1..Len(m.marks) : n.marks[i] = m.marks[i]
  BY <1>1
<1>3. ASSUME NEW i \in 1..Len(n.marks), n.marks[i] = 2 PROVE i > 1 /\ n.marks[i - 1] = 1
  <2>1. i \in 1..Len(m.marks) BY <1>2, <1>3
  <2>2. i > 1 /\ m.marks[i - 1] = 1 BY <1>2, <1>3, <2>1 DEF MarksOf
  <2>3. i - 1 \in 1..Len(m.marks) BY <1>2, <2>1, <2>2
  <2>4. QED BY <1>2, <2>2, <2>3
<1>4. QED BY <1>2, <1>3 DEF MarksOf

LEMMA GoodMark ==
  ASSUME NEW m \in MonitorState, NEW n \in MonitorState, NEW start \in Nat,
         MarksOf(m, start), m.flag,
         n.marks = Append(m.marks, 2), ~n.flag, n.duration = m.cur_time - start
  PROVE  MarksOf(n, start)
<1>1. m.marks \in Seq({1, 2}) /\ m.cur_time \in Nat BY DEF MonitorState
<1>2. /\ Len(n.marks) = Len(m.marks) + 1 /\ Len(m.marks) \in Nat
      /\ n.marks[Len(m.marks) + 1] = 2
      /\ \A i \in 1..Len(m.marks) : n.marks[i] = m.marks[i]
  BY <1>1
<1>3. Len(m.marks) >= 1 /\ m.marks[Len(m.marks)] = 1 /\ m.cur_time >= start BY DEF MarksOf
<1>4. ASSUME NEW i \in 1..Len(n.marks), n.marks[i] = 2 PROVE i > 1 /\ n.marks[i - 1] = 1
  <2>1. CASE i = Len(m.marks) + 1
    <3>1. i - 1 \in 1..Len(m.marks) /\ i - 1 = Len(m.marks) /\ i > 1 BY <1>2, <1>3, <2>1
    <3>2. QED BY <1>2, <1>3, <3>1
  <2>2. CASE i # Len(m.marks) + 1
    <3>1. i \in 1..Len(m.marks) BY <1>2, <2>2
    <3>2. i > 1 /\ m.marks[i - 1] = 1 BY <1>2, <1>4, <3>1 DEF MarksOf
    <3>3. i - 1 \in 1..Len(m.marks) BY <1>2, <3>1, <3>2
    <3>4. QED BY <1>2, <3>2, <3>3
  <2>3. QED BY <2>1, <2>2
<1>5. n.duration >= 0 BY <1>1, <1>3
<1>6. QED BY <1>4, <1>5 DEF MarksOf

\* What check_cp_setting() makes of the monitor: a mark 1, a mark 2 behind it, or
\* nothing.
LEMMA CheckIs ==
  ASSUME monitor \in MonitorState, wall \in Nat, job.start \in Nat, NEW mask
  PROVE  LET n == CheckCpSetting(monitor, mask)
             bad == CountBits(mask) # args.num_cp IN
         /\ n \in MonitorState /\ n.misread = monitor.misread
         /\ \/ /\ bad /\ n.marks = Append(monitor.marks, 1) /\ n.cur_time = wall
               /\ n.duration = monitor.duration
            \/ /\ ~bad /\ monitor.flag /\ n.marks = Append(monitor.marks, 2) /\ ~n.flag
               /\ n.duration = monitor.cur_time - job.start
            \/ n = monitor
<1> DEFINE bad == CountBits(mask) # args.num_cp
<1>1. CASE bad
  <2> DEFINE marked == [monitor EXCEPT !.marks = Append(@, 1), !.flag = TRUE, !.cur_time = wall]
  <2>1. CheckCpSetting(monitor, mask) = marked BY <1>1 DEF CheckCpSetting
  <2>2. Append(monitor.marks, 1) \in Seq({1, 2}) BY AppendMark DEF MonitorState
  <2>3. marked \in MonitorState BY <2>2 DEF MonitorState
  <2>4. /\ marked.marks = Append(monitor.marks, 1) /\ marked.cur_time = wall
        /\ marked.duration = monitor.duration /\ marked.misread = monitor.misread
    BY DEF MonitorState
  <2>5. QED BY <1>1, <2>1, <2>3, <2>4
<1>2. CASE ~bad /\ monitor.flag
  <2> DEFINE marked == [monitor EXCEPT !.marks = Append(@, 2), !.flag = FALSE,
                                       !.duration = monitor.cur_time - job.start]
  <2>1. CheckCpSetting(monitor, mask) = marked BY <1>2 DEF CheckCpSetting
  <2>2. Append(monitor.marks, 2) \in Seq({1, 2}) BY AppendMark DEF MonitorState
  <2>3. monitor.cur_time - job.start \in Int BY DEF MonitorState
  <2>4. marked \in MonitorState BY <2>2, <2>3 DEF MonitorState
  <2>5. /\ marked.marks = Append(monitor.marks, 2) /\ ~marked.flag
        /\ marked.duration = monitor.cur_time - job.start /\ marked.misread = monitor.misread
    BY DEF MonitorState
  <2>6. QED BY <1>2, <2>1, <2>4, <2>5
<1>3. CASE ~bad /\ ~monitor.flag
  <2>1. CheckCpSetting(monitor, mask) = monitor BY <1>3 DEF CheckCpSetting
  <2>2. QED BY <2>1
<1>4. QED BY <1>1, <1>2, <1>3

LEMMA CountBitsIs ==
  ASSUME NEW mask \in Masks
  PROVE  CountBits(mask) = Cardinality(mask)
<1>1. mask \subseteq 0..15 BY SpinJobsAssumption
<1>2. mask \cap 0..15 = mask BY <1>1
<1>3. QED BY <1>2 DEF CountBits

LEMMA CheckKeeps ==
  ASSUME monitor \in MonitorState, wall \in Nat, job.start \in Nat, wall >= job.start,
         MarksOf(monitor, job.start), QuietOf(monitor), NEW mask \in Masks
  PROVE  /\ MarksOf(CheckCpSetting(monitor, mask), job.start)
         /\ (args.kept => Cardinality(mask) = Param) => QuietOf(CheckCpSetting(monitor, mask))
<1> DEFINE n == CheckCpSetting(monitor, mask)
           bad == CountBits(mask) # args.num_cp
<1>1. /\ n \in MonitorState /\ n.misread = monitor.misread
      /\ \/ /\ bad /\ n.marks = Append(monitor.marks, 1) /\ n.cur_time = wall
            /\ n.duration = monitor.duration
         \/ /\ ~bad /\ monitor.flag /\ n.marks = Append(monitor.marks, 2) /\ ~n.flag
            /\ n.duration = monitor.cur_time - job.start
         \/ n = monitor
  BY CheckIs
<1> HIDE DEF n
<1>2. MarksOf(n, job.start) BY <1>1, BadMark, GoodMark
<1>3. ASSUME args.kept => Cardinality(mask) = Param PROVE QuietOf(n)
  <2>1. CASE bad
    <3>1. ~args.kept \/ args.num_cp # Param BY <1>3, <2>1, CountBitsIs
    <3>2. QED BY <3>1 DEF QuietOf
  <2>2. CASE monitor.flag
    <3>1. Len(monitor.marks) > 0
      <4>1. Len(monitor.marks) \in Nat BY DEF MonitorState
      <4>2. QED BY <2>2, <4>1 DEF MarksOf
    <3>2. QED BY <1>1, <3>1 DEF QuietOf
  <2>3. CASE n = monitor BY <2>3 DEF QuietOf
  <2>4. QED BY <1>1, <2>1, <2>2, <2>3
<1>4. QED BY <1>2, <1>3 DEF n

LEMMA MonitorKeeps ==
  ASSUME TypeInv, MarkInv, pc = "loop", Monitor
  PROVE  MarksOf(monitor', job.start) /\ (args' = args => QuietOf(monitor)')
<1>1. /\ monitor \in MonitorState /\ wall \in Nat /\ job.start \in Nat /\ wall >= job.start
      /\ MarksOf(monitor, job.start) /\ QuietOf(monitor)
  BY DEF TypeInv, Fields, MarkInv
<1>2. ASSUME NEW mask \in Masks, args.kept => Cardinality(mask) = Param,
             monitor' = CheckCpSetting(monitor, mask)
      PROVE  MarksOf(monitor', job.start) /\ (args' = args => QuietOf(monitor)')
  BY <1>1, <1>2, CheckKeeps DEF QuietOf
<1>3. ASSUME NEW mask \in Masks,
             monitor' = [CheckCpSetting(monitor, mask) EXCEPT !.misread = TRUE]
      PROVE  MarksOf(monitor', job.start) /\ (args' = args => QuietOf(monitor)')
  <2> DEFINE n == CheckCpSetting(monitor, mask)
  <2>1. n \in MonitorState BY <1>1, CheckIs
  <2>2. MarksOf(n, job.start) BY <1>1, CheckKeeps
  <2> HIDE DEF n
  <2>3. /\ monitor'.marks = n.marks /\ monitor'.flag = n.flag
        /\ monitor'.cur_time = n.cur_time /\ monitor'.duration = n.duration
        /\ monitor'.misread
    BY <1>3, <2>1 DEF n, MonitorState
  <2>4. QED BY <2>2, <2>3 DEF MarksOf, QuietOf
<1>4. CASE monitor' = monitor BY <1>1, <1>4 DEF QuietOf
<1>5. QED BY <1>2, <1>3, <1>4 DEF Monitor

LEMMA InitMarks == Init => MarkInv
<1> SUFFICES ASSUME Init PROVE MarkInv OBVIOUS
<1>1. /\ pc = "args" /\ monitor.marks = <<>> /\ ~monitor.flag /\ monitor.duration = 0
  BY DEF Init
<1>2. Len(monitor.marks) = 0 BY <1>1
<1>3. QED BY <1>1, <1>2 DEF MarkInv, MarksOf, QuietOf

LEMMA NextMarks == TypeInv /\ MarkInv /\ [Next]_vars => MarkInv'
<1> SUFFICES ASSUME TypeInv, MarkInv, [Next]_vars PROVE MarkInv' OBVIOUS
<1>1. ASSUME UNCHANGED <<args, job, monitor>>, pc' # "loop" \/ (pc' = pc /\ wall' = wall)
      PROVE  MarkInv'
  BY <1>1 DEF MarkInv, MarksOf, QuietOf
<1>2. CASE Start \/ CountJobs \/ ReadJob \/ ReadEnds \/ AddTime \/ AddPeriods
  BY <1>1, <1>2
  DEF Start, StartJobs, CountJobs, ReadJob, ReadEnds, AddTime, AddPeriods, TypeInv
<1>3. CASE JobRefused \/ FileEnds \/ LoopEnds \/ SleepNextPeriod \/ UNCHANGED vars
  BY <1>1, <1>3 DEF JobRefused, FileEnds, LoopEnds, SleepNextPeriod, vars
<1>4. CASE JobStart
  <2>1. /\ monitor'.marks = <<>> /\ ~monitor'.flag /\ monitor'.duration = 0
    <3>1. monitor' = [monitor EXCEPT !.flag = FALSE, !.marks = <<>>, !.duration = 0]
      BY <1>4 DEF JobStart, NewMonitor
    <3>2. monitor \in MonitorState BY DEF TypeInv, Fields
    <3>3. QED BY <3>1, <3>2 DEF MonitorState
  <2>2. Len(monitor'.marks) = 0 BY <2>1
  <2>3. job'.start = wall /\ wall' = wall /\ wall \in Nat
    BY <1>4 DEF JobStart, NewJob, TypeInv, Fields
  <2>4. QED BY <2>1, <2>2, <2>3 DEF MarkInv, MarksOf, QuietOf
<1>5. CASE LoopOnce
  <2>1. pc = "loop" /\ Monitor /\ args' = args BY <1>5 DEF LoopOnce
  <2>2. MarksOf(monitor', job.start) /\ QuietOf(monitor)' BY <2>1, MonitorKeeps
  <2>3. /\ job \in [start : Nat, exec : Nat, cpu : Nat, delay : 0..MaxDelay, emergency : BOOLEAN]
        /\ wall \in Nat
    BY DEF TypeInv, Fields
  <2>4. PICK c \in LoopTimes, d \in 0..(MaxDelay - job.delay) :
          wall' = wall + c + d /\ job'.start = job.start
    BY <1>5, <2>3 DEF LoopOnce
  <2>5. c \in Nat /\ d \in Nat BY LoopTime
  <2>6. wall' >= job.start BY <2>1, <2>3, <2>4, <2>5 DEF MarkInv
  <2>7. QED BY <2>2, <2>4, <2>6 DEF MarkInv, MarksOf
<1>6. QED BY <1>2, <1>3, <1>4, <1>5 DEF Next

\* The mark that partitions are valid again follows one that they are not, the
\* duration that is printed is not negative, and nothing is marked while every
\* job has what it asked for and the reads work.
THEOREM MarksCanBeTrusted == Spec => []MarksJustified
<1>1. TypeInv /\ MarkInv => MarksJustified
  <2> SUFFICES ASSUME TypeInv, MarkInv PROVE MarksJustified OBVIOUS
  <2>1. monitor.marks \in Seq({1, 2}) BY DEF TypeInv, Fields, MonitorState
  <2>2. monitor.marks # <<>> => Len(monitor.marks) > 0 BY <2>1
  <2>3. QED
    BY <2>2 DEF MarkInv, MarksOf, QuietOf, MarksJustified, MarksPaired, QuietWhenKept
<1>2. QED BY <1>1, Types, InitMarks, NextMarks, PTL DEF Spec
-----------------------------------------------------------------------------
(* How long a job takes.                                                   *)

\* What loop_for() may use of the processor: it stops when another iteration like
\* the last one would be too long.
MayUse(part) == LargerOf(part.length + Longest - Shortest - 1, Longest)

\* What the job has used in earlier parts, and what the parts that are left may
\* take, add up to no more than the job may take.
Budget ==
  /\ job.cpu - loop.used + CostOf(parts) <= LargerOf(job.exec, args.cs) + 3 * (Longest - 1)
  /\ parts = <<>> => loop.used = 0
  /\ parts # <<>> => loop.used <= Cost(Head(parts)) /\ loop.used <= MayUse(Head(parts))

InJob ==
  /\ wall = job.start + job.cpu + job.delay /\ job.start <= program_end
  /\ OfProgram(parts)
  /\ loop.last_loop = 0 => loop.used = 0
  /\ args.program \in Spinning => Budget

LoopInv == EmergencyOnlyIfLong /\ (pc = "loop" => InJob)

LEMMA RestOfParts ==
  ASSUME OfProgram(parts), parts # <<>>
  PROVE  /\ OfProgram(Tail(parts)) /\ Head(parts) \in CpuPart \cup CountPart
         /\ Head(parts).limit # NoLimit => Head(parts).limit >= program_end + Second
         /\ args.program \in Spinning => Head(parts) \in CpuPart
         /\ CostOf(parts) = Cost(Head(parts)) + CostOf(Tail(parts))
         /\ Cost(Head(parts)) \in Nat /\ CostOf(Tail(parts)) \in Nat
<1> DEFINE rest == Tail(parts)
<1>1. parts \in Seq(CpuPart \cup CountPart) /\ Len(parts) \in 1..3
  <2>1. parts \in Seq(CpuPart \cup CountPart) /\ Len(parts) <= 3 BY DEF OfProgram
  <2>2. Len(parts) \in Nat /\ Len(parts) # 0 /\ Len(parts) <= 3 BY <2>1, EmptySeq
  <2>3. \A n \in Nat : n # 0 /\ n <= 3 => n \in 1..3 OBVIOUS
  <2>4. QED BY <2>1, <2>2, <2>3
<1>2. /\ rest \in Seq(CpuPart \cup CountPart) /\ Len(rest) = Len(parts) - 1
      /\ \A i \in 1..Len(rest) : i + 1 \in 1..Len(parts) /\ rest[i] = parts[i + 1]
      /\ Head(parts) = parts[1] /\ 1 \in 1..Len(parts)
  BY <1>1
<1>3. ASSUME NEW part \in CpuPart \cup CountPart PROVE Cost(part) \in Nat
  <2>1. part.length \in Int BY Numbers DEF CpuPart, CountPart
  <2>2. QED BY <2>1, LoopTime DEF Cost
<1> HIDE DEF rest
<1>4. OfProgram(rest) BY <1>1, <1>2 DEF OfProgram
<1>5. /\ Head(parts) \in CpuPart \cup CountPart
      /\ Head(parts).limit # NoLimit => Head(parts).limit >= program_end + Second
      /\ args.program \in Spinning => Head(parts) \in CpuPart
  BY <1>1, <1>2 DEF OfProgram
<1>6. \A i \in 1..Len(parts) : Cost(parts[i]) \in Nat BY <1>1, <1>3
<1>7. CostOf(parts) = Cost(Head(parts)) + CostOf(rest) /\ CostOf(rest) \in Nat
  <2>1. CASE Len(parts) = 1
    <3>1. Len(rest) = 0 /\ Cost(parts[1]) \in Nat BY <1>2, <1>6, <2>1
    <3>2. QED BY <1>2, <2>1, <3>1 DEF CostOf
  <2>2. CASE Len(parts) = 2
    <3>1. 1 \in 1..Len(rest) /\ Len(rest) = 1 /\ 2 \in 1..Len(parts) BY <1>2, <2>2
    <3>2. rest[1] = parts[2] BY <1>2, <3>1
    <3>3. Cost(parts[1]) \in Nat /\ Cost(parts[2]) \in Nat BY <1>2, <1>6, <3>1
    <3>4. QED BY <1>2, <2>2, <3>1, <3>2, <3>3 DEF CostOf
  <2>3. CASE Len(parts) = 3
    <3>1. /\ 1 \in 1..Len(rest) /\ 2 \in 1..Len(rest) /\ Len(rest) = 2
          /\ 2 \in 1..Len(parts) /\ 3 \in 1..Len(parts)
      BY <1>2, <2>3
    <3>2. rest[1] = parts[2] /\ rest[2] = parts[3] BY <1>2, <3>1
    <3>3. Cost(parts[1]) \in Nat /\ Cost(parts[2]) \in Nat /\ Cost(parts[3]) \in Nat
      BY <1>2, <1>6, <3>1
    <3>4. QED BY <1>2, <2>3, <3>1, <3>2, <3>3 DEF CostOf
  <2>4. QED BY <1>1, <2>1, <2>2, <2>3
<1>8. Cost(Head(parts)) \in Nat BY <1>2, <1>6
<1>9. QED BY <1>4, <1>5, <1>7, <1>8 DEF rest

\* A new part: nothing is used yet.
LEMMA FreshPart ==
  ASSUME NEW part \in CpuPart
  PROVE  0 <= Cost(part) /\ 0 <= MayUse(part)
<1>1. part.length \in Int BY DEF CpuPart
<1>2. QED BY <1>1, LoopTime DEF Cost, MayUse, LargerOf

LEMMA JobTypes ==
  ASSUME TypeInv
  PROVE  /\ wall \in Nat /\ program_end \in Nat /\ args.cs \in Nat /\ release \in Nat
         /\ job \in [start : Nat, exec : Nat, cpu : Nat, delay : 0..MaxDelay, emergency : BOOLEAN]
         /\ job.start \in Nat /\ job.exec \in Nat /\ job.cpu \in Nat /\ job.delay \in Nat
         /\ loop.used \in Nat /\ loop.last_loop \in LoopTimes \cup {0}
<1>1. /\ wall \in Nat /\ program_end \in Nat /\ release \in Nat
      /\ job \in [start : Nat, exec : Nat, cpu : Nat, delay : 0..MaxDelay, emergency : BOOLEAN]
      /\ loop \in [used : Nat, last_loop : LoopTimes \cup {0}, iter : 0..Loops \cup {1}]
  BY DEF TypeInv, Fields
<1>2. args.cs \in Nat BY Numbers DEF TypeInv, ArgsInv
<1>3. /\ job.start \in Nat /\ job.exec \in Nat /\ job.cpu \in Nat /\ job.delay \in 0..MaxDelay
  BY <1>1
<1>4. job.delay \in Nat BY <1>3, Numbers
<1>5. loop.used \in Nat /\ loop.last_loop \in LoopTimes \cup {0} BY <1>1
<1>6. QED BY <1>1, <1>2, <1>3, <1>4, <1>5

\* One iteration, and what it changes.
LEMMA OneLoop ==
  ASSUME TypeInv, LoopOnce
  PROVE  \E c \in Nat, d \in Nat :
           LET limit == Head(parts).limit
               emergency == limit # NoLimit /\ wall + c + d > limit
           IN /\ wall' = wall + c + d /\ c \in LoopTimes
              /\ job'.start = job.start /\ job'.exec = job.exec
              /\ job'.cpu = job.cpu + c /\ job'.delay = job.delay + d
              /\ job'.emergency => job.emergency \/ emergency
              /\ \/ emergency /\ parts' = Tail(parts) /\ loop' = NewLoop
                 \/ /\ parts' = parts /\ loop'.used = loop.used + c /\ loop'.last_loop = c
<1>1. PICK c \in LoopTimes, d \in 0..(MaxDelay - job.delay) :
        LET limit == Head(parts).limit
            emergency == limit # NoLimit /\ wall + c + d > limit
        IN /\ wall' = wall + c + d
           /\ job' = [job EXCEPT !.cpu = @ + c, !.delay = @ + d, !.emergency = @ \/ emergency]
           /\ \/ emergency /\ parts' = Tail(parts) /\ loop' = NewLoop
              \/ /\ parts' = parts
                 /\ loop' = [used |-> loop.used + c, last_loop |-> c,
                             iter |-> IF Head(parts).kind = "count" THEN loop.iter + 1 ELSE 0]
  BY DEF LoopOnce
<1> DEFINE emergency == Head(parts).limit # NoLimit /\ wall + c + d > Head(parts).limit
<1>2. c \in Nat /\ d \in Nat /\ c \in LoopTimes BY LoopTime, JobTypes
<1>3. job' = [job EXCEPT !.cpu = @ + c, !.delay = @ + d, !.emergency = @ \/ emergency]
  BY <1>1
<1> HIDE DEF emergency
<1>4. /\ job'.start = job.start /\ job'.exec = job.exec
      /\ job'.cpu = job.cpu + c /\ job'.delay = job.delay + d
      /\ job'.emergency = (job.emergency \/ emergency)
  BY <1>3, JobTypes
<1>5. job'.emergency => job.emergency \/ emergency BY <1>4
<1>6. \/ emergency /\ parts' = Tail(parts) /\ loop' = NewLoop
      \/ parts' = parts /\ loop'.used = loop.used + c /\ loop'.last_loop = c
  BY <1>1 DEF emergency
<1>7. wall' = wall + c + d BY <1>1
<1>8. QED BY <1>2, <1>4, <1>5, <1>6, <1>7 DEF emergency
LEMMA LoopOnceKeeps ==
  ASSUME TypeInv, LoopInv, LoopOnce
  PROVE  LoopInv'
<1>1. PICK c \in Nat, d \in Nat :
        LET limit == Head(parts).limit
            emergency == limit # NoLimit /\ wall + c + d > limit
        IN /\ wall' = wall + c + d /\ c \in LoopTimes
           /\ job'.start = job.start /\ job'.exec = job.exec
           /\ job'.cpu = job.cpu + c /\ job'.delay = job.delay + d
           /\ job'.emergency => job.emergency \/ emergency
           /\ \/ emergency /\ parts' = Tail(parts) /\ loop' = NewLoop
              \/ /\ parts' = parts /\ loop'.used = loop.used + c /\ loop'.last_loop = c
  BY OneLoop
<1> DEFINE emergency == Head(parts).limit # NoLimit /\ wall + c + d > Head(parts).limit
           bound == LargerOf(job.exec, args.cs) + 3 * (Longest - 1)
<1>2. /\ wall' = wall + c + d /\ c \in LoopTimes
      /\ job'.start = job.start /\ job'.exec = job.exec
      /\ job'.cpu = job.cpu + c /\ job'.delay = job.delay + d
      /\ job'.emergency => job.emergency \/ emergency
      /\ \/ emergency /\ parts' = Tail(parts) /\ loop' = NewLoop
         \/ parts' = parts /\ loop'.used = loop.used + c /\ loop'.last_loop = c
  BY <1>1
<1>3. /\ pc = "loop" /\ pc' = "loop" /\ args' = args /\ program_end' = program_end
      /\ parts # <<>> /\ GoesOn(Head(parts)) /\ InJob
  BY DEF LoopOnce, LoopInv
<1>4. /\ wall \in Nat /\ program_end \in Nat /\ job.start \in Nat /\ job.cpu \in Nat
      /\ job.delay \in Nat /\ loop.used \in Nat /\ loop.last_loop \in LoopTimes \cup {0}
      /\ Second \in Nat
      /\ wall = job.start + job.cpu + job.delay /\ job.start <= program_end
  BY <1>3, JobTypes, Numbers DEF InJob
<1>5. /\ OfProgram(parts) /\ OfProgram(Tail(parts)) /\ Head(parts) \in CpuPart \cup CountPart
      /\ Head(parts).limit # NoLimit => Head(parts).limit >= program_end + Second
      /\ args.program \in Spinning => Head(parts) \in CpuPart
      /\ CostOf(parts) = Cost(Head(parts)) + CostOf(Tail(parts))
      /\ Cost(Head(parts)) \in Nat /\ CostOf(Tail(parts)) \in Nat
  BY <1>3, RestOfParts DEF InJob
<1>6. EmergencyOnlyIfLong'
  <2>1. ASSUME emergency PROVE job.cpu + c + (job.delay + d) > Second
    <3>1. Head(parts).limit \in Nat BY <1>5 DEF CpuPart, CountPart, NoLimit
    <3>2. Head(parts).limit >= program_end + Second /\ wall + c + d > Head(parts).limit
      BY <1>5, <2>1
    <3>3. ASSUME NEW start \in Nat, NEW cpu \in Nat, NEW delay \in Nat, NEW end \in Nat,
                 NEW limit \in Nat, NEW x \in Nat, NEW y \in Nat, NEW s \in Nat,
                 start <= end, limit >= end + s, start + cpu + delay + x + y > limit
          PROVE  cpu + x + (delay + y) > s
      BY <3>3
    <3>4. job.start + job.cpu + job.delay + c + d > Head(parts).limit BY <1>4, <3>2
    <3>5. QED BY <1>2, <1>4, <3>1, <3>2, <3>3, <3>4
  <2>2. ASSUME job.emergency PROVE job.cpu + c + (job.delay + d) > Second
    <3>1. job.cpu + job.delay > Second BY <2>2 DEF LoopInv, EmergencyOnlyIfLong
    <3>2. QED BY <1>2, <1>4, <3>1
  <2>3. QED BY <1>2, <2>1, <2>2 DEF EmergencyOnlyIfLong
<1>7. OfProgram(parts)'
  <2>1. OfProgram(parts') BY <1>2, <1>5
  <2>2. QED BY <1>3, <2>1 DEF OfProgram
<1>8. loop'.last_loop = 0 => loop'.used = 0
  <2>1. c # 0 BY <1>2, LoopTime
  <2>2. loop' = NewLoop => loop'.used = 0 BY DEF NewLoop
  <2>3. QED BY <1>2, <2>1, <2>2
<1>9. ASSUME args.program \in Spinning PROVE Budget'
  <2>1. /\ job.cpu - loop.used + CostOf(parts) <= bound
        /\ loop.used <= Cost(Head(parts)) /\ loop.used <= MayUse(Head(parts))
    BY <1>3, <1>9 DEF InJob, Budget
  <2>2. Head(parts) \in CpuPart /\ Head(parts).length \in Int BY <1>5, <1>9 DEF CpuPart
  <2>3. loop.used + loop.last_loop < Head(parts).length
    BY <1>3, <2>2 DEF GoesOn, CpuPart
  <2>4. loop.used + c <= Cost(Head(parts))
    <3>1. loop.last_loop \in Nat
      <4>1. \A x \in LoopTimes \cup {0} : x \in Nat BY LoopTime
      <4>2. QED BY <1>4, <4>1
    <3>2. ASSUME NEW n \in Int, NEW used \in Nat, NEW last \in Nat, NEW l \in Nat, NEW x \in Nat,
                 used + last < n, x <= l
          PROVE  n > 0 /\ used + x <= n + l - 1
      BY <3>2
    <3>3. /\ Head(parts).length > 0
          /\ loop.used + c <= Head(parts).length + Longest - 1
      BY <1>2, <1>4, <2>2, <2>3, <3>1, <3>2, LoopTime
    <3>4. QED BY <3>3 DEF Cost
  <2>5. loop.used + c <= MayUse(Head(parts))
    <3>1. CASE loop.last_loop = 0
      <4>1. loop.used = 0 BY <1>3, <3>1 DEF InJob
      <4>2. QED BY <1>2, <2>2, <4>1, LoopTime DEF MayUse, LargerOf
    <3>2. CASE loop.last_loop # 0
      <4>1. loop.last_loop \in Nat /\ Shortest <= loop.last_loop BY <1>4, <3>2, LoopTime
      <4>2. ASSUME NEW n \in Int, NEW used \in Nat, NEW last \in Nat, NEW x \in Nat,
                   NEW s \in Nat, NEW l \in Nat, used + last < n, s <= last, x <= l
            PROVE  used + x <= n + l - s - 1
        BY <4>2
      <4>3. loop.used + c <= Head(parts).length + Longest - Shortest - 1
        BY <1>2, <1>4, <2>2, <2>3, <4>1, <4>2, LoopTime
      <4>4. ASSUME NEW a \in Int, NEW b \in Int, NEW x \in Int, x <= a
            PROVE  x <= LargerOf(a, b)
        BY <4>4 DEF LargerOf
      <4>5. /\ Head(parts).length + Longest - Shortest - 1 \in Int /\ Longest \in Int
            /\ loop.used + c \in Int
        BY <1>4, <2>2, LoopTime
      <4>6. QED BY <4>3, <4>4, <4>5 DEF MayUse
    <3>3. QED BY <3>1, <3>2
  <2>6. bound \in Int
    BY JobTypes, LoopTime DEF LargerOf
  <2> HIDE DEF bound
  <2>7. CASE emergency /\ parts' = Tail(parts) /\ loop' = NewLoop
    <3>1. loop'.used = 0 BY <2>7 DEF NewLoop
    <3>2. CostOf(parts)' = CostOf(Tail(parts)) BY <2>7 DEF CostOf, Cost
    <3>3. job'.cpu - loop'.used + CostOf(parts)' <= bound
      <4>1. ASSUME NEW cpu \in Nat, NEW used \in Nat, NEW x \in Nat, NEW head \in Nat,
                   NEW rest \in Nat, NEW b \in Int,
                   cpu - used + (head + rest) <= b, used + x <= head
            PROVE  (cpu + x) - 0 + rest <= b
        BY <4>1
      <4>2. job.cpu - loop.used + (Cost(Head(parts)) + CostOf(Tail(parts))) <= bound
        BY <1>5, <2>1
      <4>3. (job.cpu + c) - 0 + CostOf(Tail(parts)) <= bound
        <5>1. /\ job.cpu \in Nat /\ loop.used \in Nat /\ Cost(Head(parts)) \in Nat
              /\ CostOf(Tail(parts)) \in Nat /\ loop.used + c <= Cost(Head(parts))
          BY <1>4, <1>5, <2>4
        <5>2. QED BY <2>6, <4>1, <4>2, <5>1
      <4>4. job'.cpu = job.cpu + c BY <1>2
      <4>5. job'.cpu - loop'.used + CostOf(parts)' = (job.cpu + c) - 0 + CostOf(Tail(parts))
        BY <3>1, <3>2, <4>4
      <4>6. QED BY <4>3, <4>5
    <3>4. parts' # <<>> => Head(parts') \in CpuPart
      <4>1. OfProgram(parts') BY <1>5, <2>7
      <4>2. ASSUME parts' # <<>> PROVE parts'[1] \in CpuPart /\ Head(parts') = parts'[1]
        <5>1. Len(parts') \in Nat /\ Len(parts') # 0 BY <4>1, <4>2, EmptySeq DEF OfProgram
        <5>2. \A n \in Nat : n # 0 => 1 \in 1..n OBVIOUS
        <5>3. 1 \in 1..Len(parts') BY <5>1, <5>2
        <5>4. QED BY <1>9, <4>1, <4>2, <5>3 DEF OfProgram
      <4>3. QED BY <4>2
    <3>5. parts' # <<>> => 0 <= Cost(Head(parts')) /\ 0 <= MayUse(Head(parts'))
      BY <3>4, FreshPart
    <3>6. QED
      BY <1>2, <1>3, <3>1, <3>3, <3>5 DEF Budget, bound, LargerOf, Cost, MayUse
  <2>8. CASE parts' = parts /\ loop'.used = loop.used + c /\ loop'.last_loop = c
    <3>1. CostOf(parts)' = CostOf(parts) BY <2>8 DEF CostOf, Cost
    <3>2. CostOf(parts) \in Int BY <1>5
    <3>3. job'.cpu - loop'.used + CostOf(parts)' <= bound
      BY <1>2, <1>4, <2>1, <2>6, <2>8, <3>1, <3>2
    <3>4. QED BY <1>2, <1>3, <2>4, <2>5, <2>8, <3>3 DEF Budget, bound, LargerOf, Cost, MayUse
  <2>9. QED BY <1>2, <2>7, <2>8
<1>10. wall' = job'.start + job'.cpu + job'.delay /\ job'.start <= program_end'
  <2>1. ASSUME NEW start \in Nat, NEW cpu \in Nat, NEW delay \in Nat, NEW x \in Nat, NEW y \in Nat
        PROVE  start + cpu + delay + x + y = start + (cpu + x) + (delay + y)
    OBVIOUS
  <2>2. /\ job.start \in Nat /\ job.cpu \in Nat /\ job.delay \in Nat
        /\ wall = job.start + job.cpu + job.delay
    BY <1>4
  <2>3. job.start + job.cpu + job.delay + c + d = job.start + (job.cpu + c) + (job.delay + d)
    BY <2>1, <2>2
  <2>4. QED BY <1>2, <1>3, <1>4, <2>2, <2>3
<1>11. InJob' BY <1>3, <1>7, <1>8, <1>9, <1>10 DEF InJob
<1>12. QED BY <1>6, <1>11 DEF LoopInv
LEMMA LoopEndsKeeps ==
  ASSUME TypeInv, LoopInv, LoopEnds
  PROVE  LoopInv'
<1>1. /\ pc = "loop" /\ pc' = "loop" /\ parts # <<>> /\ InJob /\ parts' = Tail(parts)
      /\ loop' = NewLoop /\ UNCHANGED <<args, program_end, wall, job>>
  BY DEF LoopEnds, LoopInv
<1>2. loop'.used = 0 BY <1>1 DEF NewLoop
<1>3. /\ OfProgram(Tail(parts)) /\ CostOf(parts) = Cost(Head(parts)) + CostOf(Tail(parts))
      /\ Cost(Head(parts)) \in Nat /\ CostOf(Tail(parts)) \in Nat
  BY <1>1, RestOfParts DEF InJob
<1>4. OfProgram(parts)' BY <1>1, <1>3 DEF OfProgram
<1>5. ASSUME args.program \in Spinning PROVE Budget'
  <2> DEFINE bound == LargerOf(job.exec, args.cs) + 3 * (Longest - 1)
  <2>1. job.cpu - loop.used + CostOf(parts) <= bound /\ loop.used <= Cost(Head(parts))
    BY <1>1, <1>5 DEF InJob, Budget
  <2>2. bound \in Int /\ job.cpu \in Nat /\ loop.used \in Nat
    BY JobTypes, LoopTime DEF LargerOf
  <2> HIDE DEF bound
  <2>3. ASSUME NEW cpu \in Nat, NEW used \in Nat, NEW head \in Nat, NEW rest \in Nat, NEW b \in Int,
               cpu - used + (head + rest) <= b, used <= head
        PROVE  cpu - 0 + rest <= b
    BY <2>3
  <2>4. job.cpu - 0 + CostOf(Tail(parts)) <= bound BY <1>3, <2>1, <2>2, <2>3
  <2>5. CostOf(parts)' = CostOf(Tail(parts)) BY <1>1 DEF CostOf, Cost
  <2>6. job'.cpu - loop'.used + CostOf(parts)' <= bound BY <1>1, <1>2, <2>4, <2>5
  <2>7. parts' # <<>> => 0 <= Cost(Head(parts')) /\ 0 <= MayUse(Head(parts'))
    <3>1. ASSUME parts' # <<>> PROVE parts'[1] \in CpuPart /\ Head(parts') = parts'[1]
      <4>1. OfProgram(parts') BY <1>1, <1>3
      <4>2. Len(parts') \in Nat /\ Len(parts') # 0 BY <3>1, <4>1, EmptySeq DEF OfProgram
      <4>3. \A n \in Nat : n # 0 => 1 \in 1..n OBVIOUS
      <4>4. 1 \in 1..Len(parts') BY <4>2, <4>3
      <4>5. QED BY <1>5, <3>1, <4>1, <4>4 DEF OfProgram
    <3>2. QED BY <3>1, FreshPart
  <2>8. QED BY <1>1, <1>2, <2>6, <2>7 DEF Budget, bound, LargerOf, Cost, MayUse
<1>6. InJob' BY <1>1, <1>2, <1>4, <1>5 DEF InJob
<1>7. EmergencyOnlyIfLong' BY <1>1 DEF EmergencyOnlyIfLong, LoopInv
<1>8. QED BY <1>6, <1>7 DEF LoopInv

LEMMA JobStartKeeps ==
  ASSUME TypeInv, LoopInv, JobStart
  PROVE  LoopInv'
<1>1. /\ pc = "job" /\ ~AllJobsSeen /\ wall <= program_end /\ parts' \in Parts(Exec)
      /\ job' = NewJob(Exec) /\ loop' = NewLoop /\ pc' = "loop"
      /\ UNCHANGED <<args, program_end, wall>>
  BY DEF JobStart
<1>2. Exec \in Nat BY <1>1, ExecType
<1>3. /\ wall \in Nat /\ program_end \in Nat /\ args.cs \in Nat BY JobTypes
<1>4. ArgsInv BY DEF TypeInv
<1>5. /\ OfProgram(parts')
      /\ args.program \in Spinning =>
           CostOf(parts') <= LargerOf(Exec, args.cs) + 3 * (Longest - 1)
  BY <1>1, <1>2, <1>3, <1>4, PartsAre
<1>6. /\ job'.start = wall /\ job'.exec = Exec /\ job'.cpu = 0 /\ job'.delay = 0
      /\ ~job'.emergency /\ loop'.used = 0
  BY <1>1 DEF NewJob, NewLoop
<1>7. OfProgram(parts)' BY <1>1, <1>5 DEF OfProgram
<1>8. ASSUME args.program \in Spinning PROVE Budget'
  <2> DEFINE bound == LargerOf(Exec, args.cs) + 3 * (Longest - 1)
             head == parts'[1]
  <2>1. /\ parts' \in Seq(CpuPart \cup CountPart) /\ Len(parts') <= 3
        /\ \A i \in 1..Len(parts') : parts'[i] \in CpuPart
    BY <1>5, <1>8 DEF OfProgram
  <2>2. \A part \in CpuPart : Cost(part) \in Nat
    BY LoopTime DEF Cost, CpuPart
  <2>3. CostOf(parts') \in Nat
    <3>1. \A n \in Nat : (n >= 1 => 1 \in 1..n) /\ (n >= 2 => 2 \in 1..n) /\ (n >= 3 => 3 \in 1..n)
      OBVIOUS
    <3>2. Len(parts') \in Nat BY <2>1
    <3>3. /\ Len(parts') >= 1 => Cost(parts'[1]) \in Nat
          /\ Len(parts') >= 2 => Cost(parts'[2]) \in Nat
          /\ Len(parts') >= 3 => Cost(parts'[3]) \in Nat
      BY <2>1, <2>2, <3>1, <3>2
    <3>4. QED BY <3>3 DEF CostOf
  <2>4. CostOf(parts)' = CostOf(parts') BY DEF CostOf, Cost
  <2>5. job'.cpu - loop'.used + CostOf(parts)' <= bound
    <3>1. \A n \in Nat : 0 - 0 + n = n OBVIOUS
    <3>2. 0 - 0 + CostOf(parts') <= bound BY <1>5, <1>8, <2>3, <3>1
    <3> HIDE DEF bound
    <3>3. QED BY <1>6, <2>4, <3>2
  <2>6. parts' # <<>> => 0 <= Cost(Head(parts')) /\ 0 <= MayUse(Head(parts'))
    <3>1. ASSUME parts' # <<>> PROVE Head(parts') \in CpuPart
      <4>1. Len(parts') \in Nat /\ Len(parts') # 0 BY <2>1, <3>1, EmptySeq
      <4>2. \A n \in Nat : n # 0 => 1 \in 1..n OBVIOUS
      <4>3. 1 \in 1..Len(parts') BY <4>1, <4>2
      <4>4. parts'[1] \in CpuPart BY <2>1, <4>3
      <4>5. Head(parts') = parts'[1] BY <2>1, <3>1
      <4>6. QED BY <4>4, <4>5
    <3>2. QED BY <3>1, FreshPart
  <2> HIDE DEF bound
  <2>7. /\ job'.cpu - loop'.used + CostOf(parts)' <= LargerOf(job'.exec, args'.cs) + 3 * (Longest - 1)
    BY <1>1, <1>6, <2>5 DEF bound
  <2>8. QED BY <1>6, <2>6, <2>7 DEF Budget, LargerOf, Cost, MayUse
<1>9. wall' = job'.start + job'.cpu + job'.delay /\ job'.start <= program_end'
  <2>1. \A n \in Nat : n + 0 + 0 = n OBVIOUS
  <2>2. wall = wall + 0 + 0 BY <1>3, <2>1
  <2>3. QED BY <1>1, <1>6, <2>2
<1>10. InJob' BY <1>1, <1>6, <1>7, <1>8, <1>9 DEF InJob
<1>11. EmergencyOnlyIfLong' BY <1>6 DEF EmergencyOnlyIfLong
<1>12. QED BY <1>10, <1>11 DEF LoopInv

LEMMA InitLoops == Init => LoopInv
<1> SUFFICES ASSUME Init PROVE LoopInv OBVIOUS
<1>1. pc = "args" /\ job = [start |-> 0, exec |-> 0, cpu |-> 0, delay |-> 0, emergency |-> FALSE]
  BY DEF Init
<1>2. ~job.emergency BY <1>1
<1>3. QED BY <1>1, <1>2 DEF LoopInv, EmergencyOnlyIfLong

LEMMA NextLoops == TypeInv /\ LoopInv /\ [Next]_vars => LoopInv'
<1> SUFFICES ASSUME TypeInv, LoopInv, [Next]_vars PROVE LoopInv' OBVIOUS
<1>1. ASSUME job' = job, pc' # "loop" PROVE LoopInv'
  BY <1>1 DEF LoopInv, EmergencyOnlyIfLong
<1>2. CASE Start \/ CountJobs \/ ReadJob \/ ReadEnds \/ AddTime \/ AddPeriods
  BY <1>1, <1>2
  DEF Start, StartJobs, CountJobs, ReadJob, ReadEnds, AddTime, AddPeriods
<1>3. CASE JobRefused \/ FileEnds \/ SleepNextPeriod
  BY <1>1, <1>3 DEF JobRefused, FileEnds, SleepNextPeriod
<1>4. CASE UNCHANGED vars
  BY <1>4
  DEF vars, LoopInv, EmergencyOnlyIfLong, InJob, OfProgram, Budget, CostOf, Cost, MayUse, LargerOf
<1>5. QED
  BY <1>2, <1>3, <1>4, JobStartKeeps, LoopOnceKeeps, LoopEndsKeeps DEF Next

LEMMA JobsWithinWcet ==
  ASSUME TypeInv, pc = "loop" => InJob
  PROVE  WithinWcet
<1> SUFFICES ASSUME pc = "loop", \A i \in 1..Len(parts) : parts[i].kind = "cpu"
             PROVE  /\ parts # <<>> =>
                         loop.used <= Max({Head(parts).length + (Max(LoopTimes) - Min(LoopTimes)) - 1,
                                           Max(LoopTimes)})
                    /\ args.program \in {"rtspin", "rtspin -f", "ca_thrash"} =>
                         job.cpu <= Max({job.exec, args.cs}) + 3 * (Max(LoopTimes) - 1)
  BY DEF WithinWcet
<1>1. InJob OBVIOUS
<1>2. /\ job.exec \in Nat /\ args.cs \in Nat /\ job.cpu \in Nat /\ loop.used \in Nat
  BY JobTypes
<1>3. Longest \in Nat \ {0} /\ Shortest \in Nat BY LoopTime
<1>4. ASSUME parts # <<>>
      PROVE  args.program \in Spinning /\ Head(parts) \in CpuPart
  <2>1. OfProgram(parts) BY <1>1 DEF InJob
  <2>2. Len(parts) \in Nat /\ Len(parts) # 0 BY <1>4, <2>1, EmptySeq DEF OfProgram
  <2>3. \A n \in Nat : n # 0 => 1 \in 1..n OBVIOUS
  <2>4. 1 \in 1..Len(parts) BY <2>2, <2>3
  <2>5. parts[1].kind = "cpu" BY <2>4
  <2>6. parts[1] \notin CountPart BY <2>5 DEF CountPart
  <2>7. parts[1] \in IF args.program \in Spinning THEN CpuPart ELSE CountPart
    BY <2>1, <2>4 DEF OfProgram
  <2>8. Head(parts) = parts[1] BY <1>4, <2>1 DEF OfProgram
  <2>9. QED BY <2>6, <2>7, <2>8
<1>5. ASSUME parts # <<>>
      PROVE  loop.used <= Max({Head(parts).length + (Longest - Shortest) - 1, Longest})
  <2> DEFINE n == Head(parts).length
  <2>1. n \in Int BY <1>4, <1>5 DEF CpuPart
  <2>2. loop.used <= MayUse(Head(parts)) BY <1>1, <1>4, <1>5 DEF InJob, Budget
  <2>3. loop.used <= LargerOf(n + Longest - Shortest - 1, Longest) BY <2>2 DEF MayUse
  <2> HIDE DEF n
  <2>4. /\ n + (Longest - Shortest) - 1 \in Int /\ Longest \in Int
        /\ n + Longest - Shortest - 1 = n + (Longest - Shortest) - 1
    BY <1>3, <2>1
  <2>5. Max({n + (Longest - Shortest) - 1, Longest}) = LargerOf(n + (Longest - Shortest) - 1, Longest)
    BY <2>4, MaxOfTwo DEF LargerOf
  <2>6. QED BY <2>3, <2>4, <2>5 DEF n
<1>6. ASSUME args.program \in Spinning
      PROVE  job.cpu <= Max({job.exec, args.cs}) + 3 * (Longest - 1)
  <2> DEFINE bound == LargerOf(job.exec, args.cs) + 3 * (Longest - 1)
  <2>1. job.cpu - loop.used + CostOf(parts) <= bound BY <1>1, <1>6 DEF InJob, Budget
  <2>2. Max({job.exec, args.cs}) = LargerOf(job.exec, args.cs)
    BY <1>2, MaxOfTwo DEF LargerOf
  <2>3. bound \in Int BY <1>2, <1>3 DEF LargerOf
  <2> HIDE DEF bound
  <2>4. loop.used <= CostOf(parts) /\ CostOf(parts) \in Int
    <3>1. CASE parts = <<>>
      <4>1. Len(parts) = 0 /\ loop.used = 0 BY <1>1, <1>6, <3>1 DEF InJob, Budget
      <4>2. CostOf(parts) = 0 BY <4>1 DEF CostOf
      <4>3. QED BY <4>1, <4>2
    <3>2. CASE parts # <<>>
      <4>1. OfProgram(parts) BY <1>1 DEF InJob
      <4>2. /\ CostOf(parts) = Cost(Head(parts)) + CostOf(Tail(parts))
            /\ Cost(Head(parts)) \in Nat /\ CostOf(Tail(parts)) \in Nat
        BY <3>2, <4>1, RestOfParts
      <4>3. loop.used <= Cost(Head(parts)) BY <1>1, <1>6, <3>2 DEF InJob, Budget
      <4>4. QED BY <1>2, <4>2, <4>3
    <3>3. QED BY <3>1, <3>2
  <2>5. job.cpu <= bound BY <1>2, <2>1, <2>3, <2>4
  <2>6. QED BY <2>2, <2>5 DEF bound
<1>7. QED BY <1>5, <1>6 DEF Longest, Shortest, Spinning

\* No job of a spinning program uses more of the processor than it was given, but
\* for one iteration in each of its parts, and no loop_for() more than its share;
\* and the emergency exit is taken in a job of more than a second only.
THEOREM JobsKeepToTheirTimes == Spec => []SpinInv
<1>1. TypeInv => TypeOK
  <2> SUFFICES ASSUME TypeInv PROVE TypeOK OBVIOUS
  <2>1. Fields /\ Stages BY DEF TypeInv
  <2>2. Len(ran) <= cur_job + 1 /\ (FromFile => cur_job <= num_jobs)
    BY <2>1 DEF Fields, Stages
  <2>3. /\ loop.iter \in 0..Loops \cup {1} /\ loop.last_loop \in LoopTimes \cup {0}
        /\ job.delay \in 0..MaxDelay
    BY <2>1 DEF Fields
  <2>4. monitor.flag \in BOOLEAN /\ monitor.marks \in Seq({1, 2})
    BY <2>1 DEF Fields, MonitorState
  <2>5. Len(exec_times) <= num_jobs BY <2>1 DEF Stages
  <2>6. /\ pc \in {"args", "count", "read", "sum", "job", "loop"} \cup Final
        /\ cur_job \in Nat /\ wall \in Nat /\ release \in Nat /\ program_end \in Nat
    BY <2>1 DEF Fields
  <2>7. QED BY <2>2, <2>3, <2>4, <2>5, <2>6 DEF TypeOK
<1>2. TypeInv /\ LoopInv => SpinInv BY <1>1, JobsWithinWcet DEF SpinInv, LoopInv
<1>3. QED BY <1>2, Types, InitLoops, NextLoops, PTL DEF Spec
-----------------------------------------------------------------------------
(* Every job of a file is started.                                         *)

\* The preemption of a job, and an iteration too many in each part, fit into a
\* period.
SlackSuffices == MaxDelay + 3 * (Max(LoopTimes) - 1) <= Period

\* The release of job n.
Released(n) == n * Period

LEMMA ReleasedIs ==
  /\ Released(0) = 0
  /\ \A n \in Nat : Released(n) \in Nat /\ Released(n + 1) = Released(n) + Period
  /\ \A m \in Nat, n \in Nat : m <= n => Released(m) <= Released(n)
  /\ \A n \in Nat : n >= 1 => Periods(n) = Released(n - 1)
<1>1. Period \in Nat BY Numbers
<1>2. Released(0) = 0 BY <1>1 DEF Released
<1>3. ASSUME NEW n \in Nat PROVE Released(n) \in Nat /\ Released(n + 1) = Released(n) + Period
  <2>1. Released(n) \in Nat BY <1>1, ProductType DEF Released
  <2>2. (n + 1) * Period = n * Period + Period BY <1>1, Z3
  <2>3. QED BY <2>1, <2>2 DEF Released
<1>4. ASSUME NEW m \in Nat, NEW n \in Nat, m <= n PROVE Released(m) <= Released(n)
  <2>1. PICK k \in Nat : n = m + k
    <3>1. n - m \in Nat /\ n = m + (n - m) BY <1>4
    <3>2. QED BY <3>1
  <2>2. (m + k) * Period = m * Period + k * Period BY <1>1, Z3
  <2>3. m * Period \in Nat /\ k * Period \in Nat BY <1>1, ProductType
  <2>4. QED BY <2>1, <2>2, <2>3 DEF Released
<1>5. ASSUME NEW n \in Nat, n >= 1 PROVE Periods(n) = Released(n - 1)
  <2>1. CASE n = 1
    <3>1. n - 1 = 0 BY <2>1
    <3>2. QED BY <1>2, <2>1, <3>1 DEF Periods
  <2>2. CASE n > 1
    <3>1. Period * (n - 1) = (n - 1) * Period BY <1>1, Z3
    <3>2. QED BY <2>2, <3>1 DEF Periods, Released
  <2>3. QED BY <1>5, <2>1, <2>2
<1>6. QED BY <1>2, <1>3, <1>4, <1>5

\* s[n] is the sum of the first n execution times, for n up to k.
Sums(s, k) ==
  /\ s \in [Nat -> Nat] /\ s[0] = 0
  /\ \A i \in Nat : i < k => s[i + 1] = s[i] + exec_times[i + 1]
  /\ \A i \in Nat, j \in Nat : i <= j /\ j <= k => s[i] <= s[j]

\* Neither -s nor a critical section makes a job longer.
Plain == args.scale = 1 /\ \A i \in 1..Len(exec_times) : args.cs <= exec_times[i]

\* A job starts no later than if all jobs before it had taken a period more than
\* their time, and all that were passed were started.
OnTime(s) ==
  /\ pc = "job" => wall <= s[cur_job] + Released(cur_job) /\ Len(ran) = cur_job
  /\ pc = "loop" => /\ job.start <= s[cur_job] + Released(cur_job)
                    /\ job.exec = exec_times[cur_job + 1] /\ Len(ran) = cur_job + 1
  /\ release = Released(cur_job)
  /\ \A i \in 1..Len(ran) : ran[i] = exec_times[i]
  /\ pc = "done" => Len(ran) = Len(exec_times)

Timely(s) ==
  /\ Sums(s, num_jobs) /\ program_end = s[num_jobs] + Periods(num_jobs)
  /\ Plain => OnTime(s)

RunInv ==
  FromFile =>
    /\ pc = "sum" => \E s : Sums(s, cur_job) /\ program_end = s[cur_job]
    /\ pc \in {"job", "loop", "done"} => \E s : Timely(s)

\* A step after the times are added up: the sums stay.
LEMMA Continues ==
  ASSUME RunInv, UNCHANGED <<args, reading, program_end>>,
         pc \in {"job", "loop", "done"}, pc' \in {"job", "loop", "done"},
         FromFile, \A s : Timely(s) /\ Plain => OnTime(s)'
  PROVE  RunInv'
<1>1. PICK s : Timely(s) BY DEF RunInv
<1>2. Plain' = Plain BY DEF Plain, reading
<1>3. Sums(s, num_jobs)' BY <1>1 DEF Timely, Sums, reading
<1>4. (program_end = s[num_jobs] + Periods(num_jobs))'
  BY <1>1 DEF Timely, reading, Periods
<1>5. (Plain => OnTime(s))' BY <1>1, <1>2
<1>6. Timely(s)' BY <1>3, <1>4, <1>5 DEF Timely
<1>7. QED BY <1>6 DEF RunInv

LEMMA BeforeRuns ==
  ASSUME pc' \notin {"sum", "job", "loop", "done"} \/ (args' = args /\ ~FromFile)
  PROVE  RunInv'
<1>1. CASE pc' \notin {"sum", "job", "loop", "done"} BY <1>1 DEF RunInv
<1>2. CASE args' = args /\ ~FromFile BY <1>2 DEF RunInv, FromFile
<1>3. QED BY <1>1, <1>2

LEMMA ReadEndsRuns ==
  ASSUME TypeInv, ReadEnds
  PROVE  RunInv'
<1>1. pc' \in {"sum", "aborted"} /\ cur_job' = 0 /\ program_end' = 0
  BY DEF ReadEnds, TypeInv, Stages
<1>2. CASE pc' = "aborted" BY <1>2, BeforeRuns
<1>3. CASE pc' = "sum"
  <2> DEFINE s == [n \in Nat |-> 0]
  <2>1. s \in [Nat -> Nat] /\ \A n \in Nat : s[n] = 0 OBVIOUS
  <2> HIDE DEF s
  <2>2. \A i \in Nat : ~(i < 0) OBVIOUS
  <2>3. Sums(s, 0)' BY <2>1, <2>2 DEF Sums
  <2>4. Sums(s, cur_job)' BY <1>1, <2>3 DEF Sums
  <2>5. program_end' = s[cur_job'] BY <1>1, <2>1
  <2>6. \E f : Sums(f, cur_job)' /\ program_end' = f[cur_job'] BY <2>4, <2>5
  <2>7. QED BY <1>3, <2>6 DEF RunInv
<1>4. QED BY <1>1, <1>2, <1>3

LEMMA AddTimeRuns ==
  ASSUME TypeInv, RunInv, AddTime
  PROVE  RunInv'
<1>1. /\ pc = "sum" /\ pc' = "sum" /\ cur_job < num_jobs /\ args' = args
      /\ program_end' = program_end + exec_times[cur_job + 1] /\ cur_job' = cur_job + 1
      /\ exec_times' = exec_times
  BY DEF AddTime, reading
<1>2. FromFile /\ Len(exec_times) = num_jobs BY <1>1 DEF TypeInv, Stages
<1>3. /\ cur_job \in Nat /\ num_jobs \in Nat /\ exec_times \in Seq(Nat) BY DEF TypeInv, Fields
<1>4. PICK s : Sums(s, cur_job) /\ program_end = s[cur_job] BY <1>1, <1>2 DEF RunInv
<1> DEFINE time == exec_times[cur_job + 1]
<1>5. time \in Nat
  <2>1. cur_job + 1 \in 1..Len(exec_times) BY <1>1, <1>2, <1>3
  <2>2. QED BY <1>3, <2>1
<1> HIDE DEF time
<1>6. /\ s \in [Nat -> Nat] /\ s[0] = 0 /\ s[cur_job] \in Nat
      /\ \A i \in Nat : i < cur_job => s[i + 1] = s[i] + exec_times[i + 1]
      /\ \A i \in Nat, j \in Nat : i <= j /\ j <= cur_job => s[i] <= s[j]
  BY <1>3, <1>4 DEF Sums
<1>7. PICK f \in [Nat -> Nat] : /\ f[cur_job + 1] = s[cur_job] + time
                              /\ \A i \in Nat : i # cur_job + 1 => f[i] = s[i]
  <2> DEFINE g == [s EXCEPT ![cur_job + 1] = s[cur_job] + time]
  <2>1. /\ g \in [Nat -> Nat] /\ g[cur_job + 1] = s[cur_job] + time
        /\ \A i \in Nat : i # cur_job + 1 => g[i] = s[i]
    BY <1>3, <1>5, <1>6
  <2> HIDE DEF g
  <2>2. QED BY <2>1
<1>8. f[0] = 0 /\ f[cur_job] = s[cur_job] BY <1>3, <1>6, <1>7
<1>9. ASSUME NEW i \in Nat, i < cur_job + 1 PROVE f[i + 1] = f[i] + exec_times[i + 1]
  <2>1. CASE i = cur_job BY <1>7, <1>8, <2>1 DEF time
  <2>2. CASE i # cur_job
    <3>1. i < cur_job /\ i # cur_job + 1 /\ i + 1 # cur_job + 1 /\ i + 1 \in Nat
      BY <1>3, <1>9, <2>2
    <3>2. QED BY <1>6, <1>7, <3>1
  <2>3. QED BY <2>1, <2>2
<1>10. ASSUME NEW i \in Nat, NEW j \in Nat, i <= j, j <= cur_job + 1 PROVE f[i] <= f[j]
  <2>1. CASE j <= cur_job
    <3>1. i # cur_job + 1 /\ j # cur_job + 1 BY <1>3, <1>10, <2>1
    <3>2. QED BY <1>6, <1>7, <1>10, <2>1, <3>1
  <2>2. CASE j = cur_job + 1 /\ i <= cur_job
    <3>1. i # cur_job + 1 /\ s[i] <= s[cur_job] /\ s[i] \in Nat
      <4>1. cur_job <= cur_job /\ i # cur_job + 1 BY <1>3, <2>2
      <4>2. QED BY <1>3, <1>6, <2>2, <4>1
    <3>2. f[i] = s[i] BY <1>7, <3>1
    <3>3. QED BY <1>5, <1>6, <1>7, <2>2, <3>1, <3>2
  <2>3. CASE i = j
    <3>1. f[i] \in Nat BY <1>7
    <3>2. QED BY <2>3, <3>1
  <2>4. QED BY <1>3, <1>10, <2>1, <2>2, <2>3
<1>11. Sums(f, cur_job)'
  <2>1. \A i \in Nat : i < cur_job' => f[i + 1] = f[i] + exec_times'[i + 1] BY <1>1, <1>9
  <2>2. \A i \in Nat, j \in Nat : i <= j /\ j <= cur_job' => f[i] <= f[j] BY <1>1, <1>10
  <2>3. QED BY <1>8, <2>1, <2>2 DEF Sums
<1>12. program_end' = f[cur_job'] BY <1>1, <1>4, <1>7 DEF time
<1>13. \E g : Sums(g, cur_job)' /\ program_end' = g[cur_job'] BY <1>11, <1>12
<1>14. QED BY <1>1, <1>13 DEF RunInv

LEMMA AddPeriodsRuns ==
  ASSUME TypeInv, RunInv, AddPeriods
  PROVE  RunInv'
<1>1. /\ pc = "sum" /\ pc' = "job" /\ cur_job >= num_jobs /\ cur_job' = 0
      /\ program_end' = program_end + Periods(num_jobs)
      /\ UNCHANGED <<args, num_jobs, exec_times, ran, wall, release>>
  BY DEF AddPeriods, StartJobs, reading
<1>2. FromFile /\ cur_job <= num_jobs /\ ran = <<>> /\ wall = 0 /\ release = 0
  BY <1>1 DEF TypeInv, Fields, Stages
<1>3. cur_job \in Nat /\ num_jobs \in Nat BY DEF TypeInv, Fields
<1>4. cur_job = num_jobs BY <1>1, <1>2, <1>3
<1>5. PICK s : Sums(s, num_jobs) /\ program_end = s[num_jobs] BY <1>1, <1>2, <1>4 DEF RunInv
<1>6. Sums(s, num_jobs)' BY <1>1, <1>5 DEF Sums
<1>7. (program_end = s[num_jobs] + Periods(num_jobs))' BY <1>1, <1>5 DEF Periods
<1>8. OnTime(s)'
  <2>1. Len(ran') = 0 BY <1>1, <1>2
  <2>2. Released(0) = 0 /\ s[0] = 0 BY <1>5, ReleasedIs DEF Sums
  <2>3. \A i \in 1..0 : FALSE OBVIOUS
  <2>4. /\ wall' <= s[0] + Released(0) /\ release' = Released(0) BY <1>1, <1>2, <2>2
  <2>5. QED BY <1>1, <2>1, <2>3, <2>4 DEF OnTime, Released
<1>9. Timely(s)' BY <1>6, <1>7, <1>8 DEF Timely
<1>10. QED BY <1>1, <1>9 DEF RunInv
LEMMA JobStartRuns ==
  ASSUME TypeInv, RunInv, JobStart
  PROVE  RunInv'
<1>1. /\ pc = "job" /\ ~AllJobsSeen /\ pc' = "loop" /\ job' = NewJob(Exec)
      /\ UNCHANGED <<args, reading, program_end, cur_job, wall, release>>
      /\ FromFile => ran' = Append(ran, Exec)
  BY DEF JobStart
<1>2. CASE ~FromFile BY <1>1, <1>2, BeforeRuns
<1>3. CASE FromFile
  <2>1. cur_job + 1 \in 1..Len(exec_times) /\ Exec \in Nat BY <1>1, <1>3, ExecType
  <2>2. cur_job \in Nat /\ ran \in Seq(Nat) /\ exec_times \in Seq(Nat) BY DEF TypeInv, Fields
  <2>3. ASSUME NEW s, Timely(s), Plain PROVE OnTime(s)'
    <3>1. OnTime(s) BY <2>3 DEF Timely
    <3>2. Exec = exec_times[cur_job + 1]
      <4>1. exec_times[cur_job + 1] \in Nat BY <2>1, <2>2
      <4>2. Exec = exec_times[cur_job + 1] * 1 BY <1>3, <2>3 DEF Exec, Plain
      <4>3. \A n \in Nat : n * 1 = n OBVIOUS
      <4>4. QED BY <4>1, <4>2, <4>3
    <3>3. /\ wall <= s[cur_job] + Released(cur_job) /\ Len(ran) = cur_job
          /\ release = Released(cur_job) /\ \A i \in 1..Len(ran) : ran[i] = exec_times[i]
      BY <1>1, <3>1 DEF OnTime
    <3>4. job'.start = wall /\ job'.exec = Exec BY <1>1 DEF NewJob
    <3>5. ran' = Append(ran, Exec) BY <1>1, <1>3
    <3>6. /\ Len(ran') = cur_job + 1 /\ ran'[cur_job + 1] = Exec
          /\ \A i \in 1..cur_job : ran'[i] = ran[i]
      BY <2>1, <2>2, <3>3, <3>5
    <3>7. ASSUME NEW i \in 1..Len(ran') PROVE ran'[i] = exec_times[i]
      <4>1. CASE i = cur_job + 1 BY <3>2, <3>6, <4>1
      <4>2. CASE i # cur_job + 1
        <5>1. i \in 1..cur_job BY <2>2, <3>6, <4>2
        <5>2. QED BY <3>3, <3>6, <5>1
      <4>3. QED BY <4>1, <4>2
    <3>8. cur_job' = cur_job /\ exec_times' = exec_times /\ release' = release /\ pc' = "loop"
      BY <1>1 DEF reading
    <3>9. (release = Released(cur_job))' BY <3>3, <3>8 DEF Released
    <3>10. job'.start <= s[cur_job'] + Released(cur_job)'
      BY <3>3, <3>4, <3>8 DEF Released
    <3>11. /\ job'.exec = exec_times'[cur_job' + 1] /\ Len(ran') = cur_job' + 1
           /\ \A i \in 1..Len(ran') : ran'[i] = exec_times'[i]
      BY <3>2, <3>4, <3>6, <3>7, <3>8
    <3>12. QED BY <3>8, <3>9, <3>10, <3>11 DEF OnTime
  <2>4. QED BY <1>1, <1>3, <2>3, Continues
<1>4. QED BY <1>2, <1>3

\* No job is refused when none before it was too long.
LEMMA JobRefusedRuns ==
  ASSUME TypeInv, RunInv, JobRefused
  PROVE  RunInv'
<1>1. /\ pc = "job" /\ ~AllJobsSeen /\ wall > program_end
      /\ UNCHANGED <<args, reading, program_end>>
      /\ FromFile => pc' = "job"
  BY DEF JobRefused
<1>2. CASE ~FromFile BY <1>1, <1>2, BeforeRuns
<1>3. CASE FromFile
  <2>1. /\ cur_job \in Nat /\ num_jobs \in Nat /\ wall \in Nat /\ program_end \in Nat
        /\ Len(exec_times) = num_jobs
    BY <1>1, <1>3 DEF TypeInv, Fields, Stages
  <2>2. cur_job + 1 \in 1..num_jobs BY <1>1, <1>3, <2>1, ExecType
  <2>3. ASSUME NEW s, Timely(s), Plain PROVE FALSE
    <3>1. wall <= s[cur_job] + Released(cur_job) BY <1>1, <2>3 DEF Timely, OnTime
    <3>2. /\ s \in [Nat -> Nat] /\ program_end = s[num_jobs] + Periods(num_jobs)
          /\ \A i \in Nat, j \in Nat : i <= j /\ j <= num_jobs => s[i] <= s[j]
      BY <2>3 DEF Timely, Sums
    <3>3. num_jobs >= 1 /\ num_jobs - 1 \in Nat /\ cur_job <= num_jobs - 1 /\ cur_job <= num_jobs
      BY <2>1, <2>2
    <3>4. Periods(num_jobs) = Released(num_jobs - 1) BY <2>1, <3>3, ReleasedIs
    <3>5. /\ Released(cur_job) <= Released(num_jobs - 1)
          /\ Released(cur_job) \in Nat /\ Released(num_jobs - 1) \in Nat
      BY <2>1, <3>3, ReleasedIs
    <3>6. num_jobs <= num_jobs BY <2>1
    <3>7. s[cur_job] <= s[num_jobs] /\ s[cur_job] \in Nat /\ s[num_jobs] \in Nat
      BY <2>1, <3>2, <3>3, <3>6
    <3>8. QED BY <1>1, <2>1, <3>1, <3>2, <3>4, <3>5, <3>7
  <2>4. QED BY <1>1, <1>3, <2>3, Continues
<1>4. QED BY <1>2, <1>3

LEMMA FileEndsRuns ==
  ASSUME TypeInv, RunInv, FileEnds
  PROVE  RunInv'
<1>1. /\ pc = "job" /\ FromFile /\ cur_job = Len(exec_times) /\ pc' = "done"
      /\ UNCHANGED <<args, reading, program_end, cur_job, ran, release>>
  BY DEF FileEnds, AllJobsSeen
<1>2. ASSUME NEW s, Timely(s), Plain PROVE OnTime(s)'
  <2>1. OnTime(s) BY <1>2 DEF Timely
  <2>2. QED BY <1>1, <2>1 DEF OnTime, reading, Released
<1>3. QED BY <1>1, <1>2, Continues

LEMMA LoopRuns ==
  ASSUME TypeInv, RunInv, pc = "loop", pc' = "loop", job'.start = job.start, job'.exec = job.exec,
         UNCHANGED <<args, reading, program_end, cur_job, ran, release>>
  PROVE  RunInv'
<1>1. CASE ~FromFile BY <1>1, BeforeRuns
<1>2. CASE FromFile
  <2>1. ASSUME NEW s, Timely(s), Plain PROVE OnTime(s)'
    <3>1. OnTime(s) BY <2>1 DEF Timely
    <3>2. QED BY <3>1 DEF OnTime, reading, Released
  <2>2. QED BY <1>2, <2>1, Continues
<1>3. QED BY <1>1, <1>2

\* When a job ends, the next one is released a period later at the latest.
LEMMA SleepRuns ==
  ASSUME SlackSuffices, TypeInv, LoopInv, RunInv, SleepNextPeriod
  PROVE  RunInv'
<1>1. /\ pc = "loop" /\ parts = <<>> /\ pc' = "job" /\ release' = release + Period
      /\ wall' = Max({wall, release + Period}) /\ cur_job' = cur_job + 1
      /\ UNCHANGED <<args, reading, program_end, ran>>
  BY DEF SleepNextPeriod
<1>2. CASE ~FromFile BY <1>1, <1>2, BeforeRuns
<1>3. CASE FromFile
  <2>1. ASSUME NEW s, Timely(s), Plain PROVE OnTime(s)'
    <3>1. /\ OnTime(s) /\ s \in [Nat -> Nat]
          /\ \A i \in Nat : i < num_jobs => s[i + 1] = s[i] + exec_times[i + 1]
      BY <2>1 DEF Timely, Sums
    <3>2. /\ job.start <= s[cur_job] + Released(cur_job) /\ job.exec = exec_times[cur_job + 1]
          /\ Len(ran) = cur_job + 1 /\ release = Released(cur_job)
          /\ \A i \in 1..Len(ran) : ran[i] = exec_times[i]
      BY <1>1, <3>1 DEF OnTime
    <3>3. /\ cur_job \in Nat /\ num_jobs \in Nat /\ cur_job < num_jobs
          /\ Len(exec_times) = num_jobs
      BY <1>1, <1>3 DEF TypeInv, Fields, Stages
    <3>4. args.cs <= job.exec
      <4>1. cur_job + 1 \in 1..Len(exec_times) BY <3>3
      <4>2. QED BY <2>1, <3>2, <4>1 DEF Plain
    <3>5. /\ wall \in Nat /\ job.start \in Nat /\ job.exec \in Nat /\ job.cpu \in Nat
          /\ job.delay \in Nat /\ job.delay <= MaxDelay /\ args.cs \in Nat /\ MaxDelay \in Nat
          /\ Period \in Nat /\ Longest \in Nat \ {0}
      <4>1. job.delay \in 0..MaxDelay BY DEF TypeInv, Fields
      <4>2. QED BY <4>1, JobTypes, Numbers, LoopTime
    <3>6. job.cpu <= job.exec + 3 * (Longest - 1)
      <4>1. WithinWcet BY JobsWithinWcet DEF LoopInv
      <4>2. \A i \in 1..Len(parts) : FALSE
        <5>1. Len(parts) = 0 BY <1>1
        <5>2. \A i \in 1..0 : FALSE OBVIOUS
        <5>3. QED BY <5>1, <5>2
      <4>3. job.cpu <= Max({job.exec, args.cs}) + 3 * (Longest - 1)
        BY <1>1, <1>3, <4>1, <4>2 DEF WithinWcet, FromFile, Monitored, Longest
      <4>4. Max({job.exec, args.cs}) = job.exec BY <3>4, <3>5, MaxOfTwo
      <4>5. QED BY <4>3, <4>4
    <3>7. wall <= job.start + job.exec + Period
      <4>1. wall = job.start + job.cpu + job.delay BY <1>1 DEF LoopInv, InJob
      <4>2. MaxDelay + 3 * (Longest - 1) <= Period BY DEF SlackSuffices, Longest
      <4>3. ASSUME NEW start \in Nat, NEW exec \in Nat, NEW cpu \in Nat, NEW delay \in Nat,
                   NEW most \in Nat, NEW slack \in Nat, NEW period \in Nat,
                   cpu <= exec + slack, delay <= most, most + slack <= period
            PROVE  start + cpu + delay <= start + exec + period
        BY <4>3
      <4>4. 3 * (Longest - 1) \in Nat BY <3>5
      <4>5. QED BY <3>5, <3>6, <4>1, <4>2, <4>3, <4>4
    <3>8. /\ s[cur_job + 1] = s[cur_job] + job.exec /\ s[cur_job] \in Nat
      BY <3>1, <3>2, <3>3
    <3>9. Released(cur_job) \in Nat /\ Released(cur_job + 1) = Released(cur_job) + Period
      BY <3>3, ReleasedIs
    <3>10. wall <= s[cur_job + 1] + Released(cur_job + 1)
      <4>1. ASSUME NEW start \in Nat, NEW exec \in Nat, NEW period \in Nat, NEW sum \in Nat,
                   NEW rel \in Nat, NEW now \in Nat, start <= sum + rel,
                   now <= start + exec + period
            PROVE  now <= (sum + exec) + (rel + period)
        BY <4>1
      <4>2. QED BY <3>2, <3>5, <3>7, <3>8, <3>9, <4>1
    <3>11. release + Period <= s[cur_job + 1] + Released(cur_job + 1)
      BY <3>2, <3>5, <3>8, <3>9
    <3>12. wall' \in {wall, release + Period}
      <4>1. wall \in Int /\ release + Period \in Int BY <3>2, <3>5, <3>9
      <4>2. QED BY <1>1, <4>1, MaxOfTwo
    <3>13. wall' <= s[cur_job'] + Released(cur_job)'
      BY <1>1, <3>10, <3>11, <3>12 DEF Released
    <3>14. (release = Released(cur_job))' BY <1>1, <3>2, <3>9 DEF Released
    <3>15. Len(ran') = cur_job' /\ \A i \in 1..Len(ran') : ran'[i] = exec_times'[i]
      BY <1>1, <3>2 DEF reading
    <3>16. QED BY <1>1, <3>13, <3>14, <3>15 DEF OnTime
  <2>2. QED BY <1>1, <1>3, <2>1, Continues
<1>4. QED BY <1>2, <1>3

LEMMA NextRuns ==
  SlackSuffices /\ TypeInv /\ LoopInv /\ RunInv /\ [Next]_vars => RunInv'
<1> SUFFICES ASSUME SlackSuffices, TypeInv, LoopInv, RunInv, [Next]_vars PROVE RunInv' OBVIOUS
<1>1. CASE Start
  <2>1. pc' = "count" \/ (args' = args /\ ~FromFile) BY <1>1 DEF Start, StartJobs
  <2>2. QED BY <2>1, BeforeRuns
<1>2. CASE CountJobs
  <2>1. pc' \in {"read", "count"} BY <1>2 DEF CountJobs
  <2>2. QED BY <2>1, BeforeRuns
<1>3. CASE ReadJob
  <2>1. pc' \in {"read", "invalid"} BY <1>3 DEF ReadJob
  <2>2. QED BY <2>1, BeforeRuns
<1>4. CASE LoopOnce
  <2>1. pc = "loop" /\ pc' = "loop" /\ UNCHANGED <<args, reading, program_end, cur_job, ran, release>>
    BY <1>4 DEF LoopOnce
  <2>2. job'.start = job.start /\ job'.exec = job.exec BY <1>4, OneLoop
  <2>3. QED BY <2>1, <2>2, LoopRuns
<1>5. CASE LoopEnds BY <1>5, LoopRuns DEF LoopEnds
<1>6. CASE UNCHANGED vars
  BY <1>6
  DEF vars, reading, RunInv, Timely, Plain, OnTime, Sums, FromFile, Released, Periods
<1>7. QED
  BY <1>1, <1>2, <1>3, <1>4, <1>5, <1>6, ReadEndsRuns, AddTimeRuns, AddPeriodsRuns, JobStartRuns,
     JobRefusedRuns, FileEndsRuns, SleepRuns
  DEF Next

\* A program that reads its jobs from a file runs all of them, in order, however
\* long they are kept waiting in each period, provided that what a job may be
\* preempted and what its loops run on fit into a period.
THEOREM FileIsExecuted ==
  ASSUME MaxDelay + 3 * (Max(LoopTimes) - 1) <= Period
  PROVE  Spec => []AllJobsRun
<1>1. SlackSuffices BY DEF SlackSuffices
<1>2. Init => RunInv BY DEF Init, RunInv
<1>3. TypeInv /\ RunInv => AllJobsRun
  <2> SUFFICES ASSUME TypeInv, RunInv, FromFile, pc = "done", args.scale = 1,
                      \A i \in 1..Len(exec_times) : args.cs <= exec_times[i]
               PROVE  ran = exec_times
    BY DEF AllJobsRun
  <2>1. PICK s : Timely(s) BY DEF RunInv
  <2>2. /\ Len(ran) = Len(exec_times) /\ \A i \in 1..Len(ran) : ran[i] = exec_times[i]
    BY <2>1 DEF Timely, OnTime, Plain
  <2>3. ran \in Seq(Nat) /\ exec_times \in Seq(Nat) BY DEF TypeInv, Fields
  <2>4. QED BY <2>2, <2>3, SeqEqual
<1>4. QED BY <1>1, <1>2, <1>3, Types, InitLoops, NextLoops, NextRuns, PTL DEF Spec
-----------------------------------------------------------------------------
(* Searching a text.                                                       *)

\* A set with 0 and the successor of each of its numbers below n reaches to n.
LEMMA Ascend ==
  ASSUME NEW n \in Nat, NEW S, 0 \in S, \A i \in 0..n - 1 : i \in S => i + 1 \in S
  PROVE  0..n \subseteq S
<1> DEFINE Rest == 0..n \ S
<1>1. SUFFICES ASSUME Rest # {} PROVE FALSE OBVIOUS
<1>2. Rest \in SUBSET Nat OBVIOUS
<1> DEFINE m == Min(Rest)
<1>3. m \in Rest /\ \A x \in Rest : m <= x
  <2> HIDE DEF Rest
  <2>1. QED BY <1>1, <1>2, MinIs
<1> HIDE DEF m
<1>4. m \in 0..n /\ m \notin S /\ m # 0 BY <1>3
<1>5. m - 1 \in 0..n - 1 /\ m - 1 \notin Rest
  <2>1. m - 1 \in 0..n - 1 BY <1>4
  <2>2. ~(m <= m - 1) BY <1>4
  <2> HIDE DEF Rest
  <2>3. QED BY <1>3, <2>1, <2>2
<1>6. m - 1 \in S BY <1>5
<1>7. m - 1 + 1 = m BY <1>4
<1>8. QED BY <1>4, <1>5, <1>6, <1>7

\* From each place in C one goes on to a later one.
Onward(n, C, next) ==
  C \in SUBSET (1..n) /\ next \in [C -> Nat] /\ \A q \in C : q < next[q] /\ next[q] <= n + 1
Skips(n, C, next) ==
  \E s \in [1..n + 1 -> 1..n + 1] : \A q \in 1..n + 1 : s[q] = IF q \in C THEN s[next[q]] ELSE q

\* There is a function that goes on from each place in C to the next one.
LEMMA SkipExists ==
  ASSUME NEW n \in Nat, NEW C, NEW next, Onward(n, C, next)
  PROVE  Skips(n, C, next)
<1> DEFINE Inner(m) == \E s \in [m..n + 1 -> 1..n + 1] :
                         \A q \in m..n + 1 : s[q] = IF q \in C THEN s[next[q]] ELSE q
           S == {d \in 0..n : Inner(n + 1 - d)}
<1>1. /\ C \in SUBSET (1..n) /\ next \in [C -> Nat]
      /\ \A q \in C : next[q] \in Nat /\ q < next[q] /\ next[q] <= n + 1
  BY DEF Onward
<1>2. 0 \in S
  <2> DEFINE s == [q \in n + 1..n + 1 |-> n + 1]
  <2>1. s \in [n + 1..n + 1 -> 1..n + 1] OBVIOUS
  <2>2. \A q \in n + 1..n + 1 : q = n + 1 /\ q \notin C /\ s[q] = n + 1 BY <1>1
  <2> HIDE DEF s
  <2>3. Inner(n + 1) BY <2>1, <2>2
  <2>4. n + 1 - 0 = n + 1 /\ 0 \in 0..n OBVIOUS
  <2> HIDE DEF Inner
  <2>5. QED BY <2>3, <2>4
<1>3. ASSUME NEW d \in 0..n - 1, d \in S PROVE d + 1 \in S
  <2> DEFINE m == n - d
  <2>1. m \in 1..n /\ n + 1 - d = m + 1 /\ n + 1 - (d + 1) = m /\ d + 1 \in 0..n OBVIOUS
  <2> HIDE DEF m
  <2>2. PICK s \in [m + 1..n + 1 -> 1..n + 1] :
          \A q \in m + 1..n + 1 : s[q] = IF q \in C THEN s[next[q]] ELSE q
    BY <1>3, <2>1
  <2> DEFINE t == [q \in m..n + 1 |-> IF q # m THEN s[q]
                                      ELSE IF m \in C THEN s[next[m]] ELSE m]
  <2>3. \A q \in m..n + 1 : q # m => q \in m + 1..n + 1 BY <2>1
  <2>4. \A q \in C :
          q \in m..n + 1 => next[q] \in m + 1..n + 1 /\ next[q] \in m..n + 1 /\ next[q] # m
    BY <1>1, <2>1
  <2>5. m \in m..n + 1 /\ m \in 1..n + 1 BY <2>1
  <2>6. t \in [m..n + 1 -> 1..n + 1] BY <2>2, <2>3, <2>4, <2>5
  <2>7. \A q \in m..n + 1 : t[q] = IF q \in C THEN t[next[q]] ELSE q
    BY <2>2, <2>3, <2>4, <2>5
  <2> HIDE DEF t
  <2>8. Inner(m) BY <2>6, <2>7
  <2> HIDE DEF Inner
  <2>9. QED BY <2>1, <2>8
<1>4. n \in S
  <2> HIDE DEF S
  <2>1. 0..n \subseteq S BY <1>2, <1>3, Ascend
  <2>2. QED BY <2>1
<1>5. n + 1 - n = 1 OBVIOUS
<1> HIDE DEF Inner
<1>6. Inner(1) BY <1>4, <1>5
<1>7. QED BY <1>6 DEF Inner, Skips

\* The first position from p on that is in P.
LEMMA FirstIs ==
  ASSUME NEW n \in Nat, NEW p \in Nat \ {0}, NEW P,
         NEW e \in p..n + 1, e <= n => e \in P, \A i \in p..e - 1 : i \notin P
  PROVE  Min({i \in p..n : i \in P} \cup {n + 1}) = e
<1> DEFINE T == {i \in p..n : i \in P} \cup {n + 1}
<1>1. T \in SUBSET Nat /\ n + 1 \in T OBVIOUS
<1>2. e \in T /\ \A i \in T : e <= i OBVIOUS
<1> HIDE DEF T
<1>3. Min(T) \in T /\ \A i \in T : Min(T) <= i BY <1>1, MinIs
<1>4. Min(T) \in Nat /\ Min(T) <= e /\ e <= Min(T) BY <1>1, <1>2, <1>3
<1>5. QED BY <1>4 DEF T

\* What a search finds: the first token of its kind.
LEMMA FindIs ==
  ASSUME NEW f \in Seq(STRING), NEW p \in Nat \ {0}, NEW S,
         NEW e \in p..Len(f) + 1, e <= Len(f) => f[e] \in S, \A i \in p..e - 1 : f[i] \notin S
  PROVE  Find(f, p, S) = e
<1> DEFINE P == {i \in 1..Len(f) : f[i] \in S}
<1>1. Len(f) \in Nat OBVIOUS
<1>2. {i \in p..Len(f) : f[i] \in S} = {i \in p..Len(f) : i \in P} OBVIOUS
<1>3. (e <= Len(f) => e \in P) /\ \A i \in p..e - 1 : i \notin P OBVIOUS
<1> HIDE DEF P
<1>4. Min({i \in p..Len(f) : i \in P} \cup {Len(f) + 1}) = e BY <1>1, <1>3, FirstIs
<1>5. QED BY <1>2, <1>4 DEF Find

LEMMA FindNotIs ==
  ASSUME NEW f \in Seq(STRING), NEW p \in Nat \ {0}, NEW S,
         NEW e \in p..Len(f) + 1, e <= Len(f) => f[e] \notin S, \A i \in p..e - 1 : f[i] \in S
  PROVE  FindNot(f, p, S) = e
<1> DEFINE P == {i \in 1..Len(f) : f[i] \notin S}
<1>1. Len(f) \in Nat OBVIOUS
<1>2. {i \in p..Len(f) : f[i] \notin S} = {i \in p..Len(f) : i \in P} OBVIOUS
<1>3. (e <= Len(f) => e \in P) /\ \A i \in p..e - 1 : i \notin P OBVIOUS
<1> HIDE DEF P
<1>4. Min({i \in p..Len(f) : i \in P} \cup {Len(f) + 1}) = e BY <1>1, <1>3, FirstIs
<1>5. QED BY <1>2, <1>4 DEF FindNot

\* Wherever a search starts, it ends in the text or behind it.
LEMMA FindRange ==
  ASSUME NEW f \in Seq(STRING), NEW p \in Nat \ {0}, NEW S
  PROVE  /\ Find(f, p, S) \in 1..Len(f) + 1 /\ FindNot(f, p, S) \in 1..Len(f) + 1
         /\ p <= Len(f) + 1 => p <= Find(f, p, S) /\ p <= FindNot(f, p, S)
         /\ \A i \in p..Len(f) : f[i] \in S => Find(f, p, S) <= i
<1> DEFINE T == {i \in p..Len(f) : f[i] \in S} \cup {Len(f) + 1}
           N == {i \in p..Len(f) : f[i] \notin S} \cup {Len(f) + 1}
<1>1. T \in SUBSET Nat /\ T # {} /\ N \in SUBSET Nat /\ N # {} OBVIOUS
<1>2. \A i \in T \cup N : i \in 1..Len(f) + 1 /\ (p <= Len(f) + 1 => p <= i) OBVIOUS
<1>3. Find(f, p, S) = Min(T) /\ FindNot(f, p, S) = Min(N) BY DEF Find, FindNot
<1>4. \A i \in p..Len(f) : f[i] \in S => i \in T OBVIOUS
<1> HIDE DEF T, N
<1>5. Min(T) \in T /\ Min(N) \in N /\ \A i \in T : Min(T) <= i BY <1>1, MinIs
<1>6. Min(T) \in T \cup N /\ Min(N) \in T \cup N BY <1>5
<1>7. QED BY <1>2, <1>3, <1>4, <1>5, <1>6

LEMMA SkipLineRange ==
  ASSUME NEW f \in Seq(STRING), NEW p \in 1..Len(f) + 1
  PROVE  /\ SkipToNextLine(f, p).pos \in p..Len(f) + 1
         /\ Len(f) > 0 /\ p <= Len(f) /\ f[Len(f)] = "nl" => ~SkipToNextLine(f, p).eof
<1>1. Len(f) \in Nat OBVIOUS
<1>2. /\ Find(f, p, {"nl"}) \in p..Len(f) + 1
      /\ \A i \in p..Len(f) : f[i] \in {"nl"} => Find(f, p, {"nl"}) <= i
  BY <1>1, FindRange
<1> DEFINE nl == Find(f, p, {"nl"})
<1>3. /\ SkipToNextLine(f, p).pos = IF nl > Len(f) THEN nl ELSE nl + 1
      /\ SkipToNextLine(f, p).eof <=> nl > Len(f)
  BY DEF SkipToNextLine
<1>4. Len(f) > 0 /\ p <= Len(f) /\ f[Len(f)] = "nl" => nl <= Len(f) BY <1>1, <1>2
<1> HIDE DEF nl
<1>5. QED BY <1>1, <1>2, <1>3, <1>4 DEF nl

\* SkipComments() satisfies its recursion.
LEMMA SkipCommentsIs ==
  ASSUME NEW f \in Seq(STRING), NEW p \in 1..Len(f) + 1
  PROVE  SkipComments(f, p) =
           IF p <= Len(f) /\ f[p] = "#" THEN SkipComments(f, SkipToNextLine(f, p + 1).pos) ELSE p
<1> DEFINE C == {q \in 1..Len(f) : f[q] = "#"}
           next == [q \in C |-> SkipToNextLine(f, q + 1).pos]
           skip == CHOOSE s : s = [q \in 1..Len(f) + 1 |->
                     IF q <= Len(f) /\ f[q] = "#" THEN s[SkipToNextLine(f, q + 1).pos] ELSE q]
<1>1. Len(f) \in Nat OBVIOUS
<1>2. \A q \in 1..Len(f) + 1 : SkipComments(f, q) = skip[q] BY DEF SkipComments
<1>3. \A q \in C : SkipToNextLine(f, q + 1).pos \in q + 1..Len(f) + 1
  BY <1>1, SkipLineRange
<1>4. next \in [C -> Nat] /\ \A q \in C : q < next[q] /\ next[q] <= Len(f) + 1 BY <1>1, <1>3
<1>0. /\ \A q \in 1..Len(f) + 1 : q \in C <=> q <= Len(f) /\ f[q] = "#"
      /\ \A q \in C : next[q] = SkipToNextLine(f, q + 1).pos
  BY <1>1
<1>00. C \in SUBSET (1..Len(f)) OBVIOUS
<1> HIDE DEF C, next, skip
<1>5. PICK s \in [1..Len(f) + 1 -> 1..Len(f) + 1] :
        \A q \in 1..Len(f) + 1 : s[q] = IF q \in C THEN s[next[q]] ELSE q
  <2> DEFINE n == Len(f)
  <2>1. n \in Nat /\ C \in SUBSET (1..n) BY <1>00, <1>1
  <2>2. Onward(n, C, next) BY <1>4, <2>1 DEF Onward
  <2> HIDE DEF n
  <2>3. Skips(n, C, next) BY <2>1, <2>2, SkipExists
  <2>4. QED BY <2>3 DEF n, Skips
<1>6. ASSUME NEW q \in 1..Len(f) + 1
      PROVE  s[q] = IF q <= Len(f) /\ f[q] = "#" THEN s[SkipToNextLine(f, q + 1).pos] ELSE q
  BY <1>0, <1>5
<1>7. s = [q \in 1..Len(f) + 1 |->
             IF q <= Len(f) /\ f[q] = "#" THEN s[SkipToNextLine(f, q + 1).pos] ELSE q]
  BY <1>5, <1>6
<1>8. skip = [q \in 1..Len(f) + 1 |->
                IF q <= Len(f) /\ f[q] = "#" THEN skip[SkipToNextLine(f, q + 1).pos] ELSE q]
  BY <1>7 DEF skip
<1>9. skip[p] = IF p <= Len(f) /\ f[p] = "#" THEN skip[SkipToNextLine(f, p + 1).pos] ELSE p
  BY <1>8
<1>10. p <= Len(f) => SkipToNextLine(f, p + 1).pos \in 1..Len(f) + 1 BY <1>1, SkipLineRange
<1>11. QED BY <1>2, <1>9, <1>10
-----------------------------------------------------------------------------
(* The text of a file.                                                     *)

\* Where the lines of a file are in its text: line k ends at off[k].
Layout(lines, text, off) ==
  /\ text \in Seq(STRING) /\ off \in [0..Len(lines) -> 0..Len(text)]
  /\ off[0] = 0 /\ off[Len(lines)] = Len(text)
  /\ \A k \in 1..Len(lines) :
       /\ off[k] = off[k - 1] + Len(lines[k])
       /\ \A j \in 1..Len(lines[k]) : text[off[k - 1] + j] = lines[k][j]

Flattens(n, lines, g) ==
  /\ g \in [1..n -> Seq(STRING)]
  /\ \A i \in 1..n : g[i] = IF i = 1 THEN lines[i] ELSE g[i - 1] \o lines[i]

\* The text of the first n lines, for each n: FlattenSeq() is its last value.
LEMMA FlattenExists ==
  ASSUME NEW lines \in Seq(Seq(STRING)), NEW n \in Nat, n + 1 = Len(lines)
  PROVE  \E g : Flattens(n + 1, lines, g)
<1> DEFINE S == {m \in 0..n : \E g : Flattens(m + 1, lines, g)}
<1>1. 0 \in S
  <2> DEFINE g == [i \in 1..0 + 1 |-> lines[1]]
  <2>1. 1 \in 1..Len(lines) OBVIOUS
  <2>2. lines[1] \in Seq(STRING) BY <2>1
  <2>3. g \in [1..0 + 1 -> Seq(STRING)] /\ \A i \in 1..0 + 1 : i = 1 /\ g[i] = lines[1]
    BY <2>2
  <2> HIDE DEF g
  <2>4. Flattens(0 + 1, lines, g) BY <2>3 DEF Flattens
  <2>5. QED BY <2>4
<1>2. ASSUME NEW m \in 0..n - 1, m \in S PROVE m + 1 \in S
  <2>1. PICK g : Flattens(m + 1, lines, g) BY <1>2
  <2> DEFINE h == [i \in 1..m + 2 |-> IF i = m + 2 THEN g[m + 1] \o lines[m + 2] ELSE g[i]]
  <2>2. m \in Nat /\ m + 2 \in 1..Len(lines) OBVIOUS
  <2>3. g[m + 1] \in Seq(STRING) /\ lines[m + 2] \in Seq(STRING) BY <2>1, <2>2 DEF Flattens
  <2>4. g[m + 1] \o lines[m + 2] \in Seq(STRING) BY <2>3
  <2>5. h \in [1..m + 2 -> Seq(STRING)]
    <3>1. \A i \in 1..m + 2 : i # m + 2 => i \in 1..m + 1 BY <2>2
    <3>2. QED BY <2>1, <2>4, <3>1 DEF Flattens
  <2>6. ASSUME NEW i \in 1..m + 2
        PROVE  h[i] = IF i = 1 THEN lines[i] ELSE h[i - 1] \o lines[i]
    <3>1. CASE i = m + 2
      <4>1. i - 1 = m + 1 /\ i - 1 \in 1..m + 2 /\ i - 1 # m + 2 /\ i # 1 BY <2>2, <3>1
      <4>2. h[i] = g[m + 1] \o lines[i] /\ h[i - 1] = g[m + 1] BY <3>1, <4>1
      <4>3. QED BY <4>1, <4>2
    <3>2. CASE i # m + 2
      <4>1. i \in 1..m + 1 /\ (i # 1 => i - 1 \in 1..m + 2 /\ i - 1 # m + 2) BY <2>2, <3>2
      <4>2. h[i] = g[i] /\ (i # 1 => h[i - 1] = g[i - 1]) BY <3>2, <4>1
      <4>3. g[i] = IF i = 1 THEN lines[i] ELSE g[i - 1] \o lines[i] BY <2>1, <4>1 DEF Flattens
      <4>4. QED BY <4>2, <4>3
    <3>3. QED BY <3>1, <3>2
  <2> HIDE DEF h
  <2>7. Flattens(m + 2, lines, h) BY <2>5, <2>6 DEF Flattens
  <2>8. m + 1 + 1 = m + 2 /\ m + 1 \in 0..n BY <2>2
  <2>9. QED BY <2>7, <2>8
<1>3. n \in S 
  <2> HIDE DEF S
  <2>1. 0..n \subseteq S BY <1>1, <1>2, Ascend
  <2>2. QED BY <2>1
<1>4. QED BY <1>3

LEMMA FlattenIs ==
  ASSUME NEW lines \in Seq(Seq(STRING)), Len(lines) # 0
  PROVE  \E g : Flattens(Len(lines), lines, g) /\ Lists!FlattenSeq(lines) = g[Len(lines)]
<1> DEFINE n == Len(lines)
           flatten == CHOOSE g :
                        g = [i \in 1..n |-> IF i = 1 THEN lines[i] ELSE g[i - 1] \o lines[i]]
<1>1. n \in Nat \ {0} OBVIOUS
<1>2. Lists!FlattenSeq(lines) = flatten[n] BY DEF Lists!FlattenSeq
<1> HIDE DEF flatten, n
<1>3. PICK m \in Nat : n = m + 1
  <2>1. n - 1 \in Nat /\ n = n - 1 + 1 BY <1>1
  <2>2. QED BY <2>1
<1>4. PICK g : Flattens(n, lines, g) BY <1>3, FlattenExists DEF n
<1>5. g = [i \in 1..n |-> IF i = 1 THEN lines[i] ELSE g[i - 1] \o lines[i]]
  BY <1>4 DEF Flattens
<1>6. flatten = [i \in 1..n |-> IF i = 1 THEN lines[i] ELSE flatten[i - 1] \o lines[i]]
  BY <1>5 DEF flatten
<1>7. \A i \in 1..n : flatten[i] = IF i = 1 THEN lines[i] ELSE flatten[i - 1] \o lines[i]
  BY <1>6
<1> DEFINE S == {i \in 0..m : flatten[i + 1] \in Seq(STRING)}
<1>8. 0 \in S
  <2>1. 1 \in 1..n /\ lines[1] \in Seq(STRING) BY <1>1 DEF n
  <2>2. flatten[1] = lines[1] BY <1>7, <2>1
  <2>3. QED BY <1>3, <2>1, <2>2
<1>9. ASSUME NEW i \in 0..m - 1, i \in S PROVE i + 1 \in S
  <2>1. i + 2 \in 1..n /\ i + 2 # 1 /\ i + 2 - 1 = i + 1 BY <1>3
  <2>2. lines[i + 2] \in Seq(STRING) BY <2>1 DEF n
  <2>3. flatten[i + 2] = flatten[i + 1] \o lines[i + 2]
    <3> DEFINE k == i + 2
    <3>1. k \in 1..n /\ k # 1 /\ k - 1 = i + 1 BY <2>1
    <3> HIDE DEF k
    <3>2. flatten[k] = flatten[k - 1] \o lines[k] BY <1>7, <3>1
    <3>3. QED BY <3>1, <3>2 DEF k
  <2>4. flatten[i + 1] \in Seq(STRING) BY <1>9
  <2>5. flatten[i + 2] \in Seq(STRING) BY <2>2, <2>3, <2>4, ConcatProperties
  <2>6. i + 1 \in 0..m /\ (i + 1) + 1 = i + 2 BY <1>3
  <2>7. QED BY <2>5, <2>6
<1>10. \A i \in 1..n : flatten[i] \in Seq(STRING)
  <2> HIDE DEF S
  <2>1. 0..m \subseteq S BY <1>8, <1>9, Ascend
  <2>2. \A i \in 0..m : flatten[i + 1] \in Seq(STRING) BY <2>1 DEF S
  <2>3. ASSUME NEW i \in 1..n PROVE i - 1 \in 0..m /\ i = i - 1 + 1 BY <1>3
  <2>4. QED BY <2>2, <2>3
<1>11. Flattens(n, lines, flatten) BY <1>6, <1>7, <1>10 DEF Flattens
<1>12. QED BY <1>2, <1>11 DEF n
\* Text that is appended leaves the text before it where it is.
LEMMA ConcatIs ==
  ASSUME NEW s \in Seq(STRING), NEW t \in Seq(STRING)
  PROVE  /\ Len(s \o t) = Len(s) + Len(t)
         /\ \A i \in 1..Len(s) : (s \o t)[i] = s[i]
         /\ \A j \in 1..Len(t) : (s \o t)[Len(s) + j] = t[j]
<1>1. Len(s) \in Nat /\ Len(t) \in Nat /\ Len(s \o t) = Len(s) + Len(t) OBVIOUS
<1>2. ASSUME NEW i \in 1..Len(s) PROVE (s \o t)[i] = s[i] BY <1>1
<1>3. ASSUME NEW j \in 1..Len(t) PROVE (s \o t)[Len(s) + j] = t[j]
  <2>1. Len(s) + j \in 1..Len(s) + Len(t) /\ Len(s) + j > Len(s) /\ Len(s) + j - Len(s) = j
    BY <1>1
  <2>2. QED BY <1>1, <2>1
<1>4. QED BY <1>1, <1>2, <1>3

\* Each beginning of a text is kept by those that are longer.
LEMMA FlattensKeeps ==
  ASSUME NEW lines \in Seq(Seq(STRING)), NEW n \in Nat \ {0}, n <= Len(lines),
         NEW g, Flattens(n, lines, g), NEW k \in 1..n, NEW i \in 1..Len(g[k])
  PROVE  i \in 1..Len(g[n]) /\ g[n][i] = g[k][i]
<1> DEFINE S == {d \in 0..n - k : i \in 1..Len(g[k + d]) /\ g[k + d][i] = g[k][i]}
<1>1. n - k \in Nat OBVIOUS
<1>2. 0 \in S
  <2>1. k + 0 = k OBVIOUS
  <2>2. QED BY <1>1, <2>1
<1>3. ASSUME NEW d \in 0..n - k - 1, d \in S PROVE d + 1 \in S
  <2> DEFINE m == k + d + 1
  <2>1. /\ m \in 1..n /\ m # 1 /\ m - 1 = k + d /\ m - 1 \in 1..n
        /\ m = k + (d + 1) /\ d + 1 \in 0..n - k
    BY <1>1
  <2>2. i \in 1..Len(g[m - 1]) /\ g[m - 1][i] = g[k][i]
    <3>1. i \in 1..Len(g[k + d]) /\ g[k + d][i] = g[k][i] BY <1>3
    <3> HIDE DEF m
    <3>2. QED BY <2>1, <3>1
  <2> HIDE DEF m
  <2>3. g[m] = g[m - 1] \o lines[m] BY <2>1 DEF Flattens
  <2>4. g[m - 1] \in Seq(STRING) /\ lines[m] \in Seq(STRING)
    <3>1. m \in 1..Len(lines) BY <2>1
    <3>2. QED BY <2>1, <3>1 DEF Flattens
  <2> DEFINE a == g[m - 1]
             b == lines[m]
  <2>5. /\ a \in Seq(STRING) /\ b \in Seq(STRING) /\ g[m] = a \o b
        /\ i \in 1..Len(a) /\ a[i] = g[k][i]
    BY <2>2, <2>3, <2>4
  <2> HIDE DEF a, b
  <2>6. Len(a) \in Nat /\ Len(b) \in Nat BY <2>5
  <2>7. Len(g[m]) = Len(a) + Len(b) /\ g[m][i] = a[i] BY <2>5, ConcatIs
  <2>8. i \in 1..Len(g[m]) BY <2>5, <2>6, <2>7
  <2>9. QED BY <2>1, <2>5, <2>7, <2>8
<1>4. n - k \in S
  <2> HIDE DEF S
  <2>1. 0..n - k \subseteq S BY <1>1, <1>2, <1>3, Ascend
  <2>2. QED BY <1>1, <2>1
<1>5. k + (n - k) = n OBVIOUS
<1>6. QED BY <1>4, <1>5

\* Every file has a layout: its text is its lines, one behind the other.
LEMMA LayoutExists ==
  ASSUME NEW lines \in Seq(Seq(STRING))
  PROVE  \E off : Layout(lines, Lists!FlattenSeq(lines), off)
<1> DEFINE n == Len(lines)
           text == Lists!FlattenSeq(lines)
<1>1. CASE n = 0
  <2>1. lines = <<>> BY <1>1
  <2>2. text = <<>> BY <1>1, <2>1 DEF Lists!FlattenSeq
  <2> DEFINE off == [k \in 0..0 |-> 0]
  <2>3. off \in [0..n -> 0..Len(text)] /\ off[0] = 0 /\ off[n] = Len(text) /\ text \in Seq(STRING)
    <3>1. Len(text) = 0 /\ text \in Seq(STRING) BY <2>2
    <3>2. QED BY <1>1, <3>1
  <2> HIDE DEF off, text
  <2>4. Layout(lines, text, off) BY <1>1, <2>3 DEF Layout
  <2>5. QED BY <2>4 DEF text
<1>2. CASE n # 0
  <2>1. PICK g : Flattens(n, lines, g) /\ text = g[n] BY <1>2, FlattenIs
  <2>2. n \in Nat \ {0} BY <1>2
  <2>3. \A k \in 1..n : g[k] \in Seq(STRING) /\ lines[k] \in Seq(STRING) BY <2>1 DEF Flattens
  <2>4. ASSUME NEW k \in 1..n PROVE Len(g[k]) \in 0..Len(g[n])
    <3>1. Len(g[k]) \in Nat /\ Len(g[n]) \in Nat BY <2>2, <2>3
    <3>2. CASE Len(g[k]) = 0 BY <3>1, <3>2
    <3>3. CASE Len(g[k]) # 0
      <4>1. Len(g[k]) \in 1..Len(g[k]) BY <3>1, <3>3
      <4>2. Len(g[k]) \in 1..Len(g[n]) BY <2>1, <2>2, <4>1, FlattensKeeps
      <4>3. QED BY <3>1, <4>2
    <3>4. QED BY <3>2, <3>3
  <2> DEFINE off == [k \in 0..n |-> IF k = 0 THEN 0 ELSE Len(g[k])]
  <2>5. off \in [0..n -> 0..Len(text)]
    <3>1. \A k \in 0..n : k # 0 => k \in 1..n BY <2>2
    <3>2. Len(text) \in Nat BY <2>1, <2>2, <2>3
    <3>3. QED BY <2>1, <2>4, <3>1, <3>2
  <2>6. off[0] = 0 /\ off[n] = Len(text) BY <2>1, <2>2
  <2>7. ASSUME NEW k \in 1..n
        PROVE  /\ off[k] = off[k - 1] + Len(lines[k])
               /\ \A j \in 1..Len(lines[k]) : text[off[k - 1] + j] = lines[k][j]
    <3>1. off[k] = Len(g[k]) /\ k - 1 \in 0..n BY <2>2
    <3>2. CASE k = 1
      <4>1. off[k - 1] = 0 /\ g[k] = lines[k]
        <5>1. off[0] = 0 /\ k - 1 = 0 BY <2>6, <3>2
        <5>2. g[k] = lines[k] BY <2>1, <3>2 DEF Flattens
        <5> HIDE DEF off
        <5>3. QED BY <5>1, <5>2
      <4>2. \A j \in 1..Len(lines[k]) : text[j] = lines[k][j]
        BY <2>1, <2>2, <4>1, FlattensKeeps
      <4>3. Len(lines[k]) \in Nat BY <2>3
      <4> HIDE DEF off, text
      <4>4. \A j \in 1..Len(lines[k]) : off[k - 1] + j = j BY <4>1, <4>3
      <4>5. QED BY <3>1, <4>1, <4>2, <4>3, <4>4
    <3>3. CASE k # 1
      <4>1. k - 1 \in 1..n /\ k - 1 # 0 BY <3>3
      <4>2. off[k - 1] = Len(g[k - 1]) /\ g[k] = g[k - 1] \o lines[k]
        BY <2>1, <3>1, <3>3, <4>1 DEF Flattens
      <4> DEFINE s == g[k - 1]
      <4>3. s \in Seq(STRING) /\ lines[k] \in Seq(STRING) BY <2>3, <4>1
      <4>4. g[k] = s \o lines[k] /\ off[k - 1] = Len(s) BY <4>2
      <4> HIDE DEF s, off, text
      <4>5. /\ Len(g[k]) = Len(s) + Len(lines[k])
            /\ \A j \in 1..Len(lines[k]) : g[k][Len(s) + j] = lines[k][j]
            /\ Len(s) \in Nat /\ Len(lines[k]) \in Nat
        BY <4>3, <4>4, ConcatIs
      <4>6. ASSUME NEW j \in 1..Len(lines[k]) PROVE text[Len(s) + j] = lines[k][j]
        <5> DEFINE i == Len(s) + j
        <5>1. i \in 1..Len(g[k]) BY <4>5
        <5> HIDE DEF i
        <5>2. n <= Len(lines) /\ Flattens(n, lines, g) BY <2>1, <2>2
        <5>3. text[i] = g[k][i]
          <6> HIDE DEF n
          <6>1. g[n][i] = g[k][i] BY <2>2, <5>1, <5>2, FlattensKeeps
          <6>2. QED BY <2>1, <6>1
        <5>4. QED BY <4>5, <5>3 DEF i
      <4>7. QED BY <3>1, <4>4, <4>5, <4>6
    <3>4. QED BY <3>2, <3>3
  <2>8. text \in Seq(STRING) BY <2>1, <2>2, <2>3
  <2> HIDE DEF off, text
  <2>9. Layout(lines, text, off) BY <2>5, <2>6, <2>7, <2>8 DEF Layout
  <2>10. QED BY <2>9 DEF text
<1>3. QED BY <1>1, <1>2
\* A file of lines, of which only the last may not be terminated.
IsFile(lines) ==
  /\ lines \in Seq(Seq(STRING))
  /\ \A i \in 1..Len(lines) : IsLine(lines[i]) /\ (i < Len(lines) => Terminated(lines[i]))

\* Where a line is in the text, and what ends it.
LEMMA LineFacts ==
  ASSUME NEW lines, IsFile(lines), NEW f, NEW off, Layout(lines, f, off),
         NEW k \in 1..Len(lines)
  PROVE  /\ f \in Seq(STRING) /\ Len(f) \in Nat /\ Len(lines) \in Nat
         /\ off[k - 1] \in Nat /\ off[k] \in Nat /\ off[k - 1] < off[k] /\ off[k] <= Len(f)
         /\ lines[k] \in Seq(STRING) /\ Len(lines[k]) \in Nat \ {0}
         /\ off[k] = off[k - 1] + Len(lines[k])
         /\ \A j \in 1..Len(lines[k]) : f[off[k - 1] + j] = lines[k][j]
         /\ Terminated(lines[k]) => f[off[k]] = "nl"
         /\ \A i \in off[k - 1] + 1..off[k] - 1 : f[i] # "nl"
         /\ ~Terminated(lines[k]) => f[off[k]] # "nl" /\ off[k] = Len(f) /\ k = Len(lines)
<1> DEFINE n == Len(lines)
<1>1. /\ f \in Seq(STRING) /\ Len(f) \in Nat /\ n \in Nat /\ lines[k] \in Seq(STRING)
      /\ off \in [0..n -> 0..Len(f)] /\ off[n] = Len(f)
      /\ IsLine(lines[k]) /\ (k < n => Terminated(lines[k]))
  BY DEF Layout, IsFile
<1>2. off[k - 1] \in Nat /\ off[k] \in Nat /\ off[k] <= Len(f) BY <1>1
<1>3. Len(lines[k]) \in Nat \ {0}
  <2>1. lines[k] # <<>> BY <1>1 DEF IsLine
  <2>2. QED BY <1>1, <2>1
<1>4. /\ off[k] = off[k - 1] + Len(lines[k])
      /\ \A j \in 1..Len(lines[k]) : f[off[k - 1] + j] = lines[k][j]
  BY DEF Layout
<1>5. off[k - 1] < off[k] BY <1>2, <1>3, <1>4
<1>6. Len(lines[k]) \in 1..Len(lines[k]) BY <1>3
<1>7. f[off[k]] = lines[k][Len(lines[k])] BY <1>4, <1>6
<1>8. ASSUME NEW i \in off[k - 1] + 1..off[k] - 1 PROVE f[i] # "nl"
  <2> DEFINE j == i - off[k - 1]
  <2>1. j \in 1..Len(lines[k]) - 1 /\ off[k - 1] + j = i /\ j \in 1..Len(lines[k])
    BY <1>2, <1>3, <1>4
  <2> HIDE DEF j
  <2>2. f[i] = lines[k][j] BY <1>4, <2>1
  <2>3. QED BY <1>1, <2>1, <2>2 DEF IsLine
<1>9. Terminated(lines[k]) <=> f[off[k]] = "nl" BY <1>7 DEF Terminated
<1>10. ~Terminated(lines[k]) => off[k] = Len(f) /\ k = n BY <1>1
<1>11. QED BY <1>1, <1>2, <1>3, <1>4, <1>5, <1>8, <1>9, <1>10

\* skip_to_next_line() goes to the end of the line it is in.
LEMMA LineEnds ==
  ASSUME NEW lines, IsFile(lines), NEW f, NEW off, Layout(lines, f, off),
         NEW k \in 1..Len(lines), NEW p \in Nat, off[k - 1] < p,
         p <= off[k] \/ (~Terminated(lines[k]) /\ p = off[k] + 1)
  PROVE  /\ SkipToNextLine(f, p).pos = off[k] + 1
         /\ SkipToNextLine(f, p).eof <=> ~Terminated(lines[k])
<1>1. /\ f \in Seq(STRING) /\ Len(f) \in Nat
      /\ off[k - 1] \in Nat /\ off[k] \in Nat /\ off[k] <= Len(f)
      /\ Terminated(lines[k]) => f[off[k]] = "nl"
      /\ \A i \in off[k - 1] + 1..off[k] - 1 : f[i] # "nl"
      /\ ~Terminated(lines[k]) => f[off[k]] # "nl" /\ off[k] = Len(f)
  BY LineFacts
<1> DEFINE nl == Find(f, p, {"nl"})
<1>2. /\ SkipToNextLine(f, p).pos = IF nl > Len(f) THEN nl ELSE nl + 1
      /\ SkipToNextLine(f, p).eof <=> nl > Len(f)
  BY DEF SkipToNextLine
<1>3. CASE Terminated(lines[k])
  <2>1. nl = off[k]
    <3> DEFINE e == off[k]
    <3>1. p \in Nat \ {0} /\ e \in p..Len(f) + 1 BY <1>1, <1>3
    <3>2. \A i \in p..e - 1 : f[i] \notin {"nl"} BY <1>1
    <3>3. e <= Len(f) => f[e] \in {"nl"} BY <1>1, <1>3
    <3> HIDE DEF e
    <3>4. nl = e BY <1>1, <3>1, <3>2, <3>3, FindIs
    <3>5. QED BY <3>4 DEF e
  <2> HIDE DEF nl
  <2>2. QED BY <1>1, <1>2, <1>3, <2>1
<1>4. CASE ~Terminated(lines[k])
  <2>1. nl = off[k] + 1
    <3> DEFINE e == off[k] + 1
    <3>1. p \in Nat \ {0} /\ e \in p..Len(f) + 1 /\ (e <= Len(f) => f[e] \in {"nl"})
      BY <1>1, <1>4
    <3>2. \A i \in p..e - 1 : f[i] \notin {"nl"}
      <4>1. ASSUME NEW i \in p..e - 1 PROVE i = off[k] \/ i \in off[k - 1] + 1..off[k] - 1
        BY <1>1
      <4>2. QED BY <1>1, <1>4, <4>1
    <3> HIDE DEF e
    <3>3. nl = e BY <1>1, <3>1, <3>2, FindIs
    <3>4. QED BY <3>3 DEF e
  <2> HIDE DEF nl
  <2>2. QED BY <1>1, <1>2, <1>4, <2>1
<1>5. QED BY <1>3, <1>4

\* skip_comments() goes to the next line that is no comment, or to the end.
Uncommented(lines, k, j) ==
  /\ j \in k..Len(lines)
  /\ j < Len(lines) => ~IsComment(lines[j + 1])
  /\ \A i \in k + 1..j : IsComment(lines[i])

LEMMA SkipsComments ==
  ASSUME NEW lines, IsFile(lines), NEW f, NEW off, Layout(lines, f, off),
         NEW k \in 0..Len(lines)
  PROVE  \E j : Uncommented(lines, k, j) /\ SkipComments(f, off[k] + 1) = off[j] + 1
<1> DEFINE n == Len(lines)
           Goal(l) == \E j : Uncommented(lines, l, j) /\ SkipComments(f, off[l] + 1) = off[j] + 1
           S == {d \in 0..n : Goal(n - d)}
<1>1. /\ n \in Nat /\ f \in Seq(STRING) /\ Len(f) \in Nat /\ off[n] = Len(f)
  BY DEF IsFile, Layout
<1>2. 0 \in S
  <2>1. Uncommented(lines, n, n) BY <1>1 DEF Uncommented
  <2>2. SkipComments(f, off[n] + 1) = off[n] + 1
    <3>1. Len(f) + 1 \in 1..Len(f) + 1 /\ ~(Len(f) + 1 <= Len(f)) BY <1>1
    <3>2. SkipComments(f, Len(f) + 1) = Len(f) + 1 BY <1>1, <3>1, SkipCommentsIs
    <3>3. QED BY <1>1, <3>2
  <2>3. Goal(n) BY <2>1, <2>2
  <2>4. n - 0 = n /\ 0 \in 0..n BY <1>1
  <2> HIDE DEF Goal
  <2>5. QED BY <2>3, <2>4
<1>3. ASSUME NEW d \in 0..n - 1, d \in S PROVE d + 1 \in S
  <2> DEFINE l == n - (d + 1)
  <2>1. l \in Nat /\ l + 1 \in 1..n /\ l + 1 = n - d /\ l + 1 - 1 = l /\ d + 1 \in 0..n BY <1>1
  <2>2. Goal(l + 1) BY <1>3, <2>1
  <2> HIDE DEF l
  <2> DEFINE line == lines[l + 1]
             p == off[l] + 1
  <2>3. /\ off[l] \in Nat /\ off[l + 1] \in Nat /\ off[l] < off[l + 1] /\ off[l + 1] <= Len(f)
        /\ Len(line) \in Nat \ {0} /\ off[l + 1] = off[l] + Len(line)
        /\ \A j \in 1..Len(line) : f[off[l] + j] = line[j]
    <3> DEFINE m == l + 1
    <3>1. m \in 1..Len(lines) /\ m - 1 = l BY <2>1
    <3> HIDE DEF m
    <3>2. /\ off[m - 1] \in Nat /\ off[m] \in Nat /\ off[m - 1] < off[m] /\ off[m] <= Len(f)
          /\ Len(lines[m]) \in Nat \ {0} /\ off[m] = off[m - 1] + Len(lines[m])
          /\ \A j \in 1..Len(lines[m]) : f[off[m - 1] + j] = lines[m][j]
      BY <3>1, LineFacts
    <3>3. QED BY <3>1, <3>2 DEF m
  <2>4. p \in 1..Len(f) + 1 /\ p <= Len(f) /\ f[p] = line[1] BY <1>1, <2>3
  <2>5. CASE IsComment(line)
    <3>1. f[p] = "#" BY <2>4, <2>5 DEF IsComment
    <3>2. SkipComments(f, p) = SkipComments(f, SkipToNextLine(f, p + 1).pos)
      <4> HIDE DEF p
      <4>1. QED BY <1>1, <2>4, <3>1, SkipCommentsIs
    <3>3. SkipToNextLine(f, p + 1).pos = off[l + 1] + 1
      <4>1. p + 1 \in Nat /\ off[l] < p + 1 BY <2>3
      <4>2. p + 1 <= off[l + 1] \/ p + 1 = off[l + 1] + 1 BY <2>3
      <4>3. p + 1 = off[l + 1] + 1 => ~Terminated(line)
        <5>1. ASSUME p + 1 = off[l + 1] + 1 PROVE Len(line) = 1
          <6> DEFINE a == off[l]
                     b == off[l + 1]
                     c == Len(line)
          <6>1. a \in Nat /\ b \in Nat /\ c \in Nat /\ b = a + c /\ a + 1 + 1 = b + 1
            BY <2>3, <5>1
          <6> HIDE DEF a, b, c
          <6>2. c = 1 BY <6>1
          <6>3. QED BY <6>2 DEF c
        <5>2. QED BY <2>5, <5>1 DEF IsComment, Terminated
      <4> HIDE DEF p
      <4> DEFINE m == l + 1
                 q == p + 1
      <4>4. m \in 1..Len(lines) /\ m - 1 = l BY <2>1
      <4>5. /\ q \in Nat /\ off[m - 1] < q
            /\ q <= off[m] \/ (~Terminated(lines[m]) /\ q = off[m] + 1)
        BY <4>1, <4>2, <4>3, <4>4
      <4> HIDE DEF m, q
      <4>6. SkipToNextLine(f, q).pos = off[m] + 1 BY <4>4, <4>5, LineEnds
      <4>7. QED BY <4>6 DEF m, q
    <3>4. PICK j : Uncommented(lines, l + 1, j) /\ SkipComments(f, off[l + 1] + 1) = off[j] + 1
      BY <2>2
    <3>5. Uncommented(lines, l, j) BY <1>1, <2>1, <2>5, <3>4 DEF Uncommented
    <3>6. Goal(l) BY <3>2, <3>3, <3>4, <3>5
    <3> HIDE DEF Goal
    <3>7. QED BY <2>1, <3>6 DEF l
  <2>6. CASE ~IsComment(line)
    <3>1. f[p] # "#" BY <2>4, <2>6 DEF IsComment
    <3>2. SkipComments(f, p) = p
      <4> HIDE DEF p
      <4>1. QED BY <1>1, <2>4, <3>1, SkipCommentsIs
    <3>3. Uncommented(lines, l, l) BY <1>1, <2>1, <2>6 DEF Uncommented
    <3>4. Goal(l) BY <3>2, <3>3
    <3> HIDE DEF Goal
    <3>5. QED BY <2>1, <3>4 DEF l
  <2>7. QED BY <2>5, <2>6
<1>4. n - k \in S
  <2> HIDE DEF S
  <2>1. 0..n \subseteq S BY <1>1, <1>2, <1>3, Ascend
  <2>2. QED BY <1>1, <2>1
<1>5. n - (n - k) = k BY <1>1
<1> HIDE DEF Goal
<1>6. Goal(k) BY <1>4, <1>5
<1>7. QED BY <1>6 DEF Goal
-----------------------------------------------------------------------------
(* Counting words and jobs.                                                *)

\* How many of a set come before a number.
Before(S, i) == Cardinality({j \in S : j < i})

\* It grows by one at each element, from none to all of them.
LEMMA BeforeStep ==
  ASSUME NEW N \in Nat, NEW S \in SUBSET (1..N), NEW i \in Nat
  PROVE  /\ Before(S, i) \in Nat
         /\ Before(S, i + 1) = Before(S, i) + (IF i \in S THEN 1 ELSE 0)
         /\ i <= 1 => Before(S, i) = 0
         /\ i > N => Before(S, i) = Cardinality(S)
         /\ Cardinality(S) \in Nat /\ IsFiniteSet(S)
         /\ Before(S, i) <= Cardinality(S)
<1>1. IsFiniteSet(1..N)
  <2>1. 1 \in Int /\ N \in Int OBVIOUS
  <2>2. QED BY <2>1, FS_Interval
<1>2. IsFiniteSet(S) /\ Cardinality(S) \in Nat BY <1>1, FS_Subset, FS_CardinalityType
<1> DEFINE A == {j \in S : j < i}
           B == {j \in S : j < i + 1}
<1>3. A \in SUBSET S OBVIOUS
<1>4. IsFiniteSet(A) /\ Cardinality(A) \in Nat /\ Cardinality(A) <= Cardinality(S)
  <2> HIDE DEF A
  <2>1. QED BY <1>2, <1>3, FS_Subset, FS_CardinalityType
<1>5. i \in S => B = A \cup {i} /\ i \notin A
  <2>1. \A j \in S : j \in Nat OBVIOUS
  <2>2. \A j \in S : j < i + 1 <=> j < i \/ j = i BY <2>1
  <2>3. i \in S => B = A \cup {i} BY <2>2
  <2>4. ~(i < i) OBVIOUS
  <2>5. QED BY <2>3, <2>4
<1>6. i \notin S => B = A
  <2>1. \A j \in S : j \in Nat /\ (i \notin S => j # i) OBVIOUS
  <2>2. \A j \in S : i \notin S => (j < i + 1 <=> j < i) BY <2>1
  <2>3. QED BY <2>2
<1>7. Cardinality(B) = Cardinality(A) + (IF i \in S THEN 1 ELSE 0)
  <2> HIDE DEF A, B
  <2>1. CASE i \in S BY <1>4, <1>5, <2>1, FS_AddElement
  <2>2. CASE i \notin S BY <1>4, <1>6, <2>2
  <2>3. QED BY <2>1, <2>2
<1>13. \A j \in S : j \in Nat /\ j >= 1 /\ j <= N OBVIOUS
<1>8. i <= 1 => A = {}
  <2>1. \A j \in S : i <= 1 => ~(j < i) BY <1>13
  <2>2. QED BY <2>1
<1>9. i > N => A = S
  <2>1. \A j \in S : i > N => j < i BY <1>13
  <2>2. QED BY <2>1
<1>10. Before(S, i) = Cardinality(A) /\ Before(S, i + 1) = Cardinality(B) BY DEF Before
<1> HIDE DEF A, B
<1>11. i <= 1 => Cardinality(A) = 0 BY <1>8, FS_EmptySet
<1>12. QED BY <1>2, <1>4, <1>7, <1>9, <1>10, <1>11

LEMMA BeforeGrows ==
  ASSUME NEW N \in Nat, NEW S \in SUBSET (1..N), NEW i \in Nat, NEW j \in Nat, i <= j
  PROVE  /\ Before(S, i) <= Before(S, j)
         /\ i < j /\ i \in S => Before(S, i) < Before(S, j)
<1> DEFINE A == {k \in S : k < i}
           B == {k \in S : k < j}
<1>1. A \in SUBSET B
  <2>1. \A k \in S : k \in Nat OBVIOUS
  <2>2. \A k \in S : k < i => k < j BY <2>1
  <2>3. QED BY <2>2
<1>2. B \in SUBSET S OBVIOUS
<1>3. i < j /\ i \in S => i \in B /\ i \notin A OBVIOUS
<1>4. Before(S, i) = Cardinality(A) /\ Before(S, j) = Cardinality(B) BY DEF Before
<1>5. IsFiniteSet(S) BY BeforeStep
<1>6. Before(S, i) \in Nat /\ Before(S, j) \in Nat BY BeforeStep
<1> HIDE DEF A, B
<1>7. IsFiniteSet(B) BY <1>2, <1>5, FS_Subset
<1>8. Cardinality(A) <= Cardinality(B) /\ (Cardinality(B) = Cardinality(A) => B = A)
  BY <1>1, <1>7, FS_Subset
<1>9. i < j /\ i \in S => Cardinality(A) # Cardinality(B) BY <1>3, <1>8
<1>10. QED BY <1>4, <1>6, <1>8, <1>9

\* Every number up to the size of a set is the place of just one of its elements.
LEMMA NthIs ==
  ASSUME NEW N \in Nat, NEW S \in SUBSET (1..N), NEW c \in 1..Cardinality(S)
  PROVE  /\ Nth(S, c) \in S /\ Before(S, Nth(S, c)) = c - 1
         /\ \A i \in S : Before(S, i) = c - 1 => i = Nth(S, c)
<1>1. Cardinality(S) \in Nat /\ c \in Nat /\ c >= 1 /\ c <= Cardinality(S)
  <2>1. Cardinality(S) \in Nat BY BeforeStep
  <2>2. QED BY <2>1
<1> DEFINE T == {i \in 0..N + 1 : Before(S, i) >= c}
           m == Min(T)
<1>2. T \in SUBSET Nat OBVIOUS
<1>3. N + 1 \in T
  <2>1. N + 1 \in Nat /\ N + 1 > N /\ N + 1 \in 0..N + 1 OBVIOUS
  <2>2. Before(S, N + 1) = Cardinality(S) BY <2>1, BeforeStep
  <2>3. QED BY <1>1, <2>1, <2>2
<1>4. m \in T /\ \A i \in T : m <= i
  <2> HIDE DEF T
  <2>1. QED BY <1>2, <1>3, MinIs
<1> HIDE DEF m
<1>5. m \in 0..N + 1 /\ Before(S, m) >= c BY <1>4
<1>6. m > 1
  <2>1. m \in Nat /\ Before(S, m) \in Nat /\ (m <= 1 => Before(S, m) = 0) BY <1>5, BeforeStep
  <2>2. QED BY <1>1, <1>5, <2>1
<1> DEFINE i == m - 1
<1>7. i \in Nat /\ i \in 0..N + 1 /\ i + 1 = m /\ i < m BY <1>5, <1>6
<1> HIDE DEF i
<1>8. ~(Before(S, i) >= c)
  <2>1. i \notin T
    <3> HIDE DEF T
    <3>1. m \in Nat BY <1>5
    <3>2. QED BY <1>4, <1>7, <3>1
  <2>2. QED BY <1>7, <2>1
<1>9. Before(S, i) \in Nat /\ Before(S, m) = Before(S, i) + (IF i \in S THEN 1 ELSE 0)
  BY <1>7, BeforeStep
<1>10. i \in S /\ Before(S, i) = c - 1 BY <1>1, <1>5, <1>8, <1>9
<1>11. Nth(S, c) = CHOOSE a \in S : Before(S, a) = c - 1 BY DEF Nth, Before
<1>12. Nth(S, c) \in S /\ Before(S, Nth(S, c)) = c - 1 BY <1>10, <1>11
<1>13. ASSUME NEW a \in S, NEW b \in S, Before(S, a) = c - 1, Before(S, b) = c - 1
       PROVE  a = b
  <2>1. a \in Nat /\ b \in Nat OBVIOUS
  <2>2. Before(S, a) \in Nat /\ Before(S, b) \in Nat BY <2>1, BeforeStep
  <2>3. ~(a < b)
    <3>1. a < b => Before(S, a) < Before(S, b)
      <4>1. a < b => a <= b BY <2>1
      <4>2. QED BY <2>1, <4>1, BeforeGrows
    <3>2. QED BY <1>13, <2>2, <3>1
  <2>4. ~(b < a)
    <3>1. b < a => Before(S, b) < Before(S, a)
      <4>1. b < a => b <= a BY <2>1
      <4>2. QED BY <2>1, <4>1, BeforeGrows
    <3>2. QED BY <1>13, <2>2, <3>1
  <2>5. QED BY <2>1, <2>3, <2>4
<1>14. QED BY <1>12, <1>13
-----------------------------------------------------------------------------
(* The words of a line.                                                    *)

\* Where the search for the i-th word of a line goes on: at its beginning or
\* behind a word, with one word less than i before.
At(L, i, a) ==
  a \in 1..Len(L) /\ (a = 1 \/ L[a] \in Space) /\ Before(Words(L), a) = i - 1

\* A line's words and how many of them come before one.
LEMMA WordsAre ==
  ASSUME NEW L \in Seq(STRING), NEW i \in 1..Cardinality(Words(L))
  PROVE  /\ Len(L) \in Nat /\ Words(L) \in SUBSET (1..Len(L)) /\ i \in Nat /\ i >= 1
         /\ Nth(Words(L), i) \in Words(L) /\ Nth(Words(L), i) \in 1..Len(L)
         /\ L[Nth(Words(L), i)] \notin Space
         /\ Before(Words(L), Nth(Words(L), i)) = i - 1
<1>1. Len(L) \in Nat OBVIOUS
<1>2. Words(L) \in SUBSET (1..Len(L)) BY DEF Words
<1>3. Nth(Words(L), i) \in Words(L) /\ Before(Words(L), Nth(Words(L), i)) = i - 1
  <2> DEFINE W == Words(L)
             N == Len(L)
  <2>1. N \in Nat /\ W \in SUBSET (1..N) /\ i \in 1..Cardinality(W) BY <1>1, <1>2
  <2> HIDE DEF W, N
  <2>2. Nth(W, i) \in W /\ Before(W, Nth(W, i)) = i - 1 BY <2>1, NthIs
  <2>3. QED BY <2>2 DEF W
<1>4. Cardinality(Words(L)) \in Nat BY <1>1, <1>2, BeforeStep
<1>5. i \in Nat /\ i >= 1 BY <1>4
<1>6. \A w \in Words(L) : w \in 1..Len(L) /\ L[w] \notin Space BY DEF Words
<1>7. QED BY <1>1, <1>2, <1>3, <1>5, <1>6

\* From there to the word there are only blanks.
LEMMA NextWord ==
  ASSUME NEW L \in Seq(STRING), NEW i \in 1..Cardinality(Words(L)), NEW a, At(L, i, a)
  PROVE  /\ a <= Nth(Words(L), i)
         /\ \A x \in a..Nth(Words(L), i) - 1 : L[x] \in Space
<1> DEFINE W == Words(L)
           w == Nth(W, i)
           N == Len(L)
<1>1. /\ N \in Nat /\ W \in SUBSET (1..N) /\ i \in Nat /\ i >= 1
      /\ w \in W /\ w \in 1..N /\ Before(W, w) = i - 1
  BY WordsAre
<1>2. a \in 1..N /\ (a = 1 \/ L[a] \in Space) /\ Before(W, a) = i - 1 BY DEF At
<1>3. \A x \in 1..N : x \in W <=> L[x] \notin Space /\ (x = 1 \/ L[x - 1] \in Space) BY DEF Words
<1> HIDE DEF W, w, N
<1>4. a \in Nat /\ w \in Nat BY <1>1, <1>2
<1>5. a <= w
  <2>1. w < a => Before(W, w) < Before(W, a)
    <3>1. w < a => w <= a BY <1>4
    <3>2. QED BY <1>1, <1>4, <3>1, BeforeGrows
  <2>2. QED BY <1>1, <1>2, <1>4, <2>1
<1>6. ASSUME NEW x \in a..w - 1 PROVE x \notin W
  <2>1. x \in Nat /\ a <= x /\ x < w /\ x <= w BY <1>4
  <2>2. Before(W, a) <= Before(W, x) BY <1>1, <1>4, <2>1, BeforeGrows
  <2>3. x \in W => Before(W, x) < Before(W, w) BY <1>1, <1>4, <2>1, BeforeGrows
  <2>4. Before(W, x) \in Nat BY <1>1, <2>1, BeforeStep
  <2>5. QED BY <1>1, <1>2, <2>2, <2>3, <2>4
<1>7. \A x \in a..w - 1 : L[x] \in Space
  <2>1. SUFFICES ASSUME a < w PROVE \A x \in a..w - 1 : L[x] \in Space BY <1>4, <1>5
  <2> DEFINE n == w - 1 - a
             S == {d \in 0..n : L[a + d] \in Space}
  <2>2. n \in Nat /\ a \in a..w - 1 BY <1>4, <2>1
  <2>3. 0 \in S
    <3>1. L[a] \in Space BY <1>2, <1>3, <1>6, <2>2
    <3>2. a + 0 = a BY <1>4
    <3>3. QED BY <2>2, <3>1, <3>2
  <2>4. ASSUME NEW d \in 0..n - 1, d \in S PROVE d + 1 \in S
    <3> DEFINE x == a + (d + 1)
    <3>1. d + 1 \in 0..n /\ x \in a..w - 1 /\ x \in 1..N /\ x # 1 /\ x - 1 = a + d
      BY <1>1, <1>2, <1>4, <2>2
    <3>2. L[a + d] \in Space BY <2>4
    <3> HIDE DEF x
    <3>3. L[x] \in Space BY <1>3, <1>6, <3>1, <3>2
    <3>4. QED BY <3>1, <3>3 DEF x
  <2>5. 0..n \subseteq S
    <3> HIDE DEF S, n
    <3>1. QED BY <2>2, <2>3, <2>4, Ascend
  <2>6. ASSUME NEW x \in a..w - 1 PROVE L[x] \in Space
    <3>1. x - a \in 0..n /\ a + (x - a) = x BY <1>4
    <3>2. x - a \in S BY <2>5, <3>1
    <3>3. L[a + (x - a)] \in Space BY <3>2
    <3>4. QED BY <3>1, <3>3
  <2>7. QED BY <2>6
<1>8. QED BY <1>5, <1>7 DEF w, W

\* Behind a word the search for the next one goes on.
LEMMA WordEnds ==
  ASSUME NEW L \in Seq(STRING), NEW i \in Nat \ {0}, i + 1 <= Cardinality(Words(L))
  PROVE  \E e \in 1..Len(L) :
           /\ At(L, i + 1, e) /\ L[e] \in Space /\ Nth(Words(L), i) <= e
           /\ \A x \in Nth(Words(L), i)..e - 1 : L[x] \notin Space
<1> DEFINE W == Words(L)
           w == Nth(W, i)
           v == Nth(W, i + 1)
           N == Len(L)
<1>0. i \in 1..Cardinality(W) /\ i + 1 \in 1..Cardinality(W)
  <2>1. Cardinality(W) \in Nat
    <3>1. N \in Nat /\ W \in SUBSET (1..N) BY DEF Words
    <3> HIDE DEF W, N
    <3>2. QED BY <3>1, BeforeStep
  <2>2. QED BY <2>1
<1>1. /\ N \in Nat /\ W \in SUBSET (1..N)
      /\ w \in W /\ w \in 1..N /\ Before(W, w) = i - 1 /\ L[w] \notin Space
  BY <1>0, WordsAre
<1>2. v \in W /\ v \in 1..N /\ Before(W, v) = i + 1 - 1
  <2> DEFINE c == i + 1
  <2>1. c \in 1..Cardinality(Words(L)) BY <1>0
  <2> HIDE DEF c
  <2>2. LET u == Nth(Words(L), c)
        IN  u \in Words(L) /\ u \in 1..Len(L) /\ Before(Words(L), u) = c - 1
    BY <2>1, WordsAre
  <2>3. QED BY <2>2 DEF c
<1>3. \A x \in 1..N : x \in W <=> L[x] \notin Space /\ (x = 1 \/ L[x - 1] \in Space) BY DEF Words
<1> HIDE DEF W, w, v, N
<1>4. w \in Nat /\ v \in Nat /\ w >= 1 BY <1>1, <1>2
<1>5. w < v
  <2>1. v <= w => Before(W, v) <= Before(W, w) BY <1>1, <1>4, BeforeGrows
  <2>2. QED BY <1>1, <1>2, <1>4, <2>1
<1>6. v # 1 /\ L[v - 1] \in Space BY <1>2, <1>3, <1>4, <1>5
<1> DEFINE T == {x \in w..v - 1 : L[x] \in Space}
           e == Min(T)
<1>7. T \in SUBSET Nat /\ v - 1 \in T BY <1>4, <1>5, <1>6
<1>8. e \in T /\ \A x \in T : e <= x
  <2> HIDE DEF T
  <2>1. QED BY <1>7, MinIs
<1> HIDE DEF e
<1>9. e \in w..v - 1 /\ L[e] \in Space BY <1>8
<1>10. e \in Nat /\ w < e /\ e < v /\ e \in 1..N BY <1>1, <1>2, <1>4, <1>9
<1>11. ASSUME NEW x \in w..e - 1 PROVE L[x] \notin Space
  <2>1. x \in w..v - 1 /\ ~(e <= x) BY <1>4, <1>10
  <2>2. x \notin T
    <3> HIDE DEF T
    <3>1. QED BY <1>8, <2>1
  <2>3. QED BY <2>1, <2>2
<1>12. Before(W, e) = i
  <2>1. Before(W, w + 1) = i - 1 + 1 BY <1>1, <1>4, BeforeStep
  <2>2. Before(W, w + 1) <= Before(W, e)
    <3>1. w + 1 \in Nat /\ w + 1 <= e BY <1>4, <1>10
    <3>2. QED BY <1>1, <1>10, <3>1, BeforeGrows
  <2>3. Before(W, e) <= Before(W, v)
    <3>1. e <= v BY <1>4, <1>10
    <3>2. QED BY <1>1, <1>4, <1>10, <3>1, BeforeGrows
  <2>4. Before(W, e) \in Nat BY <1>1, <1>10, BeforeStep
  <2>5. QED BY <1>2, <2>1, <2>2, <2>3, <2>4
<1>13. Before(W, e) = i + 1 - 1 BY <1>12
<1>14. At(L, i + 1, e) BY <1>9, <1>10, <1>13 DEF At, W, N
<1>15. w <= e BY <1>4, <1>10
<1>16. QED BY <1>9, <1>10, <1>11, <1>14, <1>15 DEF w, W, N

\* The part of a text that is a line.
Holds(f, b, L) ==
  /\ f \in Seq(STRING) /\ L \in Seq(STRING) /\ b \in Nat /\ b + Len(L) <= Len(f)
  /\ \A j \in 1..Len(L) : f[b + j] = L[j]

\* The search in the text finds the words of the line.
LEMMA FindsWord ==
  ASSUME NEW f, NEW b, NEW L, Holds(f, b, L),
         NEW i \in 1..Cardinality(Words(L)), NEW a, At(L, i, a)
  PROVE  FindNot(f, b + a, Space) = b + Nth(Words(L), i)
<1> DEFINE w == Nth(Words(L), i)
           p == b + a
           e == b + w
<1>1. /\ f \in Seq(STRING) /\ L \in Seq(STRING) /\ b \in Nat /\ Len(f) \in Nat /\ Len(L) \in Nat
      /\ b + Len(L) <= Len(f)
      /\ \A j \in 1..Len(L) : f[b + j] = L[j]
  BY DEF Holds
<1>2. a \in 1..Len(L) BY DEF At
<1>3. w \in 1..Len(L) /\ L[w] \notin Space BY <1>1, WordsAre
<1>4. a <= w /\ \A x \in a..w - 1 : L[x] \in Space BY <1>1, NextWord
<1> HIDE DEF w
<1>5. p \in Nat \ {0} /\ e \in p..Len(f) + 1 /\ f[e] \notin Space BY <1>1, <1>2, <1>3, <1>4
<1>6. ASSUME NEW y \in p..e - 1 PROVE f[y] \in Space
  <2> DEFINE x == y - b
  <2>1. x \in a..w - 1 /\ x \in 1..Len(L) /\ b + x = y BY <1>1, <1>2, <1>3
  <2> HIDE DEF x
  <2>2. f[b + x] = L[x] /\ L[x] \in Space BY <1>1, <1>4, <2>1
  <2>3. QED BY <2>1, <2>2
<1> HIDE DEF p, e
<1>7. FindNot(f, p, Space) = e BY <1>1, <1>5, <1>6, FindNotIs
<1>8. QED BY <1>7 DEF p, e, w

LEMMA SkipsWord ==
  ASSUME NEW f, NEW b, NEW L, Holds(f, b, L),
         NEW i \in Nat \ {0}, i + 1 <= Cardinality(Words(L)), NEW a, At(L, i, a)
  PROVE  \E e : At(L, i + 1, e) /\ SkipWord(f, b + a) = b + e
<1>1. /\ f \in Seq(STRING) /\ L \in Seq(STRING) /\ b \in Nat /\ Len(f) \in Nat /\ Len(L) \in Nat
      /\ b + Len(L) <= Len(f)
      /\ \A j \in 1..Len(L) : f[b + j] = L[j]
  BY DEF Holds
<1>2. i \in 1..Cardinality(Words(L))
  <2>1. Words(L) \in SUBSET (1..Len(L)) BY DEF Words
  <2>2. Cardinality(Words(L)) \in Nat BY <1>1, <2>1, BeforeStep
  <2>3. QED BY <2>2
<1> DEFINE w == Nth(Words(L), i)
<1>3. w \in 1..Len(L) BY <1>1, <1>2, WordsAre
<1>4. FindNot(f, b + a, Space) = b + w BY <1>2, FindsWord
<1>5. PICK e \in 1..Len(L) : At(L, i + 1, e) /\ L[e] \in Space /\ w <= e
                             /\ \A x \in w..e - 1 : L[x] \notin Space
  BY <1>1, WordEnds
<1> HIDE DEF w
<1> DEFINE p == b + w
           q == b + e
<1>6. p \in Nat \ {0} /\ q \in p..Len(f) + 1 /\ f[q] \in Space BY <1>1, <1>3, <1>5
<1>7. ASSUME NEW y \in p..q - 1 PROVE f[y] \notin Space
  <2> DEFINE x == y - b
  <2>1. x \in w..e - 1 /\ x \in 1..Len(L) /\ b + x = y BY <1>1, <1>3, <1>5
  <2> HIDE DEF x
  <2>2. f[b + x] = L[x] /\ L[x] \notin Space BY <1>1, <1>5, <2>1
  <2>3. QED BY <2>1, <2>2
<1>8. Find(f, p, Space) = q
  <2> HIDE DEF p, q
  <2>1. QED BY <1>1, <1>6, <1>7, FindIs
<1>9. SkipWord(f, b + a) = q BY <1>4, <1>8 DEF SkipWord
<1>10. QED BY <1>5, <1>9
\* n steps from word to word.
Walks(f, p, n, s) ==
  /\ s \in [1..n -> 1..Len(f) + 1]
  /\ \A k \in 1..n : s[k] = IF k = 1 THEN p ELSE SkipWord(f, s[k - 1])

LEMMA SkipWordRange ==
  ASSUME NEW f \in Seq(STRING), NEW p \in 1..Len(f) + 1
  PROVE  SkipWord(f, p) \in 1..Len(f) + 1
<1>1. Len(f) \in Nat /\ p \in Nat \ {0} OBVIOUS
<1>2. FindNot(f, p, Space) \in 1..Len(f) + 1 BY <1>1, FindRange
<1> DEFINE q == FindNot(f, p, Space)
<1>3. q \in Nat \ {0} BY <1>1, <1>2
<1> HIDE DEF q
<1>4. Find(f, q, Space) \in 1..Len(f) + 1 BY <1>3, FindRange
<1>5. QED BY <1>4 DEF q, SkipWord

\* There are walks of any length.
LEMMA WalkExists ==
  ASSUME NEW f \in Seq(STRING), NEW p \in 1..Len(f) + 1, NEW n \in Nat
  PROVE  \E s : Walks(f, p, n + 1, s)
<1> DEFINE S == {m \in 0..n : \E s : Walks(f, p, m + 1, s)}
<1>1. 0 \in S
  <2> DEFINE s == [k \in 1..0 + 1 |-> p]
  <2>1. s \in [1..0 + 1 -> 1..Len(f) + 1] /\ \A k \in 1..0 + 1 : k = 1 /\ s[k] = p OBVIOUS
  <2> HIDE DEF s
  <2>2. Walks(f, p, 0 + 1, s) BY <2>1 DEF Walks
  <2>3. QED BY <2>2
<1>2. ASSUME NEW m \in 0..n - 1, m \in S PROVE m + 1 \in S
  <2>1. PICK s : Walks(f, p, m + 1, s) BY <1>2
  <2> DEFINE t == [k \in 1..m + 2 |-> IF k = m + 2 THEN SkipWord(f, s[m + 1]) ELSE s[k]]
  <2>2. m \in Nat /\ m + 1 \in 1..m + 1 OBVIOUS
  <2>3. /\ s \in [1..m + 1 -> 1..Len(f) + 1]
        /\ \A k \in 1..m + 1 : s[k] = IF k = 1 THEN p ELSE SkipWord(f, s[k - 1])
    BY <2>1 DEF Walks
  <2>4. SkipWord(f, s[m + 1]) \in 1..Len(f) + 1 BY <2>2, <2>3, SkipWordRange
  <2>5. \A k \in 1..m + 2 : k # m + 2 => k \in 1..m + 1 BY <2>2
  <2>6. t \in [1..m + 2 -> 1..Len(f) + 1] BY <2>3, <2>4, <2>5
  <2>7. ASSUME NEW k \in 1..m + 2 PROVE t[k] = IF k = 1 THEN p ELSE SkipWord(f, t[k - 1])
    <3>1. CASE k = m + 2
      <4>1. k - 1 = m + 1 /\ k - 1 \in 1..m + 2 /\ k - 1 # m + 2 /\ k # 1 BY <2>2, <3>1
      <4>2. t[k] = SkipWord(f, s[m + 1]) /\ t[k - 1] = s[m + 1] BY <3>1, <4>1
      <4>3. QED BY <4>1, <4>2
    <3>2. CASE k # m + 2
      <4>1. k \in 1..m + 1 /\ (k # 1 => k - 1 \in 1..m + 2 /\ k - 1 # m + 2) BY <2>2, <3>2
      <4>2. t[k] = s[k] /\ (k # 1 => t[k - 1] = s[k - 1]) BY <3>2, <4>1
      <4>3. QED BY <2>3, <4>1, <4>2
    <3>3. QED BY <3>1, <3>2
  <2> HIDE DEF t
  <2>8. Walks(f, p, m + 2, t) BY <2>6, <2>7 DEF Walks
  <2>9. m + 1 + 1 = m + 2 /\ m + 1 \in 0..n BY <2>2
  <2>10. QED BY <2>8, <2>9
<1>3. n \in S
  <2> HIDE DEF S
  <2>1. 0..n \subseteq S BY <1>1, <1>2, Ascend
  <2>2. QED BY <2>1
<1>4. QED BY <1>3

\* Column() satisfies its recursion.
LEMMA ColumnIs ==
  ASSUME NEW f \in Seq(STRING), NEW p \in 1..Len(f) + 1, NEW c \in Nat \ {0}
  PROVE  /\ \E s : Walks(f, p, c, s) /\ Column(f, p, c) = FindNot(f, s[c], Space)
         /\ Column(f, p, c) \in 1..Len(f) + 1
<1> DEFINE skip == CHOOSE s : s = [k \in 1..c |-> IF k = 1 THEN p ELSE SkipWord(f, s[k - 1])]
<1>1. Column(f, p, c) = FindNot(f, skip[c], Space) BY DEF Column
<1> HIDE DEF skip
<1>2. PICK n \in Nat : c = n + 1
  <2>1. c - 1 \in Nat /\ c = c - 1 + 1 OBVIOUS
  <2>2. QED BY <2>1
<1>3. PICK s : Walks(f, p, c, s) BY <1>2, WalkExists
<1>4. s = [k \in 1..c |-> IF k = 1 THEN p ELSE SkipWord(f, s[k - 1])] BY <1>3 DEF Walks
<1>5. skip = [k \in 1..c |-> IF k = 1 THEN p ELSE SkipWord(f, skip[k - 1])]
  BY <1>4 DEF skip
<1>6. \A k \in 1..c : skip[k] = IF k = 1 THEN p ELSE SkipWord(f, skip[k - 1]) BY <1>5
<1> DEFINE S == {m \in 0..n : skip[m + 1] \in 1..Len(f) + 1}
<1>7. 0 \in S
  <2>1. 0 + 1 = 1 /\ 1 \in 1..c BY <1>2
  <2>2. skip[1] = p BY <1>6, <2>1
  <2>3. QED BY <2>1, <2>2
<1>8. ASSUME NEW m \in 0..n - 1, m \in S PROVE m + 1 \in S
  <2> DEFINE k == m + 1 + 1
  <2>1. k \in 1..c /\ k # 1 /\ k - 1 = m + 1 /\ m + 1 \in 0..n BY <1>2
  <2>2. skip[m + 1] \in 1..Len(f) + 1 BY <1>8
  <2> HIDE DEF k
  <2>3. skip[k] = SkipWord(f, skip[k - 1]) BY <1>6, <2>1
  <2>4. skip[k] \in 1..Len(f) + 1 BY <2>1, <2>2, <2>3, SkipWordRange
  <2>5. QED BY <2>1, <2>4 DEF k
<1>9. 0..n \subseteq S
  <2> HIDE DEF S
  <2>1. QED BY <1>7, <1>8, Ascend
<1>10. \A k \in 1..c : skip[k] \in 1..Len(f) + 1
  <2>1. ASSUME NEW k \in 1..c PROVE k - 1 \in 0..n /\ k - 1 + 1 = k BY <1>2
  <2>2. \A m \in 0..n : skip[m + 1] \in 1..Len(f) + 1 BY <1>9
  <2>3. QED BY <2>1, <2>2
<1>11. skip \in [1..c -> 1..Len(f) + 1] BY <1>5, <1>10
<1>12. Walks(f, p, c, skip) BY <1>6, <1>11 DEF Walks
<1>13. skip[c] \in Nat \ {0}
  <2>1. c \in 1..c /\ Len(f) \in Nat OBVIOUS
  <2>2. QED BY <1>10, <2>1
<1>14. FindNot(f, skip[c], Space) \in 1..Len(f) + 1 BY <1>13, FindRange
<1>15. QED BY <1>1, <1>12, <1>14

\* In a line that has the column, the search ends at its word.
LEMMA ColumnFinds ==
  ASSUME NEW f, NEW b, NEW L, Holds(f, b, L), NEW c \in 1..Cardinality(Words(L))
  PROVE  Column(f, b + 1, c) = b + Nth(Words(L), c)
<1>1. f \in Seq(STRING) /\ L \in Seq(STRING) /\ b \in Nat /\ Len(f) \in Nat /\ b + Len(L) <= Len(f)
  BY DEF Holds
<1>2. Words(L) \in SUBSET (1..Len(L)) /\ Len(L) \in Nat BY <1>1 DEF Words
<1>3. Cardinality(Words(L)) \in Nat BY <1>2, BeforeStep
<1>4. Len(L) \in Nat \ {0}
  <2>1. Nth(Words(L), c) \in 1..Len(L) BY <1>1, WordsAre
  <2>2. QED BY <1>2, <2>1
<1>5. At(L, 1, 1)
  <2>1. Before(Words(L), 1) = 1 - 1 BY <1>2, BeforeStep
  <2>2. QED BY <1>4, <2>1 DEF At
<1>6. c \in Nat \ {0} /\ b + 1 \in 1..Len(f) + 1 BY <1>1, <1>3, <1>4
<1>7. PICK s : Walks(f, b + 1, c, s) /\ Column(f, b + 1, c) = FindNot(f, s[c], Space)
  BY <1>1, <1>6, ColumnIs
<1>8. \A k \in 1..c : s[k] = IF k = 1 THEN b + 1 ELSE SkipWord(f, s[k - 1]) BY <1>7 DEF Walks
<1> DEFINE n == c - 1
           There(k) == \E a : At(L, k, a) /\ s[k] = b + a
           S == {m \in 0..n : There(m + 1)}
<1>9. n \in Nat /\ n + 1 = c BY <1>6
<1>10. 0 \in S
  <2>1. s[1] = b + 1 BY <1>6, <1>8
  <2>2. There(1) BY <1>5, <2>1
  <2>3. 0 + 1 = 1 OBVIOUS
  <2> HIDE DEF There
  <2>4. QED BY <1>9, <2>2, <2>3
<1>11. ASSUME NEW m \in 0..n - 1, m \in S PROVE m + 1 \in S
  <2> DEFINE k == m + 1
  <2>1. k \in Nat \ {0} /\ k + 1 \in 1..c /\ k + 1 # 1 /\ k + 1 - 1 = k /\ k \in 0..n
        /\ k + 1 <= Cardinality(Words(L))
    BY <1>3, <1>9
  <2>2. PICK a : At(L, k, a) /\ s[k] = b + a BY <1>11
  <2> HIDE DEF k
  <2>3. PICK e : At(L, k + 1, e) /\ SkipWord(f, b + a) = b + e BY <2>1, <2>2, SkipsWord
  <2>4. s[k + 1] = b + e BY <1>8, <2>1, <2>2, <2>3
  <2>5. There(k + 1) BY <2>3, <2>4
  <2> HIDE DEF There
  <2>6. QED BY <2>1, <2>5 DEF k
<1>12. n \in S
  <2> HIDE DEF S
  <2>1. 0..n \subseteq S BY <1>9, <1>10, <1>11, Ascend
  <2>2. QED BY <1>9, <2>1
<1>13. PICK a : At(L, c, a) /\ s[c] = b + a
  <2>1. There(n + 1) BY <1>12
  <2> HIDE DEF There, n
  <2>2. There(c) BY <1>9, <2>1
  <2>3. QED BY <2>2 DEF There
<1>14. QED BY <1>7, <1>13, FindsWord
-----------------------------------------------------------------------------
(* The jobs of a file.                                                     *)

\* How many of the first k lines are jobs.
JobsUpTo(lines, k) == Before(Jobs(lines), k + 1)

LEMMA JobsAre ==
  ASSUME NEW lines, IsFile(lines)
  PROVE  /\ Len(lines) \in Nat /\ Jobs(lines) \in SUBSET (1..Len(lines))
         /\ Cardinality(Jobs(lines)) \in Nat
         /\ JobsUpTo(lines, 0) = 0
         /\ JobsUpTo(lines, Len(lines)) = Cardinality(Jobs(lines))
         /\ \A k \in Nat : /\ JobsUpTo(lines, k) \in Nat
                           /\ JobsUpTo(lines, k) <= Cardinality(Jobs(lines))
         /\ \A k \in Nat : JobsUpTo(lines, k + 1)
                             = JobsUpTo(lines, k) + (IF k + 1 \in Jobs(lines) THEN 1 ELSE 0)
         /\ \A i \in Jobs(lines) : JobsUpTo(lines, i) = Before(Jobs(lines), i) + 1
         /\ \A i \in Jobs(lines), k \in Nat : i <= k => JobsUpTo(lines, i) <= JobsUpTo(lines, k)
<1> DEFINE S == Jobs(lines)
           N == Len(lines)
<1>1. N \in Nat /\ S \in SUBSET (1..N) BY DEF IsFile, Jobs
<1> HIDE DEF S, N
<1>2. Cardinality(S) \in Nat BY <1>1, BeforeStep
<1>3. Before(S, 0 + 1) = 0
  <2> DEFINE a == 0 + 1
  <2>1. a \in Nat /\ a <= 1 OBVIOUS
  <2> HIDE DEF a
  <2>2. Before(S, a) = 0 BY <1>1, <2>1, BeforeStep
  <2>3. QED BY <2>2 DEF a
<1>4. Before(S, N + 1) = Cardinality(S)
  <2> DEFINE a == N + 1
  <2>1. a \in Nat /\ a > N BY <1>1
  <2> HIDE DEF a
  <2>2. Before(S, a) = Cardinality(S) BY <1>1, <2>1, BeforeStep
  <2>3. QED BY <2>2 DEF a
<1>5. ASSUME NEW k \in Nat
      PROVE  /\ Before(S, k + 1) \in Nat /\ Before(S, k + 1) <= Cardinality(S)
             /\ Before(S, k + 1 + 1) = Before(S, k + 1) + (IF k + 1 \in S THEN 1 ELSE 0)
  <2> DEFINE a == k + 1
  <2>1. a \in Nat OBVIOUS
  <2> HIDE DEF a
  <2>2. /\ Before(S, a) \in Nat /\ Before(S, a) <= Cardinality(S)
        /\ Before(S, a + 1) = Before(S, a) + (IF a \in S THEN 1 ELSE 0)
    BY <1>1, <2>1, BeforeStep
  <2>3. QED BY <2>2 DEF a
<1>6. ASSUME NEW i \in S PROVE Before(S, i + 1) = Before(S, i) + 1
  <2>1. i \in Nat BY <1>1
  <2>2. QED BY <1>1, <2>1, BeforeStep
<1>7. ASSUME NEW i \in S, NEW k \in Nat, i <= k PROVE Before(S, i + 1) <= Before(S, k + 1)
  <2> DEFINE a == i + 1
             b == k + 1
  <2>1. a \in Nat /\ b \in Nat /\ a <= b BY <1>1, <1>7
  <2> HIDE DEF a, b
  <2>2. Before(S, a) <= Before(S, b) BY <1>1, <2>1, BeforeGrows
  <2>3. QED BY <2>2 DEF a, b
<1>8. QED BY <1>1, <1>2, <1>3, <1>4, <1>5, <1>6, <1>7 DEF S, N, JobsUpTo

\* Comments are no jobs.
LEMMA UncommentedCounts ==
  ASSUME NEW lines, IsFile(lines), NEW k \in 0..Len(lines), NEW j, Uncommented(lines, k, j)
  PROVE  /\ k \in Nat /\ j \in Nat /\ k <= j /\ j <= Len(lines)
         /\ JobsUpTo(lines, j) = JobsUpTo(lines, k)
         /\ \A i \in Jobs(lines) : i <= j => i <= k
         /\ j < Len(lines) => /\ j + 1 \in Jobs(lines) /\ j + 1 \in 1..Len(lines)
                              /\ JobsUpTo(lines, j + 1) = JobsUpTo(lines, k) + 1
<1>1. Len(lines) \in Nat /\ Jobs(lines) \in SUBSET (1..Len(lines)) BY JobsAre
<1>2. k \in Nat /\ j \in Nat /\ k <= j /\ j <= Len(lines) BY <1>1 DEF Uncommented
<1>3. \A i \in 1..Len(lines) : i \in Jobs(lines) <=> ~IsComment(lines[i]) BY DEF Jobs
<1>4. \A i \in k + 1..j : i \notin Jobs(lines) BY <1>1, <1>2, <1>3 DEF Uncommented
<1> DEFINE n == j - k
           S == {d \in 0..n : JobsUpTo(lines, k + d) = JobsUpTo(lines, k)}
<1>5. n \in Nat /\ k + n = j BY <1>2
<1>6. 0 \in S
  <2>1. k + 0 = k BY <1>2
  <2>2. QED BY <1>5, <2>1
<1>7. ASSUME NEW d \in 0..n - 1, d \in S PROVE d + 1 \in S
  <2> DEFINE m == k + d
  <2>1. m \in Nat /\ m + 1 \in k + 1..j /\ m + 1 = k + (d + 1) /\ d + 1 \in 0..n BY <1>2, <1>5
  <2>2. JobsUpTo(lines, m) = JobsUpTo(lines, k) BY <1>7
  <2> HIDE DEF m
  <2>3. JobsUpTo(lines, m) \in Nat
        /\ JobsUpTo(lines, m + 1) = JobsUpTo(lines, m) + (IF m + 1 \in Jobs(lines) THEN 1 ELSE 0)
    BY <2>1, JobsAre
  <2>4. JobsUpTo(lines, m + 1) = JobsUpTo(lines, k) BY <1>4, <2>1, <2>2, <2>3
  <2>5. QED BY <2>1, <2>4
<1>8. n \in S
  <2> HIDE DEF S
  <2>1. 0..n \subseteq S BY <1>5, <1>6, <1>7, Ascend
  <2>2. QED BY <1>5, <2>1
<1>9. JobsUpTo(lines, j) = JobsUpTo(lines, k) BY <1>5, <1>8
<1>10. ASSUME NEW i \in Jobs(lines), i <= j PROVE i <= k
  <2>1. i \in Nat BY <1>1
  <2>2. QED BY <1>2, <1>4, <1>10, <2>1
<1>11. ASSUME j < Len(lines)
       PROVE  /\ j + 1 \in Jobs(lines) /\ j + 1 \in 1..Len(lines)
              /\ JobsUpTo(lines, j + 1) = JobsUpTo(lines, k) + 1
  <2>1. j + 1 \in 1..Len(lines) BY <1>1, <1>2, <1>11
  <2>2. j + 1 \in Jobs(lines) BY <1>3, <1>11, <2>1 DEF Uncommented
  <2>3. JobsUpTo(lines, j + 1) = JobsUpTo(lines, j) + 1 BY <1>2, <2>2, JobsAre
  <2>4. QED BY <1>9, <2>1, <2>2, <2>3
<1>12. QED BY <1>2, <1>9, <1>10, <1>11

\* A round of the first pass.
LEMMA CountRound ==
  ASSUME NEW lines, IsFile(lines), NEW f, NEW off, Layout(lines, f, off),
         NEW k \in 0..Len(lines)
  PROVE  \E j : /\ Uncommented(lines, k, j)
                /\ j = Len(lines) => CountLine(f, off[k] + 1).eof
                /\ j < Len(lines) =>
                     /\ CountLine(f, off[k] + 1).pos = off[j + 1] + 1
                     /\ CountLine(f, off[k] + 1).eof <=> ~Terminated(lines[j + 1])
<1>1. PICK j : Uncommented(lines, k, j) /\ SkipComments(f, off[k] + 1) = off[j] + 1
  BY SkipsComments
<1>2. CountLine(f, off[k] + 1) = SkipToNextLine(f, off[j] + 1) BY <1>1 DEF CountLine
<1>3. j \in Nat /\ j <= Len(lines) /\ Len(lines) \in Nat BY <1>1, UncommentedCounts, JobsAre
<1>4. f \in Seq(STRING) /\ Len(f) \in Nat /\ off[Len(lines)] = Len(f) BY DEF Layout
<1>5. ASSUME j = Len(lines) PROVE CountLine(f, off[k] + 1).eof
  <2> DEFINE p == Len(f) + 1
  <2>1. p \in 1..Len(f) + 1 /\ p \in Nat \ {0} /\ p <= Len(f) + 1 BY <1>4
  <2>2. CountLine(f, off[k] + 1) = SkipToNextLine(f, p) BY <1>2, <1>4, <1>5
  <2> HIDE DEF p
  <2>3. Find(f, p, {"nl"}) \in 1..Len(f) + 1 /\ p <= Find(f, p, {"nl"}) BY <1>4, <2>1, FindRange
  <2>4. Find(f, p, {"nl"}) > Len(f) BY <1>4, <2>3 DEF p
  <2>5. SkipToNextLine(f, p).eof BY <2>4 DEF SkipToNextLine
  <2>6. QED BY <2>2, <2>5
<1>6. ASSUME j < Len(lines)
      PROVE  /\ CountLine(f, off[k] + 1).pos = off[j + 1] + 1
             /\ CountLine(f, off[k] + 1).eof <=> ~Terminated(lines[j + 1])
  <2> DEFINE m == j + 1
             p == off[j] + 1
  <2>1. m \in 1..Len(lines) /\ m - 1 = j BY <1>3, <1>6
  <2> HIDE DEF m
  <2>2. off[m - 1] \in Nat /\ off[m] \in Nat /\ off[m - 1] < off[m] BY <2>1, LineFacts
  <2>3. p \in Nat /\ off[m - 1] < p /\ p <= off[m] BY <2>1, <2>2
  <2> HIDE DEF p
  <2>4. /\ SkipToNextLine(f, p).pos = off[m] + 1
        /\ SkipToNextLine(f, p).eof <=> ~Terminated(lines[m])
    BY <2>1, <2>3, LineEnds
  <2>5. QED BY <1>2, <2>4 DEF m, p
<1>7. QED BY <1>1, <1>5, <1>6

\* What a round of the second pass does, from where the column is.
LEMMA ReadTimeIs ==
  ASSUME NEW f, NEW p, NEW c, NEW at, at = Column(f, SkipComments(f, p), c)
  PROVE  /\ ReadTime(f, p, c).ok <=> at <= Len(f) /\ f[at] \in DOMAIN Value
         /\ ReadTime(f, p, c).ok => ReadTime(f, p, c).time = Value[f[at]]
         /\ ReadTime(f, p, c).rest = SkipToNextLine(f, at + 1)
BY DEF ReadTime

\* A round of the second pass, when the next job has the column.
LEMMA ReadRound ==
  ASSUME NEW lines, IsFile(lines), NEW f, NEW off, Layout(lines, f, off),
         NEW k \in 0..Len(lines), NEW c \in Nat \ {0}
  PROVE  \E j : /\ Uncommented(lines, k, j)
                /\ j < Len(lines) /\ HasColumn(lines[j + 1], c) =>
                     LET read == ReadTime(f, off[k] + 1, c)
                         word == Word(lines[j + 1], c)
                     IN /\ read.ok <=> word \in DOMAIN Value
                        /\ read.ok => read.time = Value[word]
                        /\ read.rest.pos = off[j + 1] + 1
                        /\ read.rest.eof <=> ~Terminated(lines[j + 1])
<1>1. PICK j : Uncommented(lines, k, j) /\ SkipComments(f, off[k] + 1) = off[j] + 1
  BY SkipsComments
<1>2. j \in Nat /\ j <= Len(lines) /\ Len(lines) \in Nat BY <1>1, UncommentedCounts, JobsAre
<1>3. SUFFICES ASSUME j < Len(lines), HasColumn(lines[j + 1], c)
      PROVE  LET read == ReadTime(f, off[k] + 1, c)
                 word == Word(lines[j + 1], c)
             IN /\ read.ok <=> word \in DOMAIN Value
                /\ read.ok => read.time = Value[word]
                /\ read.rest.pos = off[j + 1] + 1
                /\ read.rest.eof <=> ~Terminated(lines[j + 1])
  BY <1>1
<1> DEFINE m == j + 1
           L == lines[m]
           b == off[j]
           w == Nth(Words(L), c)
           at == b + w
<1>4. m \in 1..Len(lines) /\ m - 1 = j BY <1>2, <1>3
<1>5. /\ f \in Seq(STRING) /\ Len(f) \in Nat
      /\ b \in Nat /\ off[m] \in Nat /\ off[m] <= Len(f)
      /\ L \in Seq(STRING) /\ Len(L) \in Nat /\ off[m] = b + Len(L)
      /\ \A i \in 1..Len(L) : f[b + i] = L[i]
      /\ Terminated(L) => f[off[m]] = "nl"
  <2> HIDE DEF m
  <2>1. /\ f \in Seq(STRING) /\ Len(f) \in Nat
        /\ off[m - 1] \in Nat /\ off[m] \in Nat /\ off[m] <= Len(f)
        /\ lines[m] \in Seq(STRING) /\ Len(lines[m]) \in Nat /\ off[m] = off[m - 1] + Len(lines[m])
        /\ \A i \in 1..Len(lines[m]) : f[off[m - 1] + i] = lines[m][i]
        /\ Terminated(lines[m]) => f[off[m]] = "nl"
    BY <1>4, LineFacts
  <2>2. QED BY <1>4, <2>1
<1>6. c \in 1..Cardinality(Words(L))
  <2>1. Cardinality(Words(L)) >= c BY <1>3 DEF HasColumn
  <2>2. Words(L) \in SUBSET (1..Len(L)) BY DEF Words
  <2> HIDE DEF L
  <2>3. Cardinality(Words(L)) \in Nat BY <1>5, <2>2, BeforeStep
  <2>4. QED BY <2>1, <2>3
<1>7. Holds(f, b, L) BY <1>5 DEF Holds
<1> HIDE DEF L, b, m
<1>8. w \in 1..Len(L) /\ L[w] \notin Space BY <1>5, <1>6, WordsAre
<1>9. Column(f, b + 1, c) = at BY <1>6, <1>7, ColumnFinds
<1>10. Word(L, c) = L[w] BY DEF Word
<1> HIDE DEF w
<1>11. at \in Nat /\ at <= Len(f) /\ f[at] = L[w] /\ b < at /\ at <= off[m] BY <1>5, <1>8
<1>12. at = off[m] => ~Terminated(L)
  <2>1. f[at] # "nl" BY <1>8, <1>11 DEF Space
  <2>2. QED BY <1>5, <2>1
<1> HIDE DEF at
<1> DEFINE q == at + 1
<1>13. q \in Nat /\ b < q /\ (q <= off[m] \/ (~Terminated(L) /\ q = off[m] + 1))
  BY <1>5, <1>11, <1>12
<1> HIDE DEF q
<1>14. SkipToNextLine(f, q).pos = off[m] + 1 /\ (SkipToNextLine(f, q).eof <=> ~Terminated(L))
  BY <1>4, <1>13, LineEnds DEF L, b
<1>15. at = Column(f, SkipComments(f, off[k] + 1), c) BY <1>1, <1>9 DEF b
<1> DEFINE p == off[k] + 1
<1>16. at = Column(f, SkipComments(f, p), c) BY <1>15
<1> HIDE DEF p
<1>17. /\ ReadTime(f, p, c).ok <=> at <= Len(f) /\ f[at] \in DOMAIN Value
       /\ ReadTime(f, p, c).ok => ReadTime(f, p, c).time = Value[f[at]]
       /\ ReadTime(f, p, c).rest = SkipToNextLine(f, q)
  BY <1>16, ReadTimeIs DEF q
<1>18. QED BY <1>10, <1>11, <1>14, <1>17 DEF p, L, m

\* skip_comments() stays in the text.
LEMMA SkipCommentsRange ==
  ASSUME NEW f \in Seq(STRING), NEW p \in 1..Len(f) + 1
  PROVE  SkipComments(f, p) \in 1..Len(f) + 1
<1> DEFINE n == Len(f)
           Fine(q) == SkipComments(f, q) \in 1..n + 1
           S == {d \in 0..n : \A q \in n + 1 - d..n + 1 : Fine(q)}
<1>1. n \in Nat OBVIOUS
<1>2. \A q \in 1..n + 1 :
        SkipComments(f, q) =
          IF q <= n /\ f[q] = "#" THEN SkipComments(f, SkipToNextLine(f, q + 1).pos) ELSE q
  BY SkipCommentsIs
<1>3. \A q \in 1..n : SkipToNextLine(f, q + 1).pos \in q + 1..n + 1 BY <1>1, SkipLineRange
<1> HIDE DEF n
<1>4. 0 \in S
  <2>1. \A q \in n + 1 - 0..n + 1 : q = n + 1 /\ q \in 1..n + 1 /\ ~(q <= n) BY <1>1
  <2>2. \A q \in n + 1 - 0..n + 1 : Fine(q) BY <1>2, <2>1
  <2>3. QED BY <1>1, <2>2
<1>5. ASSUME NEW d \in 0..n - 1, d \in S PROVE d + 1 \in S
  <2>1. \A q \in n + 1 - d..n + 1 : Fine(q) BY <1>5
  <2> DEFINE m == n + 1 - (d + 1)
  <2>2. m \in 1..n /\ m \in 1..n + 1 /\ m + 1 = n + 1 - d /\ d + 1 \in 0..n BY <1>1
  <2>3. \A q \in m..n + 1 : q = m \/ q \in n + 1 - d..n + 1 BY <1>1
  <2> HIDE DEF m
  <2>4. Fine(m)
    <3>1. SkipToNextLine(f, m + 1).pos \in n + 1 - d..n + 1 BY <1>3, <2>2
    <3>2. SkipComments(f, SkipToNextLine(f, m + 1).pos) \in 1..n + 1 BY <2>1, <3>1
    <3>3. QED BY <1>2, <2>2, <3>2
  <2> HIDE DEF Fine
  <2>5. \A q \in m..n + 1 : Fine(q) BY <2>1, <2>3, <2>4
  <2>6. QED BY <2>2, <2>5 DEF m
<1>6. n \in S
  <2> HIDE DEF S
  <2>1. 0..n \subseteq S BY <1>1, <1>4, <1>5, Ascend
  <2>2. QED BY <1>1, <2>1
<1>7. p \in n + 1 - n..n + 1 BY <1>1 DEF n
<1>8. Fine(p) BY <1>6, <1>7
<1>9. QED BY <1>8 DEF n

\* Wherever it starts, a round of the second pass stays in the text, and does not
\* see the end of a text that ends in a newline.
LEMMA ReadRange ==
  ASSUME NEW f \in Seq(STRING), NEW p \in 1..Len(f) + 1, NEW c \in Nat \ {0},
         ReadTime(f, p, c).ok
  PROVE  /\ ReadTime(f, p, c).rest.pos \in 1..Len(f) + 1
         /\ f[Len(f)] = "nl" => ~ReadTime(f, p, c).rest.eof
<1> DEFINE from == SkipComments(f, p)
           at == Column(f, from, c)
<1>1. Len(f) \in Nat OBVIOUS
<1>2. from \in 1..Len(f) + 1 BY SkipCommentsRange
<1> HIDE DEF from
<1>3. at \in 1..Len(f) + 1 BY <1>2, ColumnIs
<1> HIDE DEF at
<1>4. at = Column(f, SkipComments(f, p), c) BY DEF at, from
<1>5. at <= Len(f) /\ f[at] \in DOMAIN Value /\ ReadTime(f, p, c).rest = SkipToNextLine(f, at + 1)
  BY <1>4, ReadTimeIs
<1>6. f[at] # "nl" BY <1>5, ExecTimesAssumption
<1> DEFINE q == at + 1
<1>7. q \in 1..Len(f) + 1 BY <1>1, <1>3, <1>5
<1>8. f[Len(f)] = "nl" => Len(f) > 0 /\ q <= Len(f) BY <1>1, <1>3, <1>5, <1>6
<1>9. q >= 1 BY <1>7
<1> HIDE DEF q
<1>10. /\ SkipToNextLine(f, q).pos \in q..Len(f) + 1
       /\ Len(f) > 0 /\ q <= Len(f) /\ f[Len(f)] = "nl" => ~SkipToNextLine(f, q).eof
  BY <1>7, SkipLineRange
<1>11. SkipToNextLine(f, q).pos \in 1..Len(f) + 1 BY <1>1, <1>7, <1>9, <1>10
<1>12. ReadTime(f, p, c).rest = SkipToNextLine(f, q) BY <1>5 DEF q
<1>13. QED BY <1>8, <1>10, <1>11, <1>12
-----------------------------------------------------------------------------
(* The invariant of the two passes.                                        *)

\* Its last line is terminated, too; and every job has the column.
EndsProperly(lines) == lines # <<>> => Terminated(lines[Len(lines)])
Reached(lines, column) == \A i \in Jobs(lines) : HasColumn(lines[i], column)

\* The first pass is at the beginning of a line, and has counted those before.
Counted(off, k) ==
  /\ Layout(args.lines, stream.text, off) /\ k \in 0..Len(args.lines)
  /\ stream.pos = off[k] + 1
  /\ num_jobs = JobsUpTo(args.lines, k)

\* The second pass is at the beginning of a line, and has read those before.
ReadUpTo(off, k) ==
  /\ k \in 0..Len(args.lines)
  /\ stream.pos = off[k] + 1 /\ (stream.eof => k = Len(args.lines))
  /\ Len(exec_times) = JobsUpTo(args.lines, k)
  /\ \A i \in Jobs(args.lines) :
       i <= k => exec_times[JobsUpTo(args.lines, i)] = Value[Word(args.lines[i], args.column)]

\* So it is as long as the jobs have the column.  In a file that does not the
\* second pass may be anywhere, but does not reach the end of a file that ends
\* in a newline.
BeingRead(off) ==
  /\ Layout(args.lines, stream.text, off)
  /\ stream.pos \in 1..Len(stream.text) + 1
  /\ num_jobs <= Cardinality(Jobs(args.lines))
  /\ EndsProperly(args.lines) => num_jobs = Cardinality(Jobs(args.lines))
  /\ EndsProperly(args.lines) /\ args.lines # <<>> => ~stream.eof
  /\ Reached(args.lines, args.column) => \E k : ReadUpTo(off, k)

\* What the passes have found, once they are over.
FileRead ==
  /\ FromFile /\ WellFormed(args.lines, args.column) =>
       pc \notin {"invalid", "aborted"} /\ exec_times = TimesIn(args.lines, args.column)
  /\ pc = "aborted" =>
       ~Reached(args.lines, args.column) /\ ~EndsProperly(args.lines)

ArgsFile == IsFile(args.lines) /\ args.column \in Nat \ {0}
StreamType ==
  /\ stream.text \in Seq(STRING)
  /\ stream = [text |-> stream.text, pos |-> stream.pos, eof |-> stream.eof]

\* The invariant of get_exec_times(): where each pass is and what it has seen.
FileInv ==
  /\ ArgsFile
  /\ pc = "args" => num_jobs = 0
  /\ pc \in {"count", "read"} => StreamType
  /\ pc = "count" => \E off, k : Counted(off, k)
  /\ pc = "read" => \E off : BeingRead(off)
  /\ pc \notin {"args", "count", "read"} => FileRead

LEMMA InitFileInv == Init => FileInv
<1> SUFFICES ASSUME Init PROVE FileInv OBVIOUS
<1>1. pc = "args" /\ num_jobs = 0 BY DEF Init
<1>2. (args.lines = <<>> /\ args.column = 1) \/ (args.lines \in Files /\ args.column \in Columns)
  BY DEF Init
<1>3. args.column \in Nat \ {0}
  <2>1. Columns \subseteq Nat \ {0} BY SpinJobsAssumption
  <2>2. QED BY <1>2, <2>1
<1>4. IsFile(args.lines)
  <2>1. CASE args.lines = <<>>
    <3>1. Len(<<>>) = 0 /\ <<>> \in Seq(Seq(STRING)) OBVIOUS
    <3>2. QED BY <2>1, <3>1 DEF IsFile
  <2>2. CASE args.lines \in Files
    <3>1. PICK n \in 1..MaxLines : args.lines \in [1..n -> Lines] BY <2>2 DEF Files
    <3>2. \A i \in 1..Len(args.lines) - 1 : Terminated(args.lines[i]) BY <2>2 DEF Files
    <3>3. n \in Nat BY <3>1
    <3>4. \A line \in Lines : IsLine(line) BY SpinJobsAssumption
    <3>5. Lines \subseteq Seq(STRING) BY <3>4 DEF IsLine
    <3> DEFINE lines == args.lines
    <3>6. lines \in [1..n -> Seq(STRING)] BY <3>1, <3>5
    <3>7. lines \in Seq(Seq(STRING)) /\ Len(lines) = n
      <4> HIDE DEF lines
      <4>1. QED BY <3>3, <3>6
    <3>8. \A i \in 1..Len(lines) : IsLine(lines[i]) BY <3>1, <3>4, <3>7
    <3>9. \A i \in 1..Len(lines) : i < Len(lines) => i \in 1..Len(lines) - 1 BY <3>3, <3>7
    <3>10. QED BY <3>2, <3>7, <3>8, <3>9 DEF IsFile
  <2>3. QED BY <1>2, <2>1, <2>2
<1>5. QED BY <1>1, <1>3, <1>4 DEF FileInv, ArgsFile

\* What a file that is well formed is.
LEMMA WellFormedIs ==
  ASSUME NEW lines, IsFile(lines), NEW column, WellFormed(lines, column)
  PROVE  /\ EndsProperly(lines) /\ Reached(lines, column)
         /\ \A i \in Jobs(lines) : Word(lines[i], column) \in DOMAIN Value
<1>1. lines \in Seq(Seq(STRING)) BY DEF IsFile
<1>2. lines # <<>> => Len(lines) \in 1..Len(lines) BY <1>1
<1>3. EndsProperly(lines) BY <1>2 DEF EndsProperly, WellFormed
<1>4. \A i \in Jobs(lines) : i \in 1..Len(lines) /\ ~IsComment(lines[i]) BY DEF Jobs
<1>5. QED BY <1>3, <1>4 DEF Reached, WellFormed

\* A file that ends properly has only lines that do.
LEMMA AllTerminated ==
  ASSUME NEW lines, IsFile(lines), EndsProperly(lines), NEW i \in 1..Len(lines)
  PROVE  Terminated(lines[i])
<1>1. lines \in Seq(Seq(STRING)) /\ (i < Len(lines) => Terminated(lines[i])) BY DEF IsFile
<1>2. lines # <<>> BY <1>1
<1>3. Terminated(lines[Len(lines)]) BY <1>2 DEF EndsProperly
<1>4. i < Len(lines) \/ i = Len(lines) BY <1>1
<1>5. QED BY <1>1, <1>3, <1>4

LEMMA StartKeepsFile ==
  ASSUME FileInv, Start
  PROVE  FileInv'
<1>1. pc = "args" /\ args' = args /\ num_jobs' = num_jobs /\ num_jobs = 0 BY DEF Start, FileInv
<1>2. ArgsFile' BY <1>1 DEF FileInv, ArgsFile
<1>3. CASE FromFile
  <2>1. pc' = "count" /\ stream' = Open(Lists!FlattenSeq(args.lines)) BY <1>3 DEF Start
  <2>2. IsFile(args.lines) BY DEF FileInv, ArgsFile
  <2>3. args.lines \in Seq(Seq(STRING)) BY <2>2 DEF IsFile
  <2>4. PICK off : Layout(args.lines, Lists!FlattenSeq(args.lines), off) BY <2>3, LayoutExists
  <2>5. stream'.text = Lists!FlattenSeq(args.lines) /\ stream'.pos = 1 BY <2>1 DEF Open
  <2>6. StreamType' BY <2>1, <2>4 DEF Open, StreamType, Layout
  <2>7. off[0] = 0 /\ JobsUpTo(args.lines, 0) = 0 /\ 0 \in 0..Len(args.lines)
    <3>1. off[0] = 0 BY <2>4 DEF Layout
    <3>2. Len(args.lines) \in Nat /\ JobsUpTo(args.lines, 0) = 0 BY <2>2, JobsAre
    <3>3. QED BY <3>1, <3>2
  <2>8. Counted(off, 0)' BY <1>1, <2>4, <2>5, <2>7 DEF Counted
  <2>9. QED BY <1>2, <2>1, <2>6, <2>8 DEF FileInv
<1>4. CASE ~FromFile
  <2>1. pc' = "job" /\ ~FromFile' BY <1>1, <1>4 DEF Start, StartJobs, FromFile
  <2>2. FileRead' BY <2>1 DEF FileRead
  <2>3. QED BY <1>2, <2>1, <2>2 DEF FileInv
<1>5. QED BY <1>3, <1>4

\* The first pass goes from line to line, and counts each job.
LEMMA CountKeepsFile ==
  ASSUME TypeInv, FileInv, CountJobs
  PROVE  FileInv'
<1> DEFINE lines == args.lines
           n == Len(lines)
           f == stream.text
           line == CountLine(f, stream.pos)
<1>1. pc = "count" /\ args' = args /\ exec_times' = exec_times /\ exec_times = <<>>
  BY DEF CountJobs, TypeInv, Stages
<1>2. ArgsFile' BY <1>1 DEF FileInv, ArgsFile
<1>3. IsFile(lines) /\ StreamType BY <1>1 DEF FileInv, ArgsFile
<1>4. PICK off, k : Counted(off, k) BY <1>1 DEF FileInv
<1>5. /\ Layout(lines, f, off) /\ k \in 0..n
      /\ stream.pos = off[k] + 1 /\ num_jobs = JobsUpTo(lines, k)
  BY <1>4 DEF Counted
<1>6. n \in Nat /\ Cardinality(Jobs(lines)) \in Nat BY <1>3, JobsAre
<1> HIDE DEF lines, f, line
<1>7. PICK j : /\ Uncommented(lines, k, j)
               /\ j = n => line.eof
               /\ j < n => line.pos = off[j + 1] + 1 /\ (line.eof <=> ~Terminated(lines[j + 1]))
  BY <1>3, <1>5, CountRound DEF line
<1>8. /\ k \in Nat /\ j \in Nat /\ j <= n
      /\ JobsUpTo(lines, j) = JobsUpTo(lines, k)
      /\ j < n => j + 1 \in 1..n /\ JobsUpTo(lines, j + 1) = JobsUpTo(lines, k) + 1
  BY <1>3, <1>5, <1>7, UncommentedCounts
<1>9. CASE line.eof
  <2>1. pc' = "read" /\ stream' = Open(f) /\ num_jobs' = num_jobs
    BY <1>9 DEF CountJobs, line, f
  <2>2. f \in Seq(STRING) /\ Len(f) \in Nat /\ off[0] = 0 BY <1>5 DEF Layout
  <2>3. stream'.text = f /\ stream'.pos = 1 /\ stream'.eof = FALSE /\ StreamType'
    BY <2>1, <2>2 DEF Open, StreamType
  <2>4. num_jobs' <= Cardinality(Jobs(lines)) BY <1>3, <1>5, <1>8, <2>1, JobsAre
  <2>5. ASSUME EndsProperly(lines) PROVE num_jobs' = Cardinality(Jobs(lines))
    <3>1. j = n
      <4>1. j < n => Terminated(lines[j + 1]) BY <1>3, <1>8, <2>5, AllTerminated
      <4>2. QED BY <1>6, <1>7, <1>8, <1>9, <4>1
    <3>2. JobsUpTo(lines, n) = Cardinality(Jobs(lines)) BY <1>3, JobsAre
    <3>3. QED BY <1>5, <1>8, <2>1, <3>1, <3>2
  <2>6. ReadUpTo(off, 0)'
    <3>1. 0 \in 0..n /\ JobsUpTo(lines, 0) = 0 /\ Len(exec_times') = 0
      BY <1>1, <1>3, <1>6, JobsAre
    <3>2. \A i \in Jobs(lines) : ~(i <= 0)
      <4>1. Jobs(lines) \in SUBSET (1..n) BY <1>3, JobsAre
      <4>2. QED BY <1>6, <4>1
    <3>3. stream'.pos = off[0] + 1 /\ ~stream'.eof BY <2>2, <2>3
    <3>4. QED BY <1>1, <3>1, <3>2, <3>3 DEF ReadUpTo, lines
  <2>7. BeingRead(off)'
    <3>1. /\ Layout(lines, stream'.text, off)
          /\ stream'.pos \in 1..Len(stream'.text) + 1 /\ ~stream'.eof
      BY <1>5, <2>2, <2>3
    <3>2. QED BY <1>1, <2>4, <2>5, <2>6, <3>1 DEF BeingRead, lines
  <2>8. QED BY <1>2, <2>1, <2>3, <2>7 DEF FileInv
<1>10. CASE ~line.eof
  <2>1. pc' = "count" /\ stream' = SkippedTo(line) /\ num_jobs' = num_jobs + 1
    BY <1>1, <1>10 DEF CountJobs, line, f
  <2>2. j < n BY <1>6, <1>7, <1>8, <1>10
  <2>3. stream'.text = f /\ stream'.pos = off[j + 1] + 1 /\ StreamType'
    BY <1>3, <1>7, <2>1, <2>2 DEF SkippedTo, StreamType, f
  <2>4. j + 1 \in 0..n /\ num_jobs' = JobsUpTo(lines, j + 1) BY <1>5, <1>8, <2>1, <2>2
  <2>5. Layout(lines, stream'.text, off) BY <1>5, <2>3
  <2>6. Counted(off, j + 1)' BY <1>1, <2>3, <2>4, <2>5 DEF Counted, lines
  <2>7. QED BY <1>2, <2>1, <2>3, <2>6 DEF FileInv
<1>11. QED BY <1>9, <1>10

\* Where the next job has the column, its time is read.
LEMMA ReadsNext ==
  ASSUME TypeInv, FileInv, ReadJob, NEW off, BeingRead(off), NEW k, ReadUpTo(off, k),
         Reached(args.lines, args.column)
  PROVE  LET read == ReadTime(stream.text, stream.pos, args.column) IN
           /\ WellFormed(args.lines, args.column) => read.ok
           /\ read.ok => \E l : ReadUpTo(off, l)'
<1> DEFINE lines == args.lines
           column == args.column
           n == Len(lines)
           f == stream.text
           read == ReadTime(f, stream.pos, column)
<1>1. /\ args' = args /\ num_jobs' = num_jobs /\ Len(exec_times) < num_jobs /\ ~stream.eof
      /\ read.ok => exec_times' = Append(exec_times, read.time) /\ stream' = SkippedTo(read.rest)
      /\ exec_times \in Seq(Nat) /\ num_jobs \in Nat /\ pc = "read"
  BY DEF ReadJob, ReadsOn, TypeInv, Fields
<1>2. /\ IsFile(lines) /\ column \in Nat \ {0} /\ StreamType BY <1>1 DEF FileInv, ArgsFile
<1>3. /\ Layout(lines, f, off) /\ num_jobs <= Cardinality(Jobs(lines))
      /\ k \in 0..n /\ stream.pos = off[k] + 1
      /\ Len(exec_times) = JobsUpTo(lines, k)
      /\ \A i \in Jobs(lines) :
           i <= k => exec_times[JobsUpTo(lines, i)] = Value[Word(lines[i], column)]
  BY DEF BeingRead, ReadUpTo
<1>4. /\ n \in Nat /\ Cardinality(Jobs(lines)) \in Nat
      /\ JobsUpTo(lines, n) = Cardinality(Jobs(lines))
      /\ Jobs(lines) \in SUBSET (1..n)
  BY <1>2, JobsAre
<1>5. Reached(lines, column) OBVIOUS
<1> DEFINE Round(j) == j < n /\ HasColumn(lines[j + 1], column) =>
                         LET word == Word(lines[j + 1], column)
                         IN /\ read.ok <=> word \in DOMAIN Value
                            /\ read.ok => read.time = Value[word]
                            /\ read.rest.pos = off[j + 1] + 1
                            /\ read.rest.eof <=> ~Terminated(lines[j + 1])
<1>6. PICK j : Uncommented(lines, k, j) /\ Round(j)
  <2> HIDE DEF lines, f, column
  <2>1. read = ReadTime(f, off[k] + 1, column) BY <1>3
  <2>2. QED BY <1>2, <1>3, <2>1, ReadRound
<1> HIDE DEF lines, column, f, read
<1>7. /\ k \in Nat /\ j \in Nat /\ j <= n
      /\ JobsUpTo(lines, j) = JobsUpTo(lines, k)
      /\ \A i \in Jobs(lines) : i <= j => i <= k
      /\ j < n => /\ j + 1 \in Jobs(lines) /\ j + 1 \in 1..n
                  /\ JobsUpTo(lines, j + 1) = JobsUpTo(lines, k) + 1
  BY <1>2, <1>3, <1>6, UncommentedCounts
<1>8. j < n
  <2>1. j # n BY <1>1, <1>3, <1>4, <1>7
  <2>2. QED BY <1>4, <1>7, <2>1
<1> DEFINE m == j + 1
           word == Word(lines[m], column)
<1>9. /\ m \in Jobs(lines) /\ m \in 1..n /\ m \in Nat
      /\ JobsUpTo(lines, m) = JobsUpTo(lines, k) + 1
  BY <1>7, <1>8
<1>10. HasColumn(lines[m], column) BY <1>5, <1>9 DEF Reached
<1>11. /\ read.ok <=> word \in DOMAIN Value
       /\ read.ok => read.time = Value[word]
       /\ read.rest.pos = off[m] + 1
       /\ read.rest.eof <=> ~Terminated(lines[m])
  BY <1>6, <1>8, <1>10
<1>12. \A i \in Jobs(lines) : i <= m => i = m \/ i <= k
  <2>1. ASSUME NEW i \in Jobs(lines), i <= m, i # m PROVE i <= k
    <3>1. i \in Nat /\ i <= j BY <1>4, <1>7, <2>1
    <3>2. QED BY <1>7, <3>1
  <2>2. QED BY <2>1
<1> HIDE DEF m, word
<1>13. WellFormed(lines, column) => read.ok
  <2>1. WellFormed(lines, column) => word \in DOMAIN Value BY <1>2, <1>9, WellFormedIs DEF word
  <2>2. QED BY <1>11, <2>1
<1>14. ASSUME read.ok PROVE ReadUpTo(off, m)'
  <2>1. exec_times' = Append(exec_times, read.time) /\ stream' = SkippedTo(read.rest)
    BY <1>1, <1>14
  <2>2. stream'.pos = read.rest.pos /\ stream'.eof = read.rest.eof
    BY <1>2, <2>1 DEF SkippedTo, StreamType
  <2>3. stream'.eof => m = n
    <3>1. m < n => Terminated(lines[m]) BY <1>2, <1>9 DEF IsFile
    <3>2. QED BY <1>4, <1>9, <1>11, <2>2, <3>1
  <2>4. read.time \in Nat BY ReadType DEF read
  <2>5. /\ Len(exec_times') = Len(exec_times) + 1
        /\ exec_times'[Len(exec_times) + 1] = read.time
        /\ \A i \in 1..Len(exec_times) : exec_times'[i] = exec_times[i]
    BY <1>1, <2>1, <2>4
  <2>6. Len(exec_times') = JobsUpTo(lines, m) BY <1>3, <1>9, <2>5
  <2>7. ASSUME NEW i \in Jobs(lines), i <= m
        PROVE  exec_times'[JobsUpTo(lines, i)] = Value[Word(lines[i], column)]
    <3>1. CASE i = m BY <1>3, <1>9, <1>11, <1>14, <2>5, <3>1 DEF word
    <3>2. CASE i <= k
      <4>1. JobsUpTo(lines, i) \in 1..Len(exec_times)
        <5>1. /\ JobsUpTo(lines, i) = Before(Jobs(lines), i) + 1
              /\ JobsUpTo(lines, i) <= JobsUpTo(lines, k)
          BY <1>2, <1>7, <3>2, JobsAre
        <5>2. i \in Nat BY <1>4
        <5>3. Before(Jobs(lines), i) \in Nat
          <6> HIDE DEF n
          <6>1. QED BY <1>4, <5>2, BeforeStep
        <5>4. JobsUpTo(lines, k) \in Nat BY <1>2, <1>7, JobsAre
        <5>5. QED BY <1>3, <5>1, <5>3, <5>4
      <4>2. exec_times[JobsUpTo(lines, i)] = Value[Word(lines[i], column)] BY <1>3, <3>2
      <4>3. QED BY <2>5, <4>1, <4>2
    <3>3. QED BY <1>12, <2>7, <3>1, <3>2
  <2>8. m \in 0..n /\ stream'.pos = off[m] + 1 BY <1>9, <1>11, <2>2
  <2>9. QED BY <1>1, <2>3, <2>6, <2>7, <2>8 DEF ReadUpTo, lines, column
<1>15. QED BY <1>13, <1>14 DEF lines, column, read, f

LEMMA ReadKeepsFile ==
  ASSUME TypeInv, FileInv, ReadJob
  PROVE  FileInv'
<1> DEFINE lines == args.lines
           column == args.column
           f == stream.text
           read == ReadTime(f, stream.pos, column)
<1>1. /\ pc = "read" /\ args' = args /\ num_jobs' = num_jobs
      /\ read.ok => /\ exec_times' = Append(exec_times, read.time)
                    /\ stream' = SkippedTo(read.rest) /\ pc' = "read"
      /\ ~read.ok => pc' = "invalid" /\ exec_times' = exec_times /\ stream' = stream
  BY DEF ReadJob
<1>2. ArgsFile' BY <1>1 DEF FileInv, ArgsFile
<1>3. IsFile(lines) /\ column \in Nat \ {0} /\ StreamType BY <1>1 DEF FileInv, ArgsFile
<1>4. PICK off : BeingRead(off) BY <1>1 DEF FileInv
<1>5. CASE read.ok
  <2>1. pc' = "read" /\ stream' = SkippedTo(read.rest) BY <1>1, <1>5
  <2>2. /\ stream'.text = f /\ stream'.pos = read.rest.pos /\ stream'.eof = read.rest.eof
        /\ StreamType'
    BY <1>3, <2>1 DEF SkippedTo, StreamType
  <2>3. /\ Layout(lines, f, off) /\ f \in Seq(STRING) /\ stream.pos \in 1..Len(f) + 1
    BY <1>4 DEF BeingRead, Layout
  <2>4. read.rest.pos \in 1..Len(f) + 1 /\ (f[Len(f)] = "nl" => ~read.rest.eof)
    <3> DEFINE p == stream.pos
    <3> HIDE DEF p, f, column
    <3>1. p \in 1..Len(f) + 1 /\ read = ReadTime(f, p, column) BY <2>3 DEF p
    <3>2. QED BY <1>3, <1>5, <2>3, <3>1, ReadRange
  <2>5. EndsProperly(lines) /\ lines # <<>> => f[Len(f)] = "nl"
    <3> DEFINE n == Len(lines)
    <3>1. lines # <<>> => n \in 1..n BY <1>3 DEF IsFile
    <3> HIDE DEF n
    <3>2. lines # <<>> => (Terminated(lines[n]) => f[off[n]] = "nl")
      <4> HIDE DEF lines, f
      <4>1. lines # <<>> => n \in 1..Len(lines) BY <3>1 DEF n
      <4>2. QED BY <1>3, <2>3, <4>1, LineFacts
    <3>3. off[n] = Len(f) BY <2>3 DEF Layout, n
    <3>4. QED BY <3>2, <3>3 DEF EndsProperly, n
  <2>6. Reached(lines, column) => \E k : ReadUpTo(off, k)'
    <3>1. SUFFICES ASSUME Reached(lines, column) PROVE \E k : ReadUpTo(off, k)' OBVIOUS
    <3>2. PICK k : ReadUpTo(off, k) BY <1>4, <3>1 DEF BeingRead
    <3>3. QED BY <1>4, <1>5, <3>1, <3>2, ReadsNext
  <2>7. /\ num_jobs <= Cardinality(Jobs(lines))
        /\ EndsProperly(lines) => num_jobs = Cardinality(Jobs(lines))
    BY <1>4 DEF BeingRead
  <2>8. BeingRead(off)'
    <3> HIDE DEF f, read
    <3>1. QED BY <1>1, <2>2, <2>3, <2>4, <2>5, <2>6, <2>7 DEF BeingRead
  <2>9. QED BY <1>2, <2>1, <2>2, <2>8 DEF FileInv
<1>6. CASE ~read.ok
  <2>1. ~WellFormed(lines, column)
    <3>1. SUFFICES ASSUME WellFormed(lines, column) PROVE FALSE OBVIOUS
    <3>2. Reached(lines, column) BY <1>3, <3>1, WellFormedIs
    <3>3. PICK k : ReadUpTo(off, k) BY <1>4, <3>2 DEF BeingRead
    <3>4. read.ok BY <1>4, <3>1, <3>2, <3>3, ReadsNext
    <3>5. QED BY <1>6, <3>4
  <2>2. FileRead' BY <1>1, <1>6, <2>1 DEF FileRead
  <2>3. QED BY <1>1, <1>2, <1>6, <2>2 DEF FileInv
<1>7. QED BY <1>5, <1>6

\* When every job is read, the times are those in the file.
LEMMA TimesAre ==
  ASSUME NEW lines, IsFile(lines), NEW column, NEW times \in Seq(Nat),
         Len(times) = Cardinality(Jobs(lines)),
         \A i \in Jobs(lines) : times[JobsUpTo(lines, i)] = Value[Word(lines[i], column)]
  PROVE  times = TimesIn(lines, column)
<1> DEFINE S == Jobs(lines)
           n == Len(lines)
<1>1. n \in Nat /\ S \in SUBSET (1..n) BY JobsAre
<1>2. ASSUME NEW c \in 1..Cardinality(S)
      PROVE  times[c] = Value[Word(lines[Nth(S, c)], column)]
  <2>1. Nth(S, c) \in S /\ Before(S, Nth(S, c)) = c - 1
    <3> HIDE DEF S, n
    <3>1. QED BY <1>1, NthIs
  <2>2. JobsUpTo(lines, Nth(S, c)) = Before(S, Nth(S, c)) + 1 BY <2>1, JobsAre
  <2>3. Cardinality(S) \in Nat BY JobsAre
  <2>4. c - 1 + 1 = c BY <2>3
  <2>5. QED BY <2>1, <2>2, <2>4
<1>3. times = [c \in 1..Len(times) |-> times[c]] OBVIOUS
<1>4. TimesIn(lines, column)
        = [c \in 1..Cardinality(S) |-> Value[Word(lines[Nth(S, c)], column)]]
  BY DEF TimesIn
<1> HIDE DEF S
<1>5. QED BY <1>2, <1>3, <1>4 DEF S

\* The assertion behind the second pass.
LEMMA EndKeepsFile ==
  ASSUME TypeInv, FileInv, ReadEnds
  PROVE  FileInv'
<1> DEFINE lines == args.lines
           column == args.column
           n == Len(lines)
           S == Jobs(lines)
<1>1. /\ pc = "read" /\ args' = args /\ exec_times' = exec_times /\ num_jobs' = num_jobs
      /\ pc' = IF Len(exec_times) = num_jobs THEN "sum" ELSE "aborted"
      /\ ~(Len(exec_times) < num_jobs) \/ stream.eof
  BY DEF ReadEnds, ReadsOn, reading
<1>2. ArgsFile' BY <1>1 DEF FileInv, ArgsFile
<1>3. IsFile(lines) BY DEF FileInv, ArgsFile
<1>4. PICK off : BeingRead(off) BY <1>1 DEF FileInv
<1>5. /\ num_jobs <= Cardinality(S)
      /\ EndsProperly(lines) => num_jobs = Cardinality(S)
      /\ EndsProperly(lines) /\ lines # <<>> => ~stream.eof
      /\ Reached(lines, column) => \E k : ReadUpTo(off, k)
  BY <1>4 DEF BeingRead
<1>6. /\ exec_times \in Seq(Nat) /\ num_jobs \in Nat /\ Len(exec_times) \in Nat
      /\ Len(exec_times) <= num_jobs
  BY DEF TypeInv, Fields, Stages
<1>7. /\ n \in Nat /\ S \in SUBSET (1..n) /\ Cardinality(S) \in Nat
      /\ JobsUpTo(lines, n) = Cardinality(S)
  BY <1>3, JobsAre
<1>8. ASSUME Len(exec_times) # num_jobs
      PROVE  ~EndsProperly(lines) /\ ~Reached(lines, column)
  <2>1. stream.eof BY <1>1, <1>6, <1>8
  <2>2. ~EndsProperly(lines)
    <3>1. lines = <<>> => Cardinality(S) = 0
      <4>1. lines = <<>> => S = {} BY DEF Jobs
      <4>2. QED BY <4>1, FS_EmptySet
    <3>2. QED BY <1>5, <1>6, <1>8, <2>1, <3>1
  <2>3. ~Reached(lines, column)
    <3>1. ASSUME NEW k, ReadUpTo(off, k) PROVE FALSE
      <4>1. k = n /\ Len(exec_times) = JobsUpTo(lines, k) BY <2>1, <3>1 DEF ReadUpTo
      <4>2. QED BY <1>5, <1>6, <1>7, <1>8, <4>1
    <3>2. QED BY <1>5, <3>1
  <2>4. QED BY <2>2, <2>3
<1>9. ASSUME WellFormed(lines, column)
      PROVE  Len(exec_times) = num_jobs /\ exec_times = TimesIn(lines, column)
  <2>1. EndsProperly(lines) /\ Reached(lines, column) BY <1>3, <1>9, WellFormedIs
  <2>2. Len(exec_times) = num_jobs /\ num_jobs = Cardinality(S) BY <1>5, <1>8, <2>1
  <2>3. PICK k : ReadUpTo(off, k) BY <1>5, <2>1
  <2>4. /\ k \in 0..n /\ Len(exec_times) = JobsUpTo(lines, k)
        /\ \A i \in S : i <= k => exec_times[JobsUpTo(lines, i)] = Value[Word(lines[i], column)]
    BY <2>3 DEF ReadUpTo
  <2>5. ASSUME NEW i \in S PROVE i <= k
    <3>1. i \in Nat /\ k \in Nat BY <1>7, <2>4
    <3>2. ~(k + 1 <= i)
      <4> DEFINE b == k + 1
      <4>1. b \in Nat BY <3>1
      <4> HIDE DEF b, S, n
      <4>2. b <= i => Before(S, b) <= Before(S, i) BY <1>7, <3>1, <4>1, BeforeGrows
      <4>3. /\ Before(S, i) \in Nat /\ Before(S, b) \in Nat
            /\ Before(S, i + 1) = Before(S, i) + 1 /\ i + 1 \in Nat
        BY <1>7, <3>1, <4>1, BeforeStep
      <4>4. Before(S, i + 1) <= Cardinality(S)
        <5> DEFINE a == i + 1
        <5>1. a \in Nat BY <4>3
        <5> HIDE DEF a
        <5>2. Before(S, a) <= Cardinality(S) BY <1>7, <5>1, BeforeStep
        <5>3. QED BY <5>2 DEF a
      <4>5. Before(S, b) = Cardinality(S) BY <2>2, <2>4 DEF JobsUpTo, S, b
      <4>6. ~(b <= i) BY <1>7, <4>2, <4>3, <4>4, <4>5
      <4>7. QED BY <4>6 DEF b
    <3>3. QED BY <3>1, <3>2
  <2>6. exec_times = TimesIn(lines, column)
    <3>1. \A i \in Jobs(lines) : exec_times[JobsUpTo(lines, i)] = Value[Word(lines[i], column)]
      BY <2>4, <2>5
    <3> HIDE DEF lines, column
    <3>2. QED BY <1>3, <1>6, <2>2, <3>1, TimesAre
  <2>7. QED BY <2>2, <2>6
<1>10. FileRead' BY <1>1, <1>8, <1>9 DEF FileRead
<1>11. QED BY <1>1, <1>2, <1>10 DEF FileInv

\* What is read is not touched any more.
LEMMA NextFileInv == TypeInv /\ FileInv /\ [Next]_vars => FileInv'
<1> SUFFICES ASSUME TypeInv, FileInv, [Next]_vars PROVE FileInv' OBVIOUS
<1>1. ASSUME UNCHANGED <<args, reading>>, pc \in {"sum", "job", "loop"},
             pc' \in {"sum", "job", "loop", "done"}
      PROVE  FileInv'
  <2>1. args' = args /\ exec_times' = exec_times BY <1>1 DEF reading
  <2>2. FileRead' BY <1>1, <2>1 DEF FileInv, FileRead, FromFile
  <2>3. QED BY <1>1, <2>1, <2>2 DEF FileInv, ArgsFile
<1>2. CASE Start BY <1>2, StartKeepsFile
<1>3. CASE CountJobs BY <1>3, CountKeepsFile
<1>4. CASE ReadJob BY <1>4, ReadKeepsFile
<1>5. CASE ReadEnds BY <1>5, EndKeepsFile
<1>6. CASE AddTime BY <1>1, <1>6 DEF AddTime
<1>7. CASE AddPeriods BY <1>1, <1>7 DEF AddPeriods, StartJobs
<1>8. CASE JobStart BY <1>1, <1>8 DEF JobStart
<1>9. CASE JobRefused BY <1>1, <1>9 DEF JobRefused
<1>10. CASE FileEnds BY <1>1, <1>10 DEF FileEnds
<1>11. CASE LoopOnce BY <1>1, <1>11 DEF LoopOnce
<1>12. CASE LoopEnds BY <1>1, <1>12 DEF LoopEnds
<1>13. CASE SleepNextPeriod BY <1>1, <1>13 DEF SleepNextPeriod
<1>14. CASE UNCHANGED vars
  BY <1>14
  DEF vars, reading, FileInv, ArgsFile, StreamType, Counted, BeingRead, ReadUpTo, FileRead,
      FromFile
<1>15. QED
  BY <1>2, <1>3, <1>4, <1>5, <1>6, <1>7, <1>8, <1>9, <1>10, <1>11, <1>12, <1>13, <1>14 DEF Next

LEMMA FileReadIs == FileInv => ReadsFile
<1> SUFFICES ASSUME FileInv PROVE ReadsFile OBVIOUS
<1>1. pc = "aborted" \/ pc \notin {"args", "count", "read"} => FileRead BY DEF FileInv
<1>2. ~Reached(args.lines, args.column) =>
        \E i \in Jobs(args.lines) : ~HasColumn(args.lines[i], args.column)
  BY DEF Reached
<1>3. QED BY <1>1, <1>2 DEF FileRead, ReadsFile, EndsProperly

\* ReadsFile: both passes of get_exec_times() see the same jobs in any file, and
\* read each at its place, whatever its lines, its comments and its column.
THEOREM FileIsRead == Spec => []ReadsFile
<1>1. QED BY InitTypes, NextTypes, InitFileInv, NextFileInv, FileReadIs, PTL DEF Spec
=============================================================================
