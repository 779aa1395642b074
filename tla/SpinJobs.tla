------------------------------ MODULE SpinJobs ------------------------------
(***************************************************************************)
(* The jobs of the spinning programs, from the execution-time file to the  *)
(* end of the program: rtspin (with and without -f, with and without -X),  *)
(* ca_spin (which ca_spinwrite and cpu_spin are copies of), ca_spin_v2,    *)
(* ca_thrash and rtspin_cache, with the check of the cache partitions.     *)
(* Time is counted in ticks: wall is wctime(), what a loop has used is     *)
(* cputime().  Preemption and waiting for a lock only let wall pass.       *)
(***************************************************************************)
EXTENDS ExecTimes

Lists == INSTANCE SequencesExt

CONSTANTS
  Programs,   \* the programs that are started
  Lines,      \* the lines that files are made of
  Columns,    \* values of -o
  MaxLines,   \* bounds the length of a file
  Wcet, Period, Duration,
  CsLengths,  \* lengths of a critical section; 0 when there is none
  Scales,     \* values of -s
  Second,     \* ticks in a second, the grace of loop_for()
  LoopTimes,  \* what loop_once() may take
  MaxDelay,   \* bounds preemption and waiting in a job
  Loops,      \* -l, and for ca_spin_v2 -L
  Masks,      \* the cache partitions a job may be given
  Param       \* how many it asks for

ASSUME SpinJobsAssumption ==
  /\ Programs \subseteq {"rtspin", "rtspin -f", "ca_spin", "ca_spin_v2", "ca_thrash", "rtspin_cache"}
  /\ {Wcet, Period, Duration, Second, MaxDelay, Loops, MaxLines, Param} \cup Scales \cup CsLengths
       \subseteq Nat
  /\ Wcet <= Period /\ LoopTimes \subseteq Nat \ {0} /\ LoopTimes # {}
  /\ \E longest \in LoopTimes : \A c \in LoopTimes : c <= longest
  /\ \A m \in Masks : m \subseteq 0..15
  /\ \A line \in Lines : IsLine(line)
  /\ Columns \subseteq Nat \ {0}

VARIABLES
  args,        \* what the program is started with
  pc,          \* "args", "count", "read", "sum"; "job", "loop"; "done", "invalid"
               \* (the program says so and exits), "aborted" (by an assertion)
  stream,      \* where the file is read
  num_jobs,    \* what the first pass has counted
  exec_times,  \* as read from the file
  program_end, \* start + duration; start is 0
  cur_job,     \* the number of jobs that were added up, started or skipped
  ran,         \* the execution times of those that were started
  wall,        \* wctime()
  release,     \* the release of the current job
  parts,       \* what the current job has still to do
  loop,        \* of the current part: used (cputime), last_loop, iter
  job,         \* of the current job: start (wall), exec, cpu, delay, emergency
  monitor      \* of check_cp_setting(): invalid_cp_flag, the marks of the job,
               \* cur_time, the measured duration, and whether a read failed

reading == <<stream, num_jobs, exec_times>>

vars == <<args, pc, reading, program_end, cur_job, ran, wall, release, parts, loop, job,
          monitor>>

Final == {"done", "invalid", "aborted"}

FromFile == args.program = "rtspin -f"
Monitored == args.program = "ca_spin"

Open(text) == [text |-> text, pos |-> 1, eof |-> FALSE]
NewLoop == [used |-> 0, last_loop |-> 0, iter |-> 0]
NewJob(exec) == [start |-> wall, exec |-> exec, cpu |-> 0, delay |-> 0, emergency |-> FALSE]

TypeOK ==
  /\ pc \in {"args", "count", "read", "sum", "job", "loop"} \cup Final
  /\ cur_job \in Nat /\ wall \in Nat /\ release \in Nat /\ program_end \in Nat
  /\ Len(ran) <= cur_job + 1
  /\ loop.iter \in 0..Loops \cup {1} /\ loop.last_loop \in LoopTimes \cup {0}
  /\ job.delay \in 0..MaxDelay
  /\ monitor.flag \in BOOLEAN /\ monitor.marks \in Seq({1, 2})
  /\ Len(exec_times) <= num_jobs
  /\ FromFile => cur_job <= num_jobs

\* Only the last line of a file may not be terminated.
Files == {lines \in UNION {[1..n -> Lines] : n \in 1..MaxLines} :
            \A i \in 1..Len(lines) - 1 : Terminated(lines[i])}

Init ==
  /\ args \in [program : Programs, lines : {<<>>}, column : {1}, scale : Scales,
               cs : CsLengths, num_cp : {0, Param}, kept : BOOLEAN]
              \cup [program : Programs \cap {"rtspin -f"},
                    lines : Files, column : Columns,
                    scale : Scales, cs : CsLengths, num_cp : {0}, kept : {TRUE}]
  /\ args.program \notin {"rtspin", "rtspin -f"} => args.scale = 1 /\ args.cs = 0
  /\ ~Monitored => args.num_cp = 0 /\ args.kept
  /\ pc = "args"
  /\ stream = Open(<<>>) /\ num_jobs = 0 /\ exec_times = <<>>
  /\ program_end = 0 /\ cur_job = 0 /\ ran = <<>> /\ wall = 0 /\ release = 0
  /\ parts = <<>> /\ loop = NewLoop
  /\ job = [start |-> 0, exec |-> 0, cpu |-> 0, delay |-> 0, emergency |-> FALSE]
  /\ monitor = [flag |-> FALSE, marks |-> <<>>, cur_time |-> 0, duration |-> 0, misread |-> FALSE]

-----------------------------------------------------------------------------
(* The start of main().                                                    *)

\* How many periods the jobs of a file need beside their execution: one for each
\* but the first.  The variant leaves them out.
Periods_None(n) == 0
Periods(n) == IF n > 1 THEN Period * (n - 1) ELSE 0

\* The time after which no job is started.
StartJobs(end) == pc' = "job" /\ program_end' = end /\ cur_job' = 0

\* Without a file there is nothing to read.
Start ==
  /\ pc = "args"
  /\ IF FromFile
     THEN pc' = "count" /\ stream' = Open(Lists!FlattenSeq(args.lines))
          /\ UNCHANGED <<program_end, cur_job>>
     ELSE StartJobs(Duration) /\ UNCHANGED stream
  /\ UNCHANGED <<args, num_jobs, exec_times, ran, wall, release, parts, loop, job, monitor>>

SkippedTo(place) == [stream EXCEPT !.pos = place.pos, !.eof = place.eof]

\* get_exec_times(): first it counts the lines, then it starts again.
CountJobs ==
  /\ pc = "count"
  /\ LET line == CountLine(stream.text, stream.pos) IN
       IF line.eof
       THEN pc' = "read" /\ stream' = Open(stream.text) /\ UNCHANGED num_jobs
       ELSE stream' = SkippedTo(line) /\ num_jobs' = num_jobs + 1 /\ UNCHANGED pc
  /\ UNCHANGED <<args, exec_times, program_end, cur_job, ran, wall, release, parts, loop, job,
                 monitor>>

ReadsOn == Len(exec_times) < num_jobs /\ ~stream.eof

ReadJob ==
  /\ pc = "read" /\ ReadsOn
  /\ LET read == ReadTime(stream.text, stream.pos, args.column) IN
       IF read.ok
       THEN /\ exec_times' = Append(exec_times, read.time)
            /\ stream' = SkippedTo(read.rest)
            /\ UNCHANGED pc
       ELSE pc' = "invalid" /\ UNCHANGED <<exec_times, stream>>
  /\ UNCHANGED <<args, num_jobs, program_end, cur_job, ran, wall, release, parts, loop, job,
                 monitor>>

\* assert(cur_job == *num_jobs).
ReadEnds ==
  /\ pc = "read" /\ ~ReadsOn
  /\ pc' = IF Len(exec_times) = num_jobs THEN "sum" ELSE "aborted"
  /\ UNCHANGED <<args, reading, program_end, cur_job, ran, wall, release, parts, loop, job,
                 monitor>>

\* duration += exec_times[cur_job].
AddTime ==
  /\ pc = "sum" /\ cur_job < num_jobs
  /\ program_end' = program_end + exec_times[cur_job + 1]
  /\ cur_job' = cur_job + 1
  /\ UNCHANGED <<args, pc, reading, ran, wall, release, parts, loop, job, monitor>>

AddPeriods ==
  /\ pc = "sum" /\ cur_job >= num_jobs
  /\ StartJobs(program_end + Periods(num_jobs))
  /\ UNCHANGED <<args, reading, ran, wall, release, parts, loop, job, monitor>>

-----------------------------------------------------------------------------
(* A job is a sequence of parts.                                           *)

\* loop_for(length, limit), or the loop of ca_thrash's job, which knows no limit.
NoLimit == 0
LoopFor(length, limit) == [kind |-> "cpu", length |-> length, limit |-> limit]
\* while (iter++ < n).
Repeat(n) == [kind |-> "count", length |-> n, limit |-> NoLimit]

\* The last chunk of a job with a critical section.
Chunk2(exec, cs, chunk1) == exec - cs - chunk1

\* The grace that loop_for() gives.
Grace(n) == program_end + n * Second

\* drand48() * (exec_time - cs_length), which may be negative.
Chunk1(exec, cs) ==
  {c \in (-cs)..exec : IF cs <= exec THEN 0 <= c /\ c <= exec - cs ELSE exec - cs <= c /\ c <= 0}

RtSpinParts(exec) ==
  IF args.cs = 0 THEN {<<LoopFor(exec, Grace(1))>>}
  ELSE {<<LoopFor(chunk1, Grace(1)), LoopFor(args.cs, Grace(1)),
          LoopFor(Chunk2(exec, args.cs, chunk1), Grace(2))>> : chunk1 \in Chunk1(exec, args.cs)}

Parts(exec) ==
  CASE args.program \in {"rtspin", "rtspin -f"} -> RtSpinParts(exec)
    [] args.program = "ca_thrash" -> {<<LoopFor(exec, NoLimit)>>}
    [] args.program = "ca_spin" -> {<<Repeat(Loops)>>}
    [] args.program = "ca_spin_v2" -> {<<Repeat(Loops), Repeat(Loops)>>}
    [] args.program = "rtspin_cache" -> {<<Repeat(1)>>}

AllJobsSeen == FromFile /\ cur_job = Len(exec_times)
Exec == IF FromFile THEN exec_times[cur_job + 1] * args.scale ELSE Wcet * args.scale

\* invalid_cp_flag = 0.  The variant leaves it as the previous job did.
NewMonitor_Stale == [monitor EXCEPT !.marks = <<>>, !.duration = 0]
NewMonitor == [monitor EXCEPT !.flag = FALSE, !.marks = <<>>, !.duration = 0]

\* job(): it does nothing when the time is past.
JobStart ==
  /\ pc = "job" /\ ~AllJobsSeen /\ wall <= program_end
  /\ parts' \in Parts(Exec)
  /\ job' = NewJob(Exec) /\ loop' = NewLoop /\ monitor' = NewMonitor
  /\ ran' = IF FromFile THEN Append(ran, Exec) ELSE ran
  /\ pc' = "loop"
  /\ UNCHANGED <<args, reading, program_end, cur_job, wall, release>>

\* With a file, job()'s answer is not looked at.  The variant tries again.
AfterRefusal_Again(n) == n
AfterRefusal(n) == n + 1

JobRefused ==
  /\ pc = "job" /\ ~AllJobsSeen /\ wall > program_end
  /\ IF FromFile THEN cur_job' = AfterRefusal(cur_job) /\ UNCHANGED pc
                 ELSE pc' = "done" /\ UNCHANGED cur_job
  /\ UNCHANGED <<args, reading, program_end, ran, wall, release, parts, loop, job, monitor>>

FileEnds ==
  /\ pc = "job" /\ AllJobsSeen
  /\ pc' = "done"
  /\ UNCHANGED <<args, reading, program_end, cur_job, ran, wall, release, parts, loop, job,
                 monitor>>

-----------------------------------------------------------------------------
(* check_cp_setting().                                                     *)

CountBits(mask) == Cardinality(mask \cap 0..15)

CheckCpSetting(m, mask) ==
  LET bad == CountBits(mask) # args.num_cp
      marked == IF bad THEN [m EXCEPT !.marks = Append(@, 1), !.flag = TRUE, !.cur_time = wall]
                       ELSE m
  IN IF marked.flag /\ ~bad
     THEN [marked EXCEPT !.marks = Append(@, 2), !.flag = FALSE,
                         !.duration = marked.cur_time - job.start]
     ELSE marked

\* What get_rt_job_param() finds: the partitions of the job, which has as many
\* as it asked for while the kernel keeps to that; or nothing when it fails,
\* and the check goes on with whatever is in the structure.
Monitor ==
  IF Monitored
  THEN \/ \E mask \in Masks :
            /\ args.kept => Cardinality(mask) = Param
            /\ monitor' = CheckCpSetting(monitor, mask)
       \/ \E mask \in Masks :
            monitor' = [CheckCpSetting(monitor, mask) EXCEPT !.misread = TRUE]
  ELSE UNCHANGED monitor

-----------------------------------------------------------------------------
(* Loops.                                                                  *)

\* loop_for() expects the next iteration to take as long as the last one.  The
\* variant does not look ahead.
GoesOn_NoLookahead(part) ==
  IF part.kind = "cpu" THEN loop.used < part.length ELSE loop.iter < part.length
GoesOn(part) ==
  IF part.kind = "cpu" THEN loop.used + loop.last_loop < part.length ELSE loop.iter < part.length

\* One iteration: it takes c of the processor, and d pass meanwhile or while the
\* job waits for the lock of its critical section.
LoopOnce ==
  /\ pc = "loop" /\ parts # <<>> /\ GoesOn(Head(parts))
  /\ \E c \in LoopTimes, d \in 0..(MaxDelay - job.delay) :
       LET limit == Head(parts).limit
           emergency == limit # NoLimit /\ wall + c + d > limit
       IN /\ wall' = wall + c + d
          /\ job' = [job EXCEPT !.cpu = @ + c, !.delay = @ + d, !.emergency = @ \/ emergency]
          /\ IF emergency
             THEN parts' = Tail(parts) /\ loop' = NewLoop
             ELSE /\ loop' = [used |-> loop.used + c, last_loop |-> c,
                              iter |-> IF Head(parts).kind = "count" THEN loop.iter + 1 ELSE 0]
                  /\ UNCHANGED parts
  /\ Monitor
  /\ UNCHANGED <<args, pc, reading, program_end, cur_job, ran, release>>

LoopEnds ==
  /\ pc = "loop" /\ parts # <<>> /\ ~GoesOn(Head(parts))
  /\ parts' = Tail(parts) /\ loop' = NewLoop
  /\ UNCHANGED <<args, pc, reading, program_end, cur_job, ran, wall, release, job, monitor>>

\* sleep_next_period(): the next job is released a period after this one, and
\* starts at once when that is past.
SleepNextPeriod ==
  /\ pc = "loop" /\ parts = <<>>
  /\ release' = release + Period
  /\ wall' = Max({wall, release + Period})
  /\ cur_job' = cur_job + 1
  /\ pc' = "job"
  /\ UNCHANGED <<args, reading, program_end, ran, parts, loop, job, monitor>>

Next ==
  \/ Start \/ CountJobs \/ ReadJob \/ ReadEnds \/ AddTime \/ AddPeriods
  \/ JobStart \/ JobRefused \/ FileEnds
  \/ LoopOnce \/ LoopEnds \/ SleepNextPeriod

Spec == Init /\ [][Next]_vars

\* The kernel lets the task run and releases its jobs.
FairSpec == Spec /\ WF_vars(Next)

-----------------------------------------------------------------------------
(* Properties.                                                             *)

\* A file of comments and of lines with a number in the column is read exactly,
\* in either pass, however comments and other columns are mixed in; and the
\* assertion that as many times were read as lines were counted only fails for a
\* file with a line that does not reach to the column (a blank line, for one) and
\* whose last line is not terminated.
ReadsFile ==
  /\ FromFile /\ pc \notin {"args", "count", "read"} /\ WellFormed(args.lines, args.column) =>
       pc \notin {"invalid", "aborted"} /\ exec_times = TimesIn(args.lines, args.column)
  /\ pc = "aborted" =>
       /\ \E i \in Jobs(args.lines) : ~HasColumn(args.lines[i], args.column)
       /\ ~Terminated(args.lines[Len(args.lines)])

\* Every job of a file is run, in order, though preempted or kept waiting in
\* each: what the file says is what is executed.  Not so when -s makes the jobs
\* longer, or when a critical section is longer than its job: the end of the
\* program is computed without either.
AllJobsRun ==
  FromFile /\ pc = "done" /\ args.scale = 1 /\ (\A i \in 1..Len(exec_times) : args.cs <= exec_times[i])
    => ran = exec_times

\* No loop_for() uses more than it was given, but for an iteration that takes
\* longer than the one before; and the parts of a job add up to its execution
\* time, or to the critical section where that is longer.
WithinWcet ==
  LET jitter == Max(LoopTimes) - Min(LoopTimes)
      longest == Max({job.exec, args.cs})
  IN pc = "loop" /\ (\A i \in 1..Len(parts) : parts[i].kind = "cpu") /\ ~Monitored =>
       /\ parts # <<>> => loop.used <= Max({Head(parts).length + jitter - 1, Max(LoopTimes)})
       /\ args.program \in {"rtspin", "rtspin -f", "ca_thrash"} =>
            job.cpu <= longest + 3 * (Max(LoopTimes) - 1)

\* loop_for() gives up only in a job that has taken more than a second: what it
\* then says is "seriously wrong" (rtspin.c:131) needs nothing but a long job that
\* starts just before the end of the program.
EmergencyOnlyIfLong == job.emergency => job.cpu + job.delay > Second

\* The invariant of the loops: types, and how long a job may take.
SpinInv == TypeOK /\ WithinWcet /\ EmergencyOnlyIfLong

\* In the trace of a job the mark that partitions are valid again follows one
\* that they are not, and what is printed as the duration is not negative.
MarksPaired ==
  /\ \A i \in 1..Len(monitor.marks) :
       monitor.marks[i] = 2 => i > 1 /\ monitor.marks[i - 1] = 1
  /\ monitor.duration >= 0

\* Nothing is marked while each job has the partitions it asks for, provided that
\* -C was given (NUM_CP is 0 without it, the parameter 8) and the reads work.
QuietWhenKept ==
  monitor.marks # <<>> => ~args.kept \/ args.num_cp # Param \/ monitor.misread

\* What the trace of a job says of its partitions can be relied on.
MarksJustified == MarksPaired /\ QuietWhenKept

\* Every program comes to an end.
ProgramEnds == <>(pc \in Final)
=============================================================================
