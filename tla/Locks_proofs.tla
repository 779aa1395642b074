---------------------------- MODULE Locks_proofs ----------------------------
(***************************************************************************)
(* Proofs about Locks, for any number of rtspin on a semaphore and any     *)
(* size of the descriptor table: critical sections exclude although rtspin *)
(* does not look at what litmus_lock() answers, and no rtspin comes to its *)
(* end with a lock.                                                        *)
(***************************************************************************)
EXTENDS Locks, SequenceTheorems, TLAPS

-----------------------------------------------------------------------------
(* The programs.                                                           *)

TestCall == {"open", "lock", "unlock", "close", "rt", "background", "fork", "waitpid"}
Answer == {"ok", "EINVAL", "EPERM", "EBUSY", "ENXIO", "any"}
AnyObject == (Protocol \cup {"none", "-1", "10"}) \X {0, 1}
Steps(calls) == [call : calls, od : Int, object : AnyObject, expect : Answer]

\* The programs of tests, which have no critical section, and of anybody.
TestProgram == Seq(Steps(TestCall))
AnyProgram  == Seq(Steps(TestCall \cup {"critical"}))

LEMMA SingletonType ==
  ASSUME NEW S, NEW x \in S
  PROVE  <<x>> \in Seq(S)
  OBVIOUS

LEMMA SeqMonotone ==
  ASSUME NEW S, NEW T, S \subseteq T
  PROVE  Seq(S) \subseteq Seq(T)
  OBVIOUS

LEMMA StepTypes ==
  /\ \A c \in TestCall, od \in Int : Syscall(c, od) \in TestProgram
  /\ \A e \in Answer, c \in TestCall, od \in Int : SyscallFails(e, c, od) \in TestProgram
  /\ \A od \in Int, p \in Protocol, id \in {0, 1} : Open(od, p, id) \in TestProgram
  /\ \A e \in Answer, p \in Protocol \cup {"-1", "10"} : OpenFails(e, p) \in TestProgram
<1>1. NoObject \in AnyObject BY DEF NoObject, AnyObject
<1>2. ASSUME NEW c \in TestCall, NEW od \in Int, NEW o \in AnyObject, NEW e \in Answer
      PROVE  <<Step(c, od, o, e)>> \in TestProgram
  <2>1. Step(c, od, o, e) \in Steps(TestCall) BY DEF Step, Steps
  <2>2. QED BY <2>1, SingletonType DEF TestProgram
<1>3. \A c \in TestCall, od \in Int : Syscall(c, od) \in TestProgram
  BY <1>1, <1>2 DEF Syscall, Answer
<1>4. \A e \in Answer, c \in TestCall, od \in Int : SyscallFails(e, c, od) \in TestProgram
  BY <1>1, <1>2 DEF SyscallFails
<1>5. \A p \in Protocol \cup {"-1", "10"}, id \in {0, 1} : <<p, id>> \in AnyObject
  BY DEF AnyObject
<1>6. "open" \in TestCall BY DEF TestCall
<1>7. \A od \in Int, p \in Protocol, id \in {0, 1} : Open(od, p, id) \in TestProgram
  BY <1>2, <1>5, <1>6 DEF Open, Answer
<1>8. \A e \in Answer, p \in Protocol \cup {"-1", "10"} : OpenFails(e, p) \in TestProgram
  <2>1. SUFFICES ASSUME NEW e \in Answer, NEW p \in Protocol \cup {"-1", "10"}
                 PROVE  OpenFails(e, p) \in TestProgram
    OBVIOUS
  <2>2. <<p, 0>> \in AnyObject BY <1>5
  <2>3. PICK o \in AnyObject : o = <<p, 0>> BY <2>2
  <2>4. <<Step("open", 0, o, e)>> \in TestProgram BY <1>2, <1>6
  <2>5. QED BY <2>3, <2>4 DEF OpenFails
<1>9. QED BY <1>3, <1>4, <1>7, <1>8

LEMMA ConcatTypes ==
  ASSUME NEW p \in TestProgram, NEW q \in TestProgram
  PROVE  p \o q \in TestProgram
  BY ConcatProperties DEF TestProgram

LEMMA BuilderTypes ==
  /\ BecomeRt \in TestProgram /\ BecomeBackground \in TestProgram
  /\ \A od \in Int : LockUnlock(od) \in TestProgram
  /\ \A p \in Protocol : Acquisition(p) \in TestProgram
  /\ \A p, q \in Protocol : NoNesting(p, q) \in TestProgram
  /\ \A p \in Protocol : Nesting(p) \in TestProgram
  /\ \A p \in Protocol : ModeChange(p) \in TestProgram
  /\ NotInheritParent \in TestProgram /\ NotInheritChild \in TestProgram
  /\ InvalidOd \in TestProgram
<1> USE StepTypes, ConcatTypes
<1>1. BecomeRt \in TestProgram /\ BecomeBackground \in TestProgram
  BY DEF BecomeRt, BecomeBackground, TestCall, Answer
<1>2. \A od \in Int : LockUnlock(od) \in TestProgram BY DEF LockUnlock, TestCall, Answer
<1>3. \A p \in Protocol : Acquisition(p) \in TestProgram
  BY <1>1, <1>2 DEF Acquisition, TestCall, Answer
<1>4. \A p, q \in Protocol : TwoLocks(p, q) \in TestProgram
  BY <1>1, <1>2 DEF TwoLocks, TestCall, Answer
<1>5. \A p, q \in Protocol : NoNesting(p, q) \in TestProgram
  BY <1>4 DEF NoNesting, TestCall, Answer
<1>6. \A p \in Protocol : Nesting(p) \in TestProgram
  BY <1>2, <1>4 DEF Nesting, TestCall, Answer
<1>7. \A p \in Protocol : ModeChange(p) \in TestProgram
  BY <1>1 DEF ModeChange, TestCall, Answer
<1>8. NotInheritParent \in TestProgram BY <1>1, <1>2 DEF NotInheritParent, TestCall, Answer, Protocol
<1>9. NotInheritChild \in TestProgram BY <1>1 DEF NotInheritChild, TestCall, Answer
<1>10. InvalidOd \in TestProgram BY DEF InvalidOd, TestCall, Answer
<1>11. QED BY <1>1, <1>2, <1>3, <1>5, <1>6, <1>7, <1>8, <1>9, <1>10

\* Every test of Tests consists of calls of TestCall.
TestType == [plugins : SUBSET Plugin, programs : TestProgram \X TestProgram]

LEMMA TestTypes == Tests \subseteq TestType
<1>1. <<>> \in TestProgram BY DEF TestProgram
<1>2. Fmlp \subseteq Plugin /\ Srp \subseteq Plugin /\ Pfp \subseteq Plugin
  BY DEF Fmlp, Srp, Pfp, Plugin
<1>3. ASSUME NEW P \in SUBSET Plugin, NEW p \in TestProgram
      PROVE  Alone(P, p) \in TestType
  BY <1>1 DEF Alone, Test, TestType
<1>4. ASSUME NEW P \in SUBSET Plugin, NEW p \in TestProgram
      PROVE  Test(P, WithChild(p)) \in TestType
  <2>1. Syscall("fork", 0) \in TestProgram /\ Syscall("waitpid", 0) \in TestProgram
    BY StepTypes DEF TestCall
  <2>2. Syscall("fork", 0) \o Syscall("waitpid", 0) \in TestProgram BY <2>1, ConcatTypes
  <2>3. WithChild(p) \in TestProgram \X TestProgram BY <2>2 DEF WithChild
  <2>4. QED BY <2>3 DEF Test, TestType
<1>5. \A p \in Protocol : Teardown(p) \in TestProgram BY <1>1 DEF Teardown
<1>6. Range(LockTests) \subseteq TestType
  <2>1. Open(0, "FMLP", 0) \o SyscallFails("EPERM", "lock", 0)
          \o SyscallFails("EINVAL", "unlock", 0) \o Syscall("close", 0) \in TestProgram
    BY StepTypes, ConcatTypes DEF TestCall, Answer, Protocol
  <2>2. OpenFails("EPERM", "SRP") \in TestProgram
    BY StepTypes DEF Answer, Protocol
  <2>3. QED BY <1>2, <1>3, <1>4, <1>5, <2>1, <2>2, BuilderTypes DEF LockTests, Range, Protocol
<1>7. Range(NestingTests) \subseteq TestType
  BY <1>2, <1>3, BuilderTypes DEF NestingTests, Range, Protocol
<1>8. Range(LocalNestingTests) \subseteq TestType
  BY <1>2, <1>3, BuilderTypes DEF LocalNestingTests, Range, Protocol
<1>9. Range(GlobalNestingTests) \subseteq TestType
  BY <1>2, <1>3, BuilderTypes DEF GlobalNestingTests, Range, Protocol
<1>10. Range(DflpNestingTests) \subseteq TestType
  BY <1>2, <1>3, BuilderTypes DEF DflpNestingTests, Range, Protocol
<1>11. Range(PcpTests) \subseteq TestType
  <2>1. OpenFails("EPERM", "PCP") \o OpenFails("EPERM", "DPCP") \o OpenFails("EPERM", "MPCP")
          \in TestProgram
    BY StepTypes, ConcatTypes DEF Answer, Protocol
  <2>2. QED BY <1>2, <1>3, <2>1, BuilderTypes DEF PcpTests, Range, Protocol
<1>12. Range(PcpModeChangeTests) \subseteq TestType
  BY <1>2, <1>4, BuilderTypes DEF PcpModeChangeTests, Range, Protocol
<1>13. Range(PcpTeardownTests) \subseteq TestType
  BY <1>2, <1>3, <1>5 DEF PcpTeardownTests, Range, Protocol
<1>14. Range(FdsoTests) \subseteq TestType
  <2>1. {"C_EDF", "PFAIR", "LINUX"} \in SUBSET Plugin /\ {"GSN_EDF", "PSN_EDF"} \in SUBSET Plugin
    BY DEF Plugin
  <2>2. OpenFails("ENXIO", "FMLP") \in TestProgram
        /\ OpenFails("EINVAL", "-1") \o OpenFails("EINVAL", "10") \in TestProgram
    BY StepTypes, ConcatTypes DEF Answer, Protocol
  <2>3. Test({"GSN_EDF", "PSN_EDF"}, <<NotInheritParent, NotInheritChild>>) \in TestType
    BY <2>1, BuilderTypes DEF Test, TestType
  <2>4. QED BY <1>3, <2>1, <2>2, <2>3, BuilderTypes DEF FdsoTests, Range
<1>15. QED
  BY <1>6, <1>7, <1>8, <1>9, <1>10, <1>11, <1>12, <1>13, <1>14
  DEF Tests

\* rtspin -X p, call by call.
LEMMA SpinProgram ==
  ASSUME NEW p \in Protocol
  PROVE  /\ RtSpin(p) \in AnyProgram /\ Len(RtSpin(p)) = 9
         /\ RtSpin(p)[1] = Step("rt", 0, NoObject, "ok")
         /\ RtSpin(p)[2] = Step("open", 0, <<p, 0>>, "ok")
         /\ \A k \in {3, 6} : RtSpin(p)[k] = Step("lock", 0, NoObject, "any")
         /\ \A k \in {4, 7} : RtSpin(p)[k] = Step("critical", 0, NoObject, "any")
         /\ \A k \in {5, 8} : RtSpin(p)[k] = Step("unlock", 0, NoObject, "any")
         /\ RtSpin(p)[9] = Step("background", 0, NoObject, "ok")
<1> DEFINE rt == Step("rt", 0, NoObject, "ok")
           op == Step("open", 0, <<p, 0>>, "ok")
           lk == Step("lock", 0, NoObject, "any")
           cs == Step("critical", 0, NoObject, "any")
           un == Step("unlock", 0, NoObject, "any")
           bg == Step("background", 0, NoObject, "ok")
           calls == TestCall \cup {"critical"}
<1>1. RtSpin(p) = <<rt>> \o <<op>> \o <<lk, cs, un>> \o <<lk, cs, un>> \o <<bg>>
  BY DEF RtSpin, BecomeRt, BecomeBackground, Syscall, Open, RtSpinJob
<1>2. /\ rt \in Steps(calls) /\ op \in Steps(calls) /\ lk \in Steps(calls)
      /\ cs \in Steps(calls) /\ un \in Steps(calls) /\ bg \in Steps(calls)
  <2>1. NoObject \in AnyObject /\ <<p, 0>> \in AnyObject BY DEF NoObject, AnyObject
  <2>2. QED BY <2>1 DEF Step, Steps, TestCall, Answer
<1> HIDE DEF rt, op, lk, cs, un, bg, calls
<1>3. /\ RtSpin(p) \in Seq(Steps(calls)) /\ Len(RtSpin(p)) = 9
      /\ RtSpin(p)[1] = rt /\ RtSpin(p)[2] = op
      /\ RtSpin(p)[3] = lk /\ RtSpin(p)[4] = cs /\ RtSpin(p)[5] = un
      /\ RtSpin(p)[6] = lk /\ RtSpin(p)[7] = cs /\ RtSpin(p)[8] = un
      /\ RtSpin(p)[9] = bg
  BY <1>1, <1>2
<1>4. QED BY <1>3 DEF AnyProgram, rt, op, lk, cs, un, bg, calls

-----------------------------------------------------------------------------
(* Type correctness.                                                       *)

Typed ==
  /\ TypeOK
  /\ program \in [Actor -> AnyProgram]
  /\ at \in [Actor -> Nat]

LEMMA ActorFacts == 1 \in Actor /\ 2 \in Actor /\ 0 \notin Actor /\ Actor \subseteq Nat
  BY LocksAssumption DEF Actor

LEMMA TestsAreAny == TestProgram \subseteq AnyProgram
<1>1. Steps(TestCall) \subseteq Steps(TestCall \cup {"critical"}) BY DEF Steps
<1>2. QED BY <1>1, SeqMonotone DEF TestProgram, AnyProgram

LEMMA ProgramFacts ==
  ASSUME NEW p \in AnyProgram
  PROVE  /\ Len(p) \in Nat
         /\ \A k \in 1..Len(p) : p[k] \in Steps(TestCall \cup {"critical"})
  BY LenProperties, ElementOfSeq DEF AnyProgram

\* An object that can be opened is one of Object.
LEMMA OpenedObject ==
  ASSUME NEW a \in Actor, NEW o \in AnyObject, AnswerOpen(a, o) = "ok"
  PROVE  o \in Object
  BY DEF AnswerOpen, AnyObject, Object

LEMMA InitTyped ==
  ASSUME Init
  PROVE  /\ Typed
         /\ \/ program \in [Actor -> TestProgram]
            \/ \E p \in Protocol : program = [a \in Actor |-> RtSpin(p)]
<1>1. \/ program \in [Actor -> TestProgram]
      \/ \E p \in Protocol : program = [a \in Actor |-> RtSpin(p)]
  <2>1. CASE \E t \in {u \in Tests : plugin \in u.plugins} :
               program = [a \in Actor |-> IF a <= 2 THEN t.programs[a] ELSE <<>>]
    <3>1. PICK t \in Tests : program = [a \in Actor |-> IF a <= 2 THEN t.programs[a] ELSE <<>>]
      BY <2>1
    <3>2. t \in TestType BY TestTypes
    <3>3. t.programs[1] \in TestProgram /\ t.programs[2] \in TestProgram
      BY <3>2 DEF TestType
    <3>4. <<>> \in TestProgram BY DEF TestProgram
    <3>5. \A a \in Actor : a <= 2 => a = 1 \/ a = 2 BY DEF Actor
    <3>6. QED BY <3>1, <3>3, <3>4, <3>5
  <2>2. QED BY <2>1 DEF Init
<1>2. program \in [Actor -> AnyProgram] BY <1>1, TestsAreAny, SpinProgram
<1>3. \A a \in Actor : Len(program[a]) \in Nat BY <1>2 DEF AnyProgram
<1>4. QED BY <1>1, <1>2, <1>3, ActorFacts DEF Init, Typed, TypeOK

LEMMA GoneTyped ==
  ASSUME Typed, NEW a \in Actor, NEW s \in {"ended", "failed", "killed"}, Gone(a, s),
         UNCHANGED <<plugin, program, at>>
  PROVE  Typed'
<1>1. /\ status' = [status EXCEPT ![a] = s]
      /\ realtime' = realtime \ {a}
      /\ table' = [table EXCEPT ![a] = [od \in 0..MaxOd |-> NoObject]]
      /\ owner' = [o \in Object |-> IF owner[o] = a THEN 0 ELSE owner[o]]
  BY DEF Gone
<1>2. QED BY <1>1, ActorFacts DEF Typed, TypeOK

LEMMA AdvanceTyped ==
  ASSUME Typed, NEW a \in Actor, NEW c, Calls(a, c), Advance(a)
  PROVE  /\ plugin' \in Plugin /\ program' \in [Actor -> AnyProgram] /\ at' \in [Actor -> Nat]
         /\ \A b \in Actor : at'[b] \in 1..Len(program'[b]) + 1
<1>1. program[a] \in AnyProgram /\ Len(program[a]) \in Nat BY ProgramFacts DEF Typed
<1>2. at[a] <= Len(program[a]) BY DEF Calls
<1>3. QED BY <1>1, <1>2 DEF Typed, TypeOK, Advance

LEMMA TypedNext ==
  ASSUME Typed, [Next]_vars
  PROVE  Typed'
<1>1. ASSUME NEW a \in Actor, OpenLock(a) PROVE Typed'
  <2> DEFINE o == Current(a).object
             free == {od \in 0..MaxOd : table[a][od] = NoObject}
             od == CHOOSE i \in free : \A j \in free : i <= j
  <2>1. CASE /\ AnswerOpen(a, o) = "ok" /\ Advance(a)
             /\ table' = [table EXCEPT ![a][od] = o]
             /\ UNCHANGED <<status, realtime, owner>>
    <3>1. Calls(a, "open") BY <1>1 DEF OpenLock
    <3>2. Current(a) \in Steps(TestCall \cup {"critical"})
      <4>1. program[a] \in AnyProgram /\ Len(program[a]) \in Nat BY ProgramFacts DEF Typed
      <4>2. at[a] \in 1..Len(program[a]) BY <3>1, <4>1 DEF Calls, Typed, TypeOK
      <4>3. QED BY <4>1, <4>2, ProgramFacts DEF Current
    <3>3. o \in Object BY <2>1, <3>2, OpenedObject DEF Steps
    <3> HIDE DEF o, free, od
    <3>4. table' \in [Actor -> [0..MaxOd -> Object \cup {NoObject}]]
      BY <2>1, <3>3 DEF Typed, TypeOK
    <3>5. QED BY <2>1, <3>1, <3>4, AdvanceTyped DEF Typed, TypeOK
  <2>2. CASE Advance(a) /\ UNCHANGED <<status, realtime, table, owner>>
    <3>1. Calls(a, "open") BY <1>1 DEF OpenLock
    <3>2. QED BY <2>2, <3>1, AdvanceTyped DEF Typed, TypeOK
  <2>3. CASE Fail(a, AnswerOpen(a, o)) BY <2>3, GoneTyped DEF Fail
  <2>4. QED BY <1>1, <2>1, <2>2, <2>3 DEF OpenLock
<1>2. ASSUME NEW a \in Actor, LitmusLock(a) PROVE Typed'
  <2> DEFINE answer == AnswerLock(a, Current(a).od)
             o == ObjectOf(a, Current(a).od)
  <2>1. CASE /\ Advance(a)
             /\ owner' = IF answer = "ok" THEN [owner EXCEPT ![o] = a] ELSE owner
             /\ UNCHANGED <<status, realtime, table>>
    <3>1. Calls(a, "lock") /\ status[a] = "running" BY <1>2 DEF LitmusLock, Calls
    <3> HIDE DEF answer, o
    <3>2. owner' \in [Object -> Actor \cup {0}]
          /\ \A x \in Object : owner'[x] # 0 => status[owner'[x]] = "running"
      BY <2>1, <3>1 DEF Typed, TypeOK
    <3>3. QED BY <2>1, <3>1, <3>2, AdvanceTyped DEF Typed, TypeOK
  <2>2. CASE Fail(a, answer) BY <2>2, GoneTyped DEF Fail
  <2>3. QED BY <1>2, <2>1, <2>2 DEF LitmusLock
<1>3. ASSUME NEW a \in Actor, LitmusUnlock(a) PROVE Typed'
  <2> DEFINE answer == AnswerUnlock(a, Current(a).od)
             o == ObjectOf(a, Current(a).od)
  <2>1. CASE /\ Advance(a)
             /\ owner' = IF answer = "ok" THEN [owner EXCEPT ![o] = 0] ELSE owner
             /\ UNCHANGED <<status, realtime, table>>
    <3>1. Calls(a, "unlock") BY <1>3 DEF LitmusUnlock
    <3> HIDE DEF answer, o
    <3>2. owner' \in [Object -> Actor \cup {0}]
          /\ \A x \in Object : owner'[x] # 0 => status[owner'[x]] = "running"
      BY <2>1 DEF Typed, TypeOK
    <3>3. QED BY <2>1, <3>1, <3>2, AdvanceTyped DEF Typed, TypeOK
  <2>2. CASE Fail(a, answer) BY <2>2, GoneTyped DEF Fail
  <2>3. QED BY <1>3, <2>1, <2>2 DEF LitmusUnlock
<1>4. ASSUME NEW a \in Actor, OdClose(a) PROVE Typed'
  <2> DEFINE od == Current(a).od
             answer == IF ObjectOf(a, od) = NoObject THEN "EINVAL" ELSE "ok"
  <2>1. CASE /\ Advance(a)
             /\ table' = IF answer = "ok" THEN [table EXCEPT ![a][od] = NoObject] ELSE table
             /\ UNCHANGED <<status, realtime, owner>>
    <3>1. Calls(a, "close") BY <1>4 DEF OdClose
    <3> HIDE DEF answer, od
    <3>2. table' \in [Actor -> [0..MaxOd -> Object \cup {NoObject}]]
      BY <2>1 DEF Typed, TypeOK
    <3>3. QED BY <2>1, <3>1, <3>2, AdvanceTyped DEF Typed, TypeOK
  <2>2. CASE Fail(a, answer) BY <2>2, GoneTyped DEF Fail
  <2>3. QED BY <1>4, <2>1, <2>2 DEF OdClose
<1>5. ASSUME NEW a \in Actor, TaskMode(a) PROVE Typed'
  <2>1. PICK c : Calls(a, c) BY <1>5 DEF TaskMode
  <2>2. status[a] = "running" /\ Advance(a) /\ UNCHANGED <<status, table, owner>>
        /\ (realtime' = realtime \cup {a} \/ realtime' = realtime \ {a})
    BY <1>5 DEF TaskMode, Calls
  <2>3. realtime' \subseteq Actor /\ \A b \in realtime' : status[b] = "running"
    BY <2>2 DEF Typed, TypeOK
  <2>4. QED BY <2>1, <2>2, <2>3, AdvanceTyped DEF Typed, TypeOK
<1>6. ASSUME NEW a \in Actor, Fork(a) PROVE Typed'
  <2>1. Calls(a, "fork") /\ Advance(a) /\ UNCHANGED <<realtime, table, owner>>
        /\ status' = [status EXCEPT ![2] = "running"]
    BY <1>6 DEF Fork
  <2>2. QED BY <2>1, AdvanceTyped, ActorFacts DEF Typed, TypeOK
<1>7. ASSUME NEW a \in Actor, Waitpid(a) PROVE Typed'
  <2> DEFINE answer == IF status[2] = "ended" THEN "ok" ELSE "child failed"
  <2>1. CASE Advance(a) /\ UNCHANGED <<status, realtime, table, owner>>
    <3>1. Calls(a, "waitpid") BY <1>7 DEF Waitpid
    <3>2. QED BY <2>1, <3>1, AdvanceTyped DEF Typed, TypeOK
  <2>2. CASE Fail(a, answer) BY <2>2, GoneTyped DEF Fail
  <2>3. QED BY <1>7, <2>1, <2>2 DEF Waitpid
<1>8. ASSUME NEW a \in Actor, LoopFor(a) PROVE Typed'
  BY <1>8, AdvanceTyped DEF LoopFor, Typed, TypeOK
<1>9. ASSUME NEW a \in Actor, Exit(a) \/ Kill(a) PROVE Typed'
  BY <1>9, GoneTyped DEF Exit, Kill
<1>10. CASE UNCHANGED vars
  BY <1>10 DEF vars, Typed, TypeOK
<1>11. QED
  BY <1>1, <1>2, <1>3, <1>4, <1>5, <1>6, <1>7, <1>8, <1>9, <1>10 DEF Next, ActorStep

\* Every variable keeps its type, in the tests and with any number of spinners.
THEOREM TypeCorrect == Spec => []TypeOK
<1>1. Init => Typed BY InitTyped
<1>2. Typed /\ [Next]_vars => Typed' BY TypedNext
<1>3. Typed => TypeOK BY DEF Typed
<1>4. QED BY <1>1, <1>2, <1>3, PTL DEF Spec

-----------------------------------------------------------------------------
(* What rtspin has at each of its calls.                                   *)

\* The calls that rtspin makes with its lock: the critical sections and the
\* unlocks after them.
Locked == {4, 5, 7, 8}

\* From its first call to its last but one rtspin is real-time, and from the
\* third call on its semaphore is descriptor 0: so no lock is refused, and
\* whoever is in a critical section or about to unlock owns the semaphore.
\* Nobody else owns it, and nobody owns any other object.
Spinner(a, p) ==
  /\ at[a] \in 2..9 => a \in realtime
  /\ at[a] <= 2 => table[a] = [od \in 0..MaxOd |-> NoObject]
  /\ at[a] >= 3 => table[a][0] = <<p, 0>>
  /\ at[a] \in Locked => owner[<<p, 0>>] = a
SpinOwners(p) ==
  \A o \in Object : owner[o] # 0 => o = <<p, 0>> /\ at[owner[o]] \in Locked
SpinState(p) ==
  /\ program = [a \in Actor |-> RtSpin(p)]
  /\ \A a \in Actor : status[a] \in {"running", "failed", "ended", "killed"}
  /\ \A a \in Actor : status[a] = "running" => Spinner(a, p)
  /\ SpinOwners(p)

Workload ==
  \/ program \in [Actor -> TestProgram]
  \/ \E p \in Protocol : SpinState(p)

IInv == Typed /\ Workload

\* What a running spinner's next call is.
LEMMA SpinCall ==
  ASSUME Typed, NEW p \in Protocol, program = [a \in Actor |-> RtSpin(p)],
         NEW a \in Actor
  PROVE  /\ at[a] \in 1..10
         /\ \A c : Calls(a, c) => at[a] \in 1..9
         /\ Calls(a, "rt") => at[a] = 1
         /\ Calls(a, "open") => at[a] = 2 /\ Current(a).object = <<p, 0>>
                                /\ Current(a).expect = "ok"
         /\ Calls(a, "lock") => at[a] \in {3, 6} /\ Current(a).od = 0
                                /\ Current(a).expect = "any"
         /\ Calls(a, "critical") => at[a] \in {4, 7}
         /\ Calls(a, "unlock") => at[a] \in {5, 8} /\ Current(a).od = 0
                                  /\ Current(a).expect = "any"
         /\ Calls(a, "background") => at[a] = 9
         /\ ~Calls(a, "close") /\ ~Calls(a, "fork") /\ ~Calls(a, "waitpid")
         /\ at[a] = Len(program[a]) + 1 => at[a] = 10
<1> DEFINE n == Len(program[a])
           k == at[a]
<1>1. n = 9
  <2>1. Len(RtSpin(p)) = 9 BY SpinProgram, Zenon
  <2>2. QED BY <2>1
<1>2. k \in 1..n + 1 /\ \A c : Calls(a, c) => k <= n BY DEF Typed, TypeOK, Calls
<1>3. /\ program[a] = RtSpin(p)
      /\ \A c : Calls(a, c) => Current(a) = RtSpin(p)[k] /\ Current(a).call = c
  BY DEF Calls, Current
<1> HIDE DEF n, k
<1>4. k \in 1..10 /\ \A c : Calls(a, c) => k \in 1..9 BY <1>1, <1>2
<1>5. /\ k = 1 => RtSpin(p)[k] = Step("rt", 0, NoObject, "ok")
      /\ k = 2 => RtSpin(p)[k] = Step("open", 0, <<p, 0>>, "ok")
      /\ k \in {3, 6} => RtSpin(p)[k] = Step("lock", 0, NoObject, "any")
      /\ k \in {4, 7} => RtSpin(p)[k] = Step("critical", 0, NoObject, "any")
      /\ k \in {5, 8} => RtSpin(p)[k] = Step("unlock", 0, NoObject, "any")
      /\ k = 9 => RtSpin(p)[k] = Step("background", 0, NoObject, "ok")
  BY SpinProgram, Zenon
<1>6. \A c : Calls(a, c) =>
        /\ k = 1 => c = "rt"
        /\ k = 2 => c = "open" /\ Current(a).object = <<p, 0>> /\ Current(a).expect = "ok"
        /\ k \in {3, 6} => c = "lock" /\ Current(a).od = 0 /\ Current(a).expect = "any"
        /\ k \in {4, 7} => c = "critical"
        /\ k \in {5, 8} => c = "unlock" /\ Current(a).od = 0 /\ Current(a).expect = "any"
        /\ k = 9 => c = "background"
  BY <1>3, <1>5 DEF Step
<1>7. k \in 1..9 => k = 1 \/ k = 2 \/ k \in {3, 6} \/ k \in {4, 7} \/ k \in {5, 8} \/ k = 9
  OBVIOUS
<1>8. k = n + 1 => k = 10 BY <1>1
<1>9. QED BY <1>4, <1>6, <1>7, <1>8 DEF k, n

\* rtspin is no test: it has critical sections.
LEMMA SpinIsNoTest ==
  ASSUME NEW p \in Protocol
  PROVE  RtSpin(p) \notin TestProgram
<1>1. SUFFICES ASSUME RtSpin(p) \in TestProgram PROVE FALSE OBVIOUS
<1>2. Len(RtSpin(p)) = 9 /\ RtSpin(p)[4] = Step("critical", 0, NoObject, "any")
  <2>1. 4 \in {4, 7} OBVIOUS
  <2>2. QED BY <2>1, SpinProgram, Zenon
<1>3. RtSpin(p)[4] \in Steps(TestCall)
  <2> DEFINE s == RtSpin(p)
  <2>1. s \in Seq(Steps(TestCall)) BY <1>1 DEF TestProgram
  <2> HIDE DEF s
  <2>2. \A k \in 1..Len(s) : s[k] \in Steps(TestCall) BY <2>1
  <2>3. QED BY <1>2, <2>2 DEF s
<1>4. RtSpin(p)[4].call = "critical" BY <1>2 DEF Step
<1>5. QED BY <1>3, <1>4 DEF Steps, TestCall

\* An answer other than "ok" is an error.
LEMMA OpenAnswers ==
  \A a, o : AnswerOpen(a, o) # "any"
  BY DEF AnswerOpen

LEMMA InitWorkload ==
  ASSUME Init
  PROVE  Workload
<1>1. CASE program \in [Actor -> TestProgram] BY <1>1 DEF Workload
<1>2. CASE \E p \in Protocol : program = [a \in Actor |-> RtSpin(p)]
  <2>1. PICK p \in Protocol : program = [a \in Actor |-> RtSpin(p)] BY <1>2
  <2>2. CASE status = [a \in Actor |-> "running"]
    <3>1. \A a \in Actor : Spinner(a, p) BY ActorFacts DEF Init, Spinner, Locked
    <3>2. SpinOwners(p) BY DEF Init, SpinOwners
    <3>3. QED BY <2>1, <2>2, <3>1, <3>2 DEF Workload, SpinState
  <2>3. CASE \E t \in {u \in Tests : plugin \in u.plugins} :
               program = [a \in Actor |-> IF a <= 2 THEN t.programs[a] ELSE <<>>]
    \* No test has rtspin's calls.
    <3>1. PICK t \in Tests : program = [a \in Actor |-> IF a <= 2 THEN t.programs[a] ELSE <<>>]
      BY <2>3
    <3>2. t.programs[1] \in TestProgram BY TestTypes DEF TestType
    <3>3. RtSpin(p) \in TestProgram BY <2>1, <3>1, <3>2, ActorFacts
    <3>4. QED BY <3>3, SpinIsNoTest, <2>1
  <2>4. QED BY <2>2, <2>3 DEF Init
<1>3. QED BY <1>1, <1>2, InitTyped

\* Death takes the lock with it.
LEMMA GoneSpin ==
  ASSUME Typed, NEW p \in Protocol, SpinState(p), NEW a \in Actor,
         NEW s \in {"ended", "failed", "killed"}, Gone(a, s),
         UNCHANGED <<plugin, program, at>>
  PROVE  SpinState(p)'
<1>1. /\ status' = [status EXCEPT ![a] = s]
      /\ realtime' = realtime \ {a}
      /\ table' = [table EXCEPT ![a] = [od \in 0..MaxOd |-> NoObject]]
      /\ owner' = [o \in Object |-> IF owner[o] = a THEN 0 ELSE owner[o]]
  BY DEF Gone
<1>2. SpinOwners(p)' BY <1>1, ActorFacts DEF SpinState, SpinOwners
<1>3. ASSUME NEW b \in Actor, status'[b] = "running" PROVE Spinner(b, p)'
  <2>1. b # a /\ status[b] = "running" /\ Spinner(b, p)
    BY <1>1, <1>3 DEF SpinState, Typed, TypeOK
  <2>2. <<p, 0>> \in Object BY DEF Object
  <2>3. QED BY <1>1, <2>1, <2>2 DEF Spinner, Typed, TypeOK
<1>4. QED BY <1>1, <1>2, <1>3 DEF SpinState, Typed, TypeOK

LEMMA SpinNext ==
  ASSUME Typed, NEW p \in Protocol, SpinState(p), [Next]_vars
  PROVE  SpinState(p)'
<1> DEFINE sem == <<p, 0>>
<1>1. /\ sem \in Object /\ sem # NoObject
      /\ program = [a \in Actor |-> RtSpin(p)]
      /\ 0 \in 0..MaxOd
  BY LocksAssumption DEF Object, NoObject, Protocol, SpinState
<1>2. ASSUME NEW a \in Actor, OpenLock(a) PROVE SpinState(p)'
  <2> DEFINE o == Current(a).object
             free == {od \in 0..MaxOd : table[a][od] = NoObject}
             od == CHOOSE i \in free : \A j \in free : i <= j
  <2>1. Calls(a, "open") /\ at[a] = 2 /\ o = sem /\ Current(a).expect = "ok"
        /\ status[a] = "running"
    BY <1>1, <1>2, SpinCall DEF OpenLock, Calls
  <2>2. Spinner(a, p) BY <2>1 DEF SpinState
  <2>2A. a \in realtime /\ \A d \in 0..MaxOd : table[a][d] = NoObject
    <3>1. at[a] \in 2..9 /\ at[a] <= 2 BY <2>1
    <3>2. a \in realtime /\ table[a] = [d \in 0..MaxOd |-> NoObject]
      BY <2>2, <3>1, Zenon DEF Spinner
    <3>3. QED BY <3>2
  <2>3. CASE /\ Advance(a)
             /\ table' = [table EXCEPT ![a][od] = o]
             /\ UNCHANGED <<status, realtime, owner>>
    <3>1. free = 0..MaxOd BY <2>2A
    <3>2. od = 0
      <4>1. \A i \in 0..MaxOd : (\A j \in 0..MaxOd : i <= j) => i = 0 BY <1>1
      <4>2. \A j \in 0..MaxOd : 0 <= j BY <1>1
      <4>3. QED BY <1>1, <3>1, <4>1, <4>2
    <3> HIDE DEF od, free, o
    <3>3. table'[a][0] = sem /\ \A b \in Actor : b # a => table'[b] = table[b]
      BY <1>1, <2>1, <2>3, <3>2 DEF Typed, TypeOK
    <3>4. at' = [at EXCEPT ![a] = 3] BY <2>1, <2>3 DEF Advance
    <3>5. SpinOwners(p)' BY <2>1, <2>3, <3>4 DEF SpinState, SpinOwners, Typed, TypeOK, Locked
    <3>6. ASSUME NEW b \in Actor, status'[b] = "running" PROVE Spinner(b, p)'
      <4>1. CASE b = a BY <2>1, <2>2A, <2>3, <3>3, <3>4, <4>1 DEF Spinner, Typed, TypeOK, Locked
      <4>2. CASE b # a
        <5>1. Spinner(b, p) BY <2>3, <3>6 DEF SpinState
        <5>2. QED BY <2>3, <3>3, <3>4, <4>2, <5>1 DEF Spinner, Typed, TypeOK
      <4>3. QED BY <4>1, <4>2
    <3>7. QED BY <2>3, <3>5, <3>6 DEF SpinState, Advance
  <2>4. CASE AnswerOpen(a, o) # "ok" /\ Accepted(a, AnswerOpen(a, o))
    BY <2>1, <2>4, OpenAnswers DEF Accepted
  <2>5. CASE Fail(a, AnswerOpen(a, o)) BY <2>5, GoneSpin DEF Fail
  <2>6. QED BY <1>2, <2>3, <2>4, <2>5 DEF OpenLock
<1>3. ASSUME NEW a \in Actor, LitmusLock(a) PROVE SpinState(p)'
  <2> DEFINE answer == AnswerLock(a, Current(a).od)
             o == ObjectOf(a, Current(a).od)
  <2>1. Calls(a, "lock") /\ at[a] \in {3, 6} /\ Current(a).od = 0
        /\ Current(a).expect = "any" /\ status[a] = "running"
    BY <1>1, <1>3, SpinCall DEF LitmusLock, Calls
  <2>2. a \in realtime /\ table[a][0] = sem BY <2>1 DEF SpinState, Spinner
  <2>3. o = sem BY <1>1, <2>1, <2>2 DEF ObjectOf
  <2>4. Holds(a) = {}
    BY <2>1, ActorFacts DEF Holds, SpinState, SpinOwners, Locked
  <2>5. answer = "ok" BY <1>1, <2>2, <2>3, <2>4 DEF AnswerLock
  <2>6. owner[sem] = 0 /\ Accepted(a, answer)
    BY <1>3, <2>1, <2>3, <2>5 DEF LitmusLock, Accepted
  <2>7. Advance(a) /\ owner' = [owner EXCEPT ![sem] = a] /\ UNCHANGED <<status, realtime, table>>
    BY <1>3, <2>3, <2>5, <2>6 DEF LitmusLock, Fail
  <2> HIDE DEF answer, o
  <2>8. at' = [at EXCEPT ![a] = at[a] + 1] /\ at[a] + 1 \in {4, 7} BY <2>1, <2>7 DEF Advance
  <2>9. SpinOwners(p)'
    BY <1>1, <2>1, <2>6, <2>7, <2>8 DEF SpinState, SpinOwners, Typed, TypeOK, Locked
  <2>10. ASSUME NEW b \in Actor, status'[b] = "running" PROVE Spinner(b, p)'
    <3>1. CASE b = a BY <1>1, <2>1, <2>2, <2>7, <2>8, <3>1 DEF Spinner, Typed, TypeOK
    <3>2. CASE b # a
      <4>1. Spinner(b, p) BY <2>7, <2>10 DEF SpinState
      <4>2. at[b] \notin Locked BY <2>6, <4>1, ActorFacts DEF Spinner
      <4>3. QED BY <2>7, <2>8, <3>2, <4>1, <4>2 DEF Spinner, Typed, TypeOK
    <3>3. QED BY <3>1, <3>2
  <2>11. QED BY <2>7, <2>9, <2>10 DEF SpinState, Advance
<1>4. ASSUME NEW a \in Actor, LitmusUnlock(a) PROVE SpinState(p)'
  <2> DEFINE answer == AnswerUnlock(a, Current(a).od)
             o == ObjectOf(a, Current(a).od)
  <2>1. Calls(a, "unlock") /\ at[a] \in {5, 8} /\ Current(a).od = 0
        /\ Current(a).expect = "any" /\ status[a] = "running"
    BY <1>1, <1>4, SpinCall DEF LitmusUnlock, Calls
  <2>2. table[a][0] = sem /\ owner[sem] = a /\ a \in realtime
    BY <2>1 DEF SpinState, Spinner, Locked
  <2>3. o = sem BY <1>1, <2>1, <2>2 DEF ObjectOf
  <2>4. answer = "ok" BY <1>1, <2>1, <2>2, <2>3 DEF AnswerUnlock
  <2>5. Advance(a) /\ owner' = [owner EXCEPT ![sem] = 0] /\ UNCHANGED <<status, realtime, table>>
    BY <1>4, <2>1, <2>3, <2>4 DEF LitmusUnlock, Fail, Accepted
  <2> HIDE DEF answer, o
  <2>6. at' = [at EXCEPT ![a] = at[a] + 1] /\ at[a] + 1 \in {6, 9} BY <2>1, <2>5 DEF Advance
  <2>7. \A x \in Object : owner'[x] = 0
    BY <1>1, <2>5, ActorFacts DEF SpinState, SpinOwners, Typed, TypeOK
  <2>8. SpinOwners(p)' BY <2>7 DEF SpinOwners
  <2>9. ASSUME NEW b \in Actor, status'[b] = "running" PROVE Spinner(b, p)'
    <3>1. CASE b = a BY <2>1, <2>2, <2>5, <2>6, <3>1 DEF Spinner, Typed, TypeOK, Locked
    <3>2. CASE b # a
      <4>1. Spinner(b, p) BY <2>5, <2>9 DEF SpinState
      <4>2. at[b] \notin Locked BY <2>2, <3>2, <4>1 DEF Spinner
      <4>3. QED BY <2>5, <2>6, <3>2, <4>1, <4>2 DEF Spinner, Typed, TypeOK
    <3>3. QED BY <3>1, <3>2
  <2>10. QED BY <2>5, <2>8, <2>9 DEF SpinState, Advance
<1>5. ASSUME NEW a \in Actor, TaskMode(a) PROVE SpinState(p)'
  <2>1. status[a] = "running" /\ Spinner(a, p) BY <1>5 DEF TaskMode, Calls, SpinState
  <2>2. Advance(a) /\ UNCHANGED <<status, table, owner>> BY <1>5 DEF TaskMode
  <2>3. \/ at[a] = 1 /\ realtime' = realtime \cup {a}
        \/ at[a] = 9 /\ realtime' = realtime \ {a}
    BY <1>1, <1>5, SpinCall DEF TaskMode
  <2>4. at' = [at EXCEPT ![a] = at[a] + 1] /\ at[a] \in {1, 9} BY <2>2, <2>3 DEF Advance
  <2>5. SpinOwners(p)' BY <2>2, <2>4 DEF SpinState, SpinOwners, Typed, TypeOK, Locked
  <2>6. ASSUME NEW b \in Actor, status'[b] = "running" PROVE Spinner(b, p)'
    <3>1. CASE b = a BY <2>1, <2>2, <2>3, <2>4, <3>1 DEF Spinner, Typed, TypeOK, Locked
    <3>2. CASE b # a
      <4>1. Spinner(b, p) BY <2>2, <2>6 DEF SpinState
      <4>2. QED BY <2>2, <2>3, <2>4, <3>2, <4>1 DEF Spinner, Typed, TypeOK
    <3>3. QED BY <3>1, <3>2
  <2>7. QED BY <2>2, <2>5, <2>6 DEF SpinState, Advance
<1>6. ASSUME NEW a \in Actor, LoopFor(a) PROVE SpinState(p)'
  <2>1. status[a] = "running" /\ Spinner(a, p) BY <1>6 DEF LoopFor, Calls, SpinState
  <2>2. Advance(a) /\ UNCHANGED <<status, realtime, table, owner>> BY <1>6 DEF LoopFor
  <2>3. at[a] \in {4, 7} BY <1>1, <1>6, SpinCall DEF LoopFor
  <2>4. at' = [at EXCEPT ![a] = at[a] + 1] /\ at[a] + 1 \in {5, 8} BY <2>2, <2>3 DEF Advance
  <2>5. SpinOwners(p)' BY <2>2, <2>4 DEF SpinState, SpinOwners, Typed, TypeOK, Locked
  <2>6. ASSUME NEW b \in Actor, status'[b] = "running" PROVE Spinner(b, p)'
    <3>1. CASE b = a BY <2>1, <2>2, <2>3, <2>4, <3>1 DEF Spinner, Typed, TypeOK, Locked
    <3>2. CASE b # a
      <4>1. Spinner(b, p) BY <2>2, <2>6 DEF SpinState
      <4>2. QED BY <2>2, <2>4, <3>2, <4>1 DEF Spinner, Typed, TypeOK
    <3>3. QED BY <3>1, <3>2
  <2>7. QED BY <2>2, <2>5, <2>6 DEF SpinState, Advance
<1>7. ASSUME NEW a \in Actor, OdClose(a) \/ Fork(a) \/ Waitpid(a) PROVE SpinState(p)'
  BY <1>1, <1>7, SpinCall DEF OdClose, Fork, Waitpid
<1>8. ASSUME NEW a \in Actor, Exit(a) \/ Kill(a) PROVE SpinState(p)'
  BY <1>8, GoneSpin DEF Exit, Kill
<1>9. CASE UNCHANGED vars
  BY <1>9 DEF vars, SpinState, SpinOwners, Spinner
<1>10. QED
  BY <1>2, <1>3, <1>4, <1>5, <1>6, <1>7, <1>8, <1>9 DEF Next, ActorStep

LEMMA WorkloadNext ==
  ASSUME IInv, [Next]_vars
  PROVE  Workload'
<1>1. CASE program \in [Actor -> TestProgram]
  <2>1. program' = program
    BY DEF Next, vars, ActorStep, OpenLock, LitmusLock, LitmusUnlock, OdClose, TaskMode,
           Fork, Waitpid, LoopFor, Exit, Kill, Fail, Advance
  <2>2. QED BY <1>1, <2>1 DEF Workload
<1>2. ASSUME NEW p \in Protocol, SpinState(p) PROVE Workload'
  BY <1>2, SpinNext DEF IInv, Workload
<1>3. QED BY <1>1, <1>2 DEF IInv, Workload

LEMMA InductiveInvariant == Spec => []IInv
<1>1. Init => IInv BY InitTyped, InitWorkload DEF IInv
<1>2. IInv /\ [Next]_vars => IInv' BY TypedNext, WorkloadNext DEF IInv
<1>3. QED BY <1>1, <1>2, PTL DEF Spec

\* What the invariant says of critical sections.
LEMMA SectionsExclude ==
  ASSUME IInv
  PROVE  Exclusion
<1>1. SUFFICES ASSUME NEW a \in Actor, NEW b \in Actor, Calls(a, "critical"), Calls(b, "critical")
               PROVE  a = b
  BY DEF Exclusion
<1>2. CASE program \in [Actor -> TestProgram]
  <2>1. program[a] \in TestProgram /\ Current(a).call = "critical" BY <1>1, <1>2 DEF Calls
  <2>2. at[a] \in 1..Len(program[a]) /\ Len(program[a]) \in Nat
    <3>1. Len(program[a]) \in Nat BY ProgramFacts DEF IInv, Typed
    <3>2. at[a] \in 1..Len(program[a]) + 1 /\ at[a] <= Len(program[a])
      BY <1>1 DEF IInv, Typed, TypeOK, Calls
    <3>3. QED BY <3>1, <3>2
  <2>3. Current(a) \in Steps(TestCall)
    BY <2>1, <2>2, ElementOfSeq DEF Current, TestProgram
  <2>4. QED BY <2>1, <2>3 DEF Steps, TestCall
<1>3. ASSUME NEW p \in Protocol, SpinState(p) PROVE a = b
  <2>1. at[a] \in {4, 7} /\ at[b] \in {4, 7}
    BY <1>1, <1>3, SpinCall DEF IInv, SpinState
  <2>2. Spinner(a, p) /\ Spinner(b, p) BY <1>1, <1>3 DEF SpinState, Calls
  <2>3. owner[<<p, 0>>] = a /\ owner[<<p, 0>>] = b BY <2>1, <2>2 DEF Spinner, Locked
  <2>4. QED BY <2>3
<1>4. QED BY <1>2, <1>3 DEF IInv, Workload

\* Critical sections exclude: in every workload, with any number of spinners,
\* although rtspin does not look at litmus_lock()'s answer.
THEOREM LocksExclude == Spec => []Exclusion
<1>1. IInv => Exclusion BY SectionsExclude
<1>2. QED BY <1>1, InductiveInvariant, PTL

\* With any number of spinners on one semaphore, of which any may be killed
\* anywhere, the whole invariant of the run holds: no lock is refused to a program
\* that does not look at the answer, and nobody comes to its end with a lock.
THEOREM SpinnersGiveBack == Spec => [](Spinning => LocksInv)
<1>1. ASSUME IInv, Spinning PROVE LocksInv
  <2>1. PICK q \in Protocol : program = [a \in Actor |-> RtSpin(q)] BY <1>1 DEF Spinning
  <2>2. program[1] \notin TestProgram BY <2>1, SpinIsNoTest, ActorFacts
  <2>3. program \notin [Actor -> TestProgram] BY <2>2, ActorFacts
  <2>4. PICK p \in Protocol : SpinState(p) BY <1>1, <2>3 DEF IInv, Workload
  <2>5. NoLockAtExit
    <3>1. SUFFICES ASSUME NEW a \in Actor, status[a] = "running", at[a] = Len(program[a]) + 1,
                          NEW o \in Object, owner[o] = a
                   PROVE  FALSE
      BY DEF NoLockAtExit, Holds
    <3>2. at[a] = 10 BY <1>1, <2>4, <3>1, SpinCall DEF IInv, SpinState
    <3>3. at[a] \in Locked BY <2>4, <3>1, ActorFacts DEF SpinState, SpinOwners
    <3>4. QED BY <3>2, <3>3 DEF Locked
  <2>6. NeverRefused
    <3>1. SUFFICES ASSUME NEW a \in Actor, Calls(a, "lock")
                   PROVE  AnswerLock(a, Current(a).od) = "ok"
      BY DEF NeverRefused
    <3>2. at[a] \in {3, 6} /\ Current(a).od = 0 /\ status[a] = "running"
      BY <1>1, <2>4, <3>1, SpinCall DEF IInv, SpinState, Calls
    <3>3. a \in realtime /\ table[a][0] = <<p, 0>> BY <2>4, <3>2 DEF SpinState, Spinner
    <3>4. Holds(a) = {}
      BY <2>4, <3>2, ActorFacts DEF Holds, SpinState, SpinOwners, Locked
    <3>5. ObjectOf(a, 0) = <<p, 0>> /\ <<p, 0>> # NoObject
      BY <3>3, LocksAssumption DEF ObjectOf, NoObject, Protocol
    <3>6. QED BY <3>2, <3>3, <3>4, <3>5 DEF AnswerLock
  <2>7. QED BY <1>1, <2>5, <2>6, SectionsExclude DEF LocksInv, IInv, Typed
<1>2. QED BY <1>1, InductiveInvariant, PTL
=============================================================================
