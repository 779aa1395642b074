---------------------------- MODULE Suite_proofs ----------------------------
(***************************************************************************)
(* Proofs about Suite, for any catalogue of tests, any plugins and any     *)
(* number of faults: what "ok" means, that nothing is printed twice, whom  *)
(* tests fail for and when a test signals more than its own children.      *)
(***************************************************************************)
EXTENDS Suite, FiniteSetTheorems, SequenceTheorems, TLAPS

-----------------------------------------------------------------------------
(* Types.                                                                  *)

Text == {"suite", "test", "ok", "failed", "result"} \X Nat

\* Types, with those of the buffers: only the runner has anything in its own.
Typed ==
  /\ TypeOK
  /\ IsFiniteSet(faults)
  /\ pending \in [Proc \cup {Runner} -> Seq(Text)]
  /\ out \in Seq(Text)
  /\ \A p \in Proc : pending[p] = <<>>

ChildNo == 1..3

LEMMA ProcFacts ==
  /\ \A i \in 1..MaxTests, k \in 0..3 : <<i, k>> \in Proc
  /\ \A p \in Proc : p[1] \in 1..MaxTests /\ p[2] \in 0..3 /\ p = <<p[1], p[2]>>
  /\ Runner \notin Proc
  BY SuiteAssumption DEF Proc, Runner, MaxChildren

LEMMA KindFacts ==
  ASSUME NEW x \in DOMAIN Kind
  PROVE  /\ Kind[x].children \in 0..3
         /\ Kind[x].sync => Kind[x].children >= 1 /\ ~Kind[x].lenient
         /\ ~Kind[x].sync => Kind[x].children <= 1
         /\ Kind[x].lenient => Kind[x].children = 1
<1>1. x \in {"alone", "child", "lenient", "rate", "resume", "ceiling"} BY DEF Kind
<1>2. /\ Kind["alone"]   = [children |-> 0, sync |-> FALSE, lenient |-> FALSE]
      /\ Kind["child"]   = [children |-> 1, sync |-> FALSE, lenient |-> FALSE]
      /\ Kind["lenient"] = [children |-> 1, sync |-> FALSE, lenient |-> TRUE]
      /\ Kind["rate"]    = [children |-> 1, sync |-> TRUE, lenient |-> FALSE]
      /\ Kind["resume"]  = [children |-> 2, sync |-> TRUE, lenient |-> FALSE]
      /\ Kind["ceiling"] = [children |-> 3, sync |-> TRUE, lenient |-> FALSE]
  BY DEF Kind
<1>3. QED
  <2>1. CASE x = "alone"
    <3>1. Kind[x].children = 0 /\ Kind[x].sync = FALSE /\ Kind[x].lenient = FALSE BY <1>2, <2>1
    <3>2. QED BY <3>1
  <2>2. CASE x = "child"
    <3>1. Kind[x].children = 1 /\ Kind[x].sync = FALSE /\ Kind[x].lenient = FALSE BY <1>2, <2>2
    <3>2. QED BY <3>1
  <2>3. CASE x = "lenient"
    <3>1. Kind[x].children = 1 /\ Kind[x].sync = FALSE /\ Kind[x].lenient = TRUE BY <1>2, <2>3
    <3>2. QED BY <3>1
  <2>4. CASE x = "rate"
    <3>1. Kind[x].children = 1 /\ Kind[x].sync = TRUE /\ Kind[x].lenient = FALSE BY <1>2, <2>4
    <3>2. QED BY <3>1
  <2>5. CASE x = "resume"
    <3>1. Kind[x].children = 2 /\ Kind[x].sync = TRUE /\ Kind[x].lenient = FALSE BY <1>2, <2>5
    <3>2. QED BY <3>1
  <2>6. CASE x = "ceiling"
    <3>1. Kind[x].children = 3 /\ Kind[x].sync = TRUE /\ Kind[x].lenient = FALSE BY <1>2, <2>6
    <3>2. QED BY <3>1
  <2>7. QED BY <1>1, <2>1, <2>2, <2>3, <2>4, <2>5, <2>6

-----------------------------------------------------------------------------
(* The life of a test, and of its children.                                *)

Children(i) == Kind[suite[i]].children
Sync(i) == Kind[suite[i]].sync
Lenient(i) == Kind[suite[i]].lenient

BeforeRelease == {"forking", "polling", "releasing"}

\* One test runs at a time, those before it have their verdicts, and those after
\* it do not exist.  Children exist as far as their test has forked them, and
\* those of a synchronous test alone wait.
Shape(i) ==
  /\ i > Len(verdict) + 1 => state[<<i, 0>>] = "unborn"
  /\ i <= Len(verdict) =>
       state[<<i, 0>>] \in Ended /\ verdict[i] = VerdictOn(state[<<i, 0>>])
  /\ state[<<i, 0>>] \in BeforeRelease \cup {"unborn", "collecting"} \cup Ended
  /\ \A k \in ChildNo :
       state[<<i, k>>] \in {"unborn", "absent", "setup", "waiting", "released"} \cup Ended
  /\ state[<<i, 0>>] = "unborn" =>
       at[<<i, 0>>] = 0 /\ \A k \in ChildNo : state[<<i, k>>] = "unborn"
  /\ i > Len(suite) => state[<<i, 0>>] = "unborn"
  /\ \A k \in ChildNo : state[<<i, k>>] # "unborn" => k <= Children(i)
  /\ state[<<i, 0>>] = "forking" =>
       /\ at[<<i, 0>>] <= Children(i)
       /\ \A k \in ChildNo : state[<<i, k>>] = "unborn" <=> k > at[<<i, 0>>]
  /\ state[<<i, 0>>] \in {"polling", "releasing"} => Sync(i) /\ at[<<i, 0>>] = 0
  /\ state[<<i, 0>>] \in {"polling", "releasing", "collecting", "exited"} =>
       \A k \in ChildNo : k <= Children(i) => state[<<i, k>>] # "unborn"
  /\ \A k \in ChildNo : state[<<i, k>>] \in {"waiting", "released"} => Sync(i)

\* exit() of a process of a test writes nothing.
LEMMA SilentEnd ==
  ASSUME Typed, NEW p \in Proc, NEW how, End(p, how)
  PROVE  state' = [state EXCEPT ![p] = how] /\ out' = out
<1>1. pending[p] = <<>> /\ out \in Seq(Text) BY DEF Typed
<1>2. out \o <<>> = out BY <1>1, ConcatEmptySeq
<1>3. QED BY <1>1, <1>2 DEF End

LEMMA FaultsTyped ==
  ASSUME Typed, NEW p, NEW what, Faulty(p, what)
  PROVE  IsFiniteSet(faults') /\ Cardinality(faults') <= MaxFaults /\ faults \subseteq faults'
<1> DEFINE f == [test |-> p[1], what |-> what,
                 early |-> KindOf(p).sync
                             /\ state[Test(p)] \in {"forking", "polling", "releasing"}]
<1>1. faults' = faults \cup {f} /\ Cardinality(faults) < MaxFaults BY DEF Faulty
<1>2. IsFiniteSet(faults) BY DEF Typed
<1> HIDE DEF f
<1>3. Cardinality(faults) \in Nat /\ MaxFaults \in Nat
  BY <1>2, FS_CardinalityType, SuiteAssumption
<1>4. QED BY <1>1, <1>2, <1>3, FS_AddElement

\* The kind of the test of a process that exists.
LEMMA Existing ==
  ASSUME Typed, \A i \in 1..MaxTests : Shape(i), NEW p \in Proc, state[p] # "unborn"
  PROVE  /\ p[1] \in 1..Len(suite) /\ suite[p[1]] \in DOMAIN Kind
         /\ p = <<p[1], p[2]>> /\ p[1] \in 1..MaxTests /\ p[2] \in 0..3
         /\ Test(p) = <<p[1], 0>> /\ state[<<p[1], 0>>] # "unborn"
<1>1. p[1] \in 1..MaxTests /\ p[2] \in 0..3 /\ p = <<p[1], p[2]>> BY ProcFacts
<1>2. Shape(p[1]) BY <1>1
<1>3. state[<<p[1], 0>>] # "unborn"
  <2>1. CASE p[2] = 0 BY <1>1, <2>1
  <2>2. CASE p[2] \in ChildNo BY <1>1, <1>2, <2>2 DEF Shape
  <2>3. QED BY <1>1, <2>1, <2>2 DEF ChildNo
<1>4. suite \in Seq(DOMAIN Kind) /\ Len(suite) \in Nat BY DEF Typed, TypeOK
<1>5. p[1] \in 1..Len(suite) BY <1>1, <1>2, <1>3, <1>4 DEF Shape
<1>6. suite[p[1]] \in DOMAIN Kind BY <1>4, <1>5, ElementOfSeq
<1>7. QED BY <1>1, <1>3, <1>5, <1>6 DEF Test

LEMMA InitTyped ==
  ASSUME Init
  PROVE  Typed /\ \A i \in 1..MaxTests : Shape(i)
<1>1. suite \in Seq(DOMAIN Kind) /\ Len(suite) <= MaxTests BY SuiteAssumption DEF Init
<1>2. 0 \in 0..MaxChildren BY DEF MaxChildren
<1>3. IsFiniteSet(faults) /\ Cardinality(faults) <= MaxFaults
  BY FS_EmptySet, SuiteAssumption DEF Init
<1>4. <<Line("suite", 0)>> \in Seq(Text) /\ <<>> \in Seq(Text)
  <2>1. Line("suite", 0) \in Text BY DEF Line, Text
  <2>2. QED BY <2>1
<1>5. pending \in [Proc \cup {Runner} -> Seq(Text)] /\ \A p \in Proc : pending[p] = <<>>
  BY <1>4, ProcFacts DEF Init
<1>6. verdict \in Seq({"ok", "failed", "silent"}) /\ Len(verdict) = 0 BY DEF Init
<1>7. Len(suite) \in Nat BY <1>1
<1>8. TypeOK
  <2>1. state \in [Proc -> {"unborn", "absent"} \cup Live \cup Ended] /\ at \in [Proc -> 0..MaxChildren]
    BY <1>2 DEF Init
  <2>2. Len(verdict) <= Len(suite) BY <1>6, <1>7
  <2>3. collected = {} /\ runner = "running" /\ broadcast = FALSE BY DEF Init
  <2>4. QED BY <1>1, <1>3, <1>6, <2>1, <2>2, <2>3 DEF TypeOK
<1>9. \A i \in 1..MaxTests, k \in 0..3 : state[<<i, k>>] = "unborn" BY ProcFacts DEF Init
<1>10. ASSUME NEW i \in 1..MaxTests PROVE Shape(i)
  <2>1. state[<<i, 0>>] = "unborn" /\ \A k \in ChildNo : state[<<i, k>>] = "unborn"
    BY <1>9 DEF ChildNo
  <2>5. <<i, 0>> \in Proc BY DEF Proc, MaxChildren
  <2>4. at[<<i, 0>>] = 0 BY <2>5 DEF Init
  <2>2. ~(i <= Len(verdict)) BY <1>6
  <2>3. QED BY <2>1, <2>2, <2>4 DEF Shape, BeforeRelease, Ended
<1>11. QED BY <1>3, <1>4, <1>5, <1>8, <1>10 DEF Typed, Init

-----------------------------------------------------------------------------
(* What the steps do, process by process.                                  *)

\* A step that changes the state of <<i, k>> alone, or its counter.
Turns(i, k, s) ==
  /\ state'[<<i, k>>] = s
  /\ \A j \in 1..MaxTests, m \in 0..3 : j # i \/ m # k => state'[<<j, m>>] = state[<<j, m>>]
Counts(i, k, n) ==
  /\ at'[<<i, k>>] = n
  /\ \A j \in 1..MaxTests, m \in 0..3 : j # i \/ m # k => at'[<<j, m>>] = at[<<j, m>>]

\* There is a new fault in test i.
Faulted(i, what) ==
  \E f \in faults' :
    /\ f.test = i /\ f.what = what
    /\ f.early <=> Sync(i) /\ state[<<i, 0>>] \in BeforeRelease

\* A step leaves test j alone.
Same(j) ==
  \A k \in 0..3 :
    /\ state'[<<j, k>>] = state[<<j, k>>]
    /\ at'[<<j, k>>] = at[<<j, k>>]
    /\ <<j, k>> \in collected' <=> <<j, k>> \in collected

LEMMA TurnsByExcept ==
  ASSUME Typed, NEW i \in 1..MaxTests, NEW k \in 0..3, NEW s,
         state' = [state EXCEPT ![<<i, k>>] = s]
  PROVE  Turns(i, k, s)
<1>1. state \in [Proc -> {"unborn", "absent"} \cup Live \cup Ended] BY DEF Typed, TypeOK
<1>2. QED BY <1>1, ProcFacts DEF Turns

LEMMA CountsByExcept ==
  ASSUME Typed, NEW i \in 1..MaxTests, NEW k \in 0..3, NEW n,
         at' = [at EXCEPT ![<<i, k>>] = n]
  PROVE  Counts(i, k, n)
<1>1. at \in [Proc -> 0..MaxChildren] BY DEF Typed, TypeOK
<1>2. QED BY <1>1, ProcFacts DEF Counts

LEMMA FaultedByFaulty ==
  ASSUME NEW p, NEW what, Test(p) = <<p[1], 0>>, Faulty(p, what)
  PROVE  Faulted(p[1], what) /\ faults \subseteq faults'
<1> DEFINE f == [test |-> p[1], what |-> what,
                 early |-> KindOf(p).sync
                             /\ state[Test(p)] \in {"forking", "polling", "releasing"}]
<1>1. faults' = faults \cup {f} BY DEF Faulty
<1>2. f.test = p[1] /\ f.what = what OBVIOUS
<1>3. f.early <=> Sync(p[1]) /\ state[<<p[1], 0>>] \in BeforeRelease
  BY DEF KindOf, Sync, BeforeRelease
<1> HIDE DEF f
<1>4. f \in faults' BY <1>1
<1>5. QED BY <1>1, <1>2, <1>3, <1>4 DEF Faulted

-----------------------------------------------------------------------------
(* Type correctness.                                                       *)

LEMMA Frozen ==
  ASSUME Typed, NEW c \in collected
  PROVE  c \in Proc /\ state[c] \in Ended /\ state[c] \notin Live
         /\ state[c] \notin {"unborn", "absent"}
  BY DEF Typed, TypeOK, Ended, Live

\* The runner's lines.
LEMMA LineTypes ==
  ASSUME Typed
  PROVE  /\ \A t \in {"suite", "test", "ok", "failed", "result"}, i \in Nat : Line(t, i) \in Text
         /\ \A x \in Text, s \in Seq(Text) : s \o <<x>> \in Seq(Text) /\ Append(s, x) \in Seq(Text)
         /\ pending[Runner] \in Seq(Text) /\ out \in Seq(Text) /\ <<>> \in Seq(Text)
         /\ out \o pending[Runner] \in Seq(Text)
         /\ Len(verdict) \in Nat /\ Current[1] = Len(verdict) + 1
<1>1. \A t \in {"suite", "test", "ok", "failed", "result"}, i \in Nat : Line(t, i) \in Text
  BY DEF Line, Text
<1>2. pending[Runner] \in Seq(Text) /\ out \in Seq(Text) BY DEF Typed
<1>3. Len(verdict) \in Nat /\ Current[1] = Len(verdict) + 1
  BY DEF Typed, TypeOK, Current
<1>4. \A x \in Text, s \in Seq(Text) : s \o <<x>> \in Seq(Text) /\ Append(s, x) \in Seq(Text)
  OBVIOUS
<1>5. QED BY <1>1, <1>2, <1>3, <1>4

LEMMA CurrentProc ==
  ASSUME Typed, Len(verdict) < Len(suite)
  PROVE  Current \in Proc /\ Current[1] \in 1..MaxTests /\ Current = <<Len(verdict) + 1, 0>>
         /\ Current[1] = Len(verdict) + 1
<1>1. Len(verdict) \in Nat /\ Len(suite) \in Nat /\ Len(suite) <= MaxTests /\ MaxTests \in Nat
  BY SuiteAssumption DEF Typed, TypeOK
<1>2. Len(verdict) + 1 \in 1..MaxTests BY <1>1
<1>3. <<Len(verdict) + 1, 0>> \in Proc BY <1>2 DEF Proc, MaxChildren
<1>4. QED BY <1>2, <1>3 DEF Current

LEMMA TypedNext ==
  ASSUME Typed, \A i \in 1..MaxTests : Shape(i), [Next]_vars
  PROVE  Typed'
<1> USE DEF MaxChildren
<1>1. CASE RunTest
  <2>1. Current \in Proc /\ Current[1] = Len(verdict) + 1 BY <1>1, CurrentProc DEF RunTest
  <2>2. out' \in Seq(Text)
    <3>1. out' = (out \o pending[Runner]) \o <<Line("test", Current[1])>> BY <1>1 DEF RunTest
    <3>2. Line("test", Current[1]) \in Text BY <2>1, LineTypes
    <3>3. QED BY <3>1, <3>2, LineTypes
  <2>3. pending' \in [Proc \cup {Runner} -> Seq(Text)] /\ \A q \in Proc : pending'[q] = <<>>
    BY <1>1, ProcFacts, LineTypes DEF RunTest, Typed
  <2>4. collected \subseteq {q \in Proc : state'[q] \in Ended}
    BY <1>1, Frozen DEF RunTest, Typed, TypeOK
  <2>5. state' \in [Proc -> {"unborn", "absent"} \cup Live \cup Ended]
    BY <1>1 DEF RunTest, Typed, TypeOK, Live
  <2>6. QED BY <1>1, <2>2, <2>3, <2>4, <2>5 DEF RunTest, Typed, TypeOK
<1>2. CASE RunnerCannotFork
  <2>1. Current \in Proc /\ Current[1] = Len(verdict) + 1
    BY <1>2, CurrentProc DEF RunnerCannotFork
  <2>2. out' \in Seq(Text)
    <3>1. out' = (out \o pending[Runner]) \o <<Line("test", Current[1])>>
      BY <1>2 DEF RunnerCannotFork
    <3>2. Line("test", Current[1]) \in Text BY <2>1, LineTypes
    <3>3. QED BY <3>1, <3>2, LineTypes
  <2>3. pending' \in [Proc \cup {Runner} -> Seq(Text)] /\ \A q \in Proc : pending'[q] = <<>>
    BY <1>2, ProcFacts, LineTypes DEF RunnerCannotFork, Typed
  <2>4. IsFiniteSet(faults') /\ Cardinality(faults') <= MaxFaults
    BY <1>2, FaultsTyped DEF RunnerCannotFork
  <2>5. QED BY <1>2, <2>2, <2>3, <2>4 DEF RunnerCannotFork, Typed, TypeOK
<1>3. CASE Report
  <2> DEFINE v == VerdictOn(state[Current])
  <2>1. v \in {"ok", "failed", "silent"} BY DEF VerdictOn
  <2>2. /\ verdict' = Append(verdict, v)
        /\ pending' = [pending EXCEPT ![Runner] =
                         IF v = "silent" THEN @ ELSE Append(@, Line(v, Current[1]))]
        /\ UNCHANGED <<suite, runner, state, at, collected, out, faults, broadcast>>
        /\ Len(verdict) < Len(suite)
    BY <1>3 DEF Report
  <2> HIDE DEF v
  <2>3. verdict' \in Seq({"ok", "failed", "silent"}) /\ Len(verdict') <= Len(suite)
    BY <2>1, <2>2 DEF Typed, TypeOK
  <2>4. v # "silent" => Line(v, Current[1]) \in Text BY <2>1, LineTypes
  <2>5. pending' \in [Proc \cup {Runner} -> Seq(Text)] /\ \A q \in Proc : pending'[q] = <<>>
    BY <2>2, <2>4, ProcFacts, LineTypes DEF Typed
  <2>6. QED BY <2>2, <2>3, <2>5 DEF Typed, TypeOK
<1>4. CASE Result
  <2>1. out' \in Seq(Text)
    <3>1. out' = (out \o pending[Runner]) \o <<Line("result", 0)>> BY <1>4 DEF Result
    <3>2. Line("result", 0) \in Text BY LineTypes
    <3>3. QED BY <3>1, <3>2, LineTypes
  <2>2. pending' \in [Proc \cup {Runner} -> Seq(Text)] /\ \A q \in Proc : pending'[q] = <<>>
    BY <1>4, ProcFacts, LineTypes DEF Result, Typed
  <2>3. QED BY <1>4, <2>1, <2>2 DEF Result, Typed, TypeOK
<1>5. ASSUME NEW p \in Proc, NEW how \in Ended, state[p] \in Live, End(p, how),
             UNCHANGED <<suite, verdict>>, runner' = runner,
             at' \in [Proc -> 0..3], broadcast' = broadcast, pending' = pending,
             collected' \subseteq collected \cup {q \in Proc : state[q] \in Ended},
             IsFiniteSet(faults') /\ Cardinality(faults') <= MaxFaults
      PROVE  Typed'
  <2>1. state' = [state EXCEPT ![p] = how] /\ out' = out BY <1>5, SilentEnd
  <2>2. state' \in [Proc -> {"unborn", "absent"} \cup Live \cup Ended]
    BY <1>5, <2>1 DEF Typed, TypeOK
  <2>3. collected' \subseteq {q \in Proc : state'[q] \in Ended}
    BY <1>5, <2>1, Frozen DEF Typed, TypeOK
  <2>4. QED BY <1>5, <2>1, <2>2, <2>3 DEF Typed, TypeOK
<1>6. ASSUME NEW p \in Proc, ForkTask(p) PROVE Typed'
  <2> DEFINE c == <<p[1], at[p] + 1>>
  <2>1. state[p] = "forking" /\ at[p] < KindOf(p).children /\ at[p] \in 0..3 /\ p[2] = 0
    BY <1>6 DEF ForkTask, Typed, TypeOK, IsTest
  <2>2. p[1] \in 1..MaxTests /\ KindOf(p).children \in 0..3 /\ p = <<p[1], 0>>
    BY <2>1, Existing, KindFacts DEF KindOf
  <2>3. c \in Proc /\ at[p] + 1 \in 0..3
    <3>1. at[p] + 1 \in 0..3 BY <2>1, <2>2
    <3>2. QED BY <2>2, <3>1, ProcFacts
  <2>4. state[c] = "unborn"
    <3>1. at[p] + 1 \in ChildNo /\ at[p] + 1 > at[p] BY <2>1, <2>2 DEF ChildNo
    <3>2. QED BY <2>1, <2>2, <3>1 DEF Shape
  <2>5. c \notin collected BY <2>4, Frozen
  <2>6. UNCHANGED <<suite, runner, verdict, collected, broadcast>> BY <1>6 DEF ForkTask
  <2>7. CASE Fork(p, c) /\ at' = [at EXCEPT ![p] = @ + 1] /\ UNCHANGED <<out, faults>>
    <3>1. pending' = [pending EXCEPT ![c] = <<>>]
          /\ \E s \in Live : state' = [state EXCEPT ![c] = s]
      BY <2>7 DEF Fork, Typed, Live
    <3> HIDE DEF c
    <3>2. pending' \in [Proc \cup {Runner} -> Seq(Text)] /\ \A q \in Proc : pending'[q] = <<>>
      BY <2>3, <3>1, LineTypes DEF Typed
    <3>3. state' \in [Proc -> {"unborn", "absent"} \cup Live \cup Ended]
          /\ collected \subseteq {q \in Proc : state'[q] \in Ended}
      BY <2>3, <2>5, <3>1 DEF Typed, TypeOK
    <3>4. at' \in [Proc -> 0..3] BY <2>3, <2>7 DEF Typed, TypeOK
    <3>5. QED BY <2>6, <2>7, <3>2, <3>3, <3>4 DEF Typed, TypeOK
  <2>8. CASE Faulty(p, "fork") /\ End(p, "failed") /\ UNCHANGED <<at, pending>>
    <3>1. IsFiniteSet(faults') /\ Cardinality(faults') <= MaxFaults BY <2>8, FaultsTyped
    <3>2. at' \in [Proc -> 0..3] BY <2>8 DEF Typed, TypeOK
    <3>3. "failed" \in Ended /\ state[p] \in Live BY <2>1 DEF Ended, Live
    <3>4. QED BY <1>5, <2>6, <2>8, <3>1, <3>2, <3>3
  <2>9. CASE /\ Faulty(p, "fork") /\ state' = [state EXCEPT ![c] = "absent"]
             /\ at' = [at EXCEPT ![p] = @ + 1] /\ UNCHANGED <<out, pending>>
    <3>1. IsFiniteSet(faults') /\ Cardinality(faults') <= MaxFaults BY <2>9, FaultsTyped
    <3> HIDE DEF c
    <3>2. state' \in [Proc -> {"unborn", "absent"} \cup Live \cup Ended]
          /\ collected \subseteq {q \in Proc : state'[q] \in Ended}
      BY <2>3, <2>5, <2>9 DEF Typed, TypeOK
    <3>3. at' \in [Proc -> 0..3] BY <2>3, <2>9 DEF Typed, TypeOK
    <3>4. QED BY <2>6, <2>9, <3>1, <3>2, <3>3 DEF Typed, TypeOK
  <2>10. QED BY <1>6, <2>7, <2>8, <2>9 DEF ForkTask
<1>7. ASSUME NEW p \in Proc, NEW s \in Live, state[p] \in Live,
             state' = [state EXCEPT ![p] = s],
             UNCHANGED <<suite, runner, verdict, collected, pending, out, broadcast>>,
             at' \in [Proc -> 0..3], IsFiniteSet(faults') /\ Cardinality(faults') <= MaxFaults
      PROVE  Typed'
  <2>1. state' \in [Proc -> {"unborn", "absent"} \cup Live \cup Ended]
        /\ collected \subseteq {q \in Proc : state'[q] \in Ended}
    BY <1>7, Frozen DEF Typed, TypeOK
  <2>2. QED BY <1>7, <2>1 DEF Typed, TypeOK
<1>8. at \in [Proc -> 0..3] /\ IsFiniteSet(faults) /\ Cardinality(faults) <= MaxFaults
  BY DEF Typed, TypeOK
<1>9. ASSUME NEW p \in Proc, Forked(p) PROVE Typed'
  <2>1. \E s \in Live : state' = [state EXCEPT ![p] = s] BY <1>9 DEF Forked, Live
  <2>2. state[p] \in Live /\ at' \in [Proc -> 0..3] BY <1>8, <1>9 DEF Forked, Live
  <2>3. UNCHANGED <<suite, runner, verdict, collected, pending, out, faults, broadcast>>
    BY <1>9 DEF Forked
  <2>4. QED BY <1>7, <1>8, <2>1, <2>2, <2>3
<1>10. ASSUME NEW p \in Proc, Poll(p) PROVE Typed'
  <2>1. state' = [state EXCEPT ![p] = "releasing"] /\ "releasing" \in Live /\ state[p] \in Live
    BY <1>10 DEF Poll, Live
  <2>2. UNCHANGED <<suite, runner, verdict, at, collected, pending, out, faults, broadcast>>
    BY <1>10 DEF Poll
  <2>3. QED BY <1>7, <1>8, <2>1, <2>2
<1>11. ASSUME NEW p \in Proc, ReleaseTs(p) PROVE Typed'
  <2>1. state[p] \in Live /\ "collecting" \in Live /\ "released" \in Live /\ "waiting" \in Live
    BY <1>11 DEF ReleaseTs, Live
  <2>2. UNCHANGED <<suite, runner, verdict, at, collected, pending, out, broadcast>>
    BY <1>11 DEF ReleaseTs
  <2>3. CASE /\ state' = [q \in Proc |-> IF q = p THEN "collecting"
                                         ELSE IF q \in Waiters THEN "released" ELSE state[q]]
             /\ UNCHANGED faults
    <3>1. \A q \in Waiters : q \in Proc /\ state[q] = "waiting" BY DEF Waiters
    <3>2. state' \in [Proc -> {"unborn", "absent"} \cup Live \cup Ended]
      BY <2>1, <2>3 DEF Typed, TypeOK
    <3>3. collected \subseteq {q \in Proc : state'[q] \in Ended}
      BY <2>1, <2>3, <3>1, Frozen DEF Typed, TypeOK
    <3>4. QED BY <2>2, <2>3, <3>2, <3>3 DEF Typed, TypeOK
  <2>4. CASE Faulty(p, "release") /\ state' = [state EXCEPT ![p] = "collecting"]
    BY <1>7, <1>8, <2>1, <2>2, <2>4, FaultsTyped
  <2>5. QED BY <1>11, <2>3, <2>4 DEF ReleaseTs
<1>12. ASSUME NEW p \in Proc, Waitpid(p) PROVE Typed'
  <2>1. state[p] \in Live /\ "failed" \in Ended BY <1>12 DEF Waitpid, Live, Ended
  <2>2. UNCHANGED <<suite, runner, verdict, pending, faults, broadcast>> BY <1>12 DEF Waitpid
  <2>3. CASE End(p, "failed") /\ UNCHANGED <<at, collected>>
    BY <1>5, <1>8, <2>1, <2>2, <2>3
  <2>4. ASSUME NEW c \in Candidates(p), Answers(c), collected' = collected \cup {c},
               \/ at' = [at EXCEPT ![p] = @ + 1] /\ UNCHANGED <<state, out>>
               \/ End(p, "failed") /\ UNCHANGED at
        PROVE  Typed'
    <3>1. p[1] \in 1..MaxTests /\ KindOf(p).children \in 0..3
      BY <2>1, Existing, KindFacts DEF KindOf, Live
    <3>2. Candidates(p) \subseteq {<<p[1], k>> : k \in 1..KindOf(p).children}
      BY DEF Candidates
    <3>3. c \in Proc /\ state[c] \in Ended
      <4>1. PICK k \in 1..KindOf(p).children : c = <<p[1], k>> BY <2>4, <3>2
      <4>2. k \in 0..3 BY <3>1
      <4>3. QED BY <2>4, <3>1, <4>1, <4>2, ProcFacts DEF Answers
    <3>4. CASE at' = [at EXCEPT ![p] = @ + 1] /\ UNCHANGED <<state, out>>
      <4>1. at[p] < KindOf(p).children /\ at[p] \in 0..3 BY <1>8, <1>12 DEF Waitpid
      <4>2. at' \in [Proc -> 0..3] BY <1>8, <3>1, <3>4, <4>1
      <4>3. QED BY <2>2, <2>4, <3>3, <3>4, <4>2 DEF Typed, TypeOK
    <3>5. CASE End(p, "failed") /\ UNCHANGED at
      BY <1>5, <1>8, <2>1, <2>2, <2>4, <3>3, <3>5
    <3>6. QED BY <2>4, <3>4, <3>5
  <2>5. QED BY <1>12, <2>3, <2>4 DEF Waitpid
<1>13. ASSUME NEW p \in Proc, TestExits(p) PROVE Typed'
  <2>1. state[p] \in Live /\ "exited" \in Ended BY <1>13 DEF TestExits, Live, Ended
  <2>2. QED BY <1>5, <1>8, <1>13, <2>1 DEF TestExits
<1>14. ASSUME NEW p \in Proc, Arrive(p) PROVE Typed'
  <2>1. state[p] \in Live /\ "exited" \in Ended /\ "waiting" \in Live
    BY <1>14 DEF Arrive, Live, Ended
  <2>2. CASE state' = [state EXCEPT ![p] = "waiting"] /\ UNCHANGED out
    BY <1>7, <1>8, <1>14, <2>1, <2>2 DEF Arrive
  <2>3. CASE End(p, "exited") BY <1>5, <1>8, <1>14, <2>1, <2>3 DEF Arrive
  <2>4. QED BY <1>14, <2>2, <2>3 DEF Arrive
<1>15. ASSUME NEW p \in Proc, Signal(p) PROVE Typed'
  <2> DEFINE v == <<p[1], ToSignal(p)>>
  <2>1. /\ state[p] = "released" /\ ToSignal(p) > 0
        /\ UNCHANGED <<suite, verdict, collected, pending, faults>>
    BY <1>15 DEF Signal
  <2>2. state[p] \in Live /\ "failed" \in Ended /\ "killed" \in Ended
    BY <2>1 DEF Live, Ended
  <2>3. KindOf(p).children \in 0..3 /\ at[p] \in 0..3
    BY <1>8, <2>1, Existing, KindFacts DEF KindOf
  <2>4. at[p] + 1 \in 0..3 BY <2>1, <2>3 DEF ToSignal
  <2>5. CASE /\ state' = [q \in Proc |-> IF q # p /\ state[q] \in Live THEN "killed" ELSE state[q]]
             /\ runner' = IF Running THEN "killed" ELSE runner
             /\ broadcast' = TRUE
             /\ at' = [at EXCEPT ![p] = @ + 1]
             /\ UNCHANGED out
    <3>1. at' \in [Proc -> 0..3] BY <1>8, <2>4, <2>5
    <3>2. state' \in [Proc -> {"unborn", "absent"} \cup Live \cup Ended]
      BY <2>2, <2>5 DEF Typed, TypeOK
    <3>3. collected \subseteq {q \in Proc : state'[q] \in Ended}
      BY <2>2, <2>5, Frozen DEF Typed, TypeOK
    <3>4. QED BY <2>1, <2>5, <3>1, <3>2, <3>3 DEF Typed, TypeOK
  <2>6. CASE /\ state' = IF state[v] \in Live THEN [state EXCEPT ![v] = "killed"] ELSE state
             /\ at' = [at EXCEPT ![p] = @ + 1]
             /\ UNCHANGED <<runner, out, broadcast>>
    <3>1. at' \in [Proc -> 0..3] BY <1>8, <2>4, <2>6
    <3> HIDE DEF v
    <3>2. state' \in [Proc -> {"unborn", "absent"} \cup Live \cup Ended]
      BY <2>2, <2>6 DEF Typed, TypeOK
    <3>3. collected \subseteq {q \in Proc : state'[q] \in Ended}
      BY <2>2, <2>6, Frozen DEF Typed, TypeOK
    <3>4. QED BY <2>1, <2>6, <3>1, <3>2, <3>3 DEF Typed, TypeOK
  <2>7. CASE End(p, "failed") /\ UNCHANGED <<runner, at, broadcast>>
    BY <1>5, <1>8, <2>1, <2>2, <2>7
  <2>8. QED BY <1>15, <2>5, <2>6, <2>7 DEF Signal
<1>16. ASSUME NEW p \in Proc, ChildExits(p) PROVE Typed'
  <2>1. state[p] \in Live /\ "exited" \in Ended BY <1>16 DEF ChildExits, Live, Ended
  <2>2. QED BY <1>5, <1>8, <1>16, <2>1 DEF ChildExits
<1>17. ASSUME NEW p \in Proc, Fault(p) PROVE Typed'
  <2>1. PICK how \in {"failed", "crashed"} : Faulty(p, how) /\ End(p, how)
    BY <1>17 DEF Fault
  <2>2. how \in Ended /\ state[p] \in Live BY <1>17 DEF Ended, Fault
  <2>3. IsFiniteSet(faults') /\ Cardinality(faults') <= MaxFaults BY <2>1, FaultsTyped
  <2>4. QED BY <1>5, <1>8, <1>17, <2>1, <2>2, <2>3 DEF Fault
<1>18. CASE UNCHANGED vars BY <1>18 DEF vars, Typed, TypeOK
<1>19. QED
  BY <1>1, <1>2, <1>3, <1>4, <1>6, <1>9, <1>10, <1>11, <1>12, <1>13, <1>14, <1>15, <1>16,
     <1>17, <1>18
  DEF Next, RunnerStep, ProcStep
-----------------------------------------------------------------------------
(* The steps, test by test: which process changes how.                     *)

Base == Typed /\ \A i \in 1..MaxTests : Shape(i)

\* What no step of a process touches.
Kept ==
  /\ suite' = suite /\ verdict' = verdict
  /\ out' = out /\ pending'[Runner] = pending[Runner]

LEMMA KeptByPending ==
  ASSUME Typed, UNCHANGED <<suite, verdict, pending>>, out' = out
  PROVE  Kept
  BY DEF Kept

\* A process that is live, and its test.
LEMMA LiveProc ==
  ASSUME Base, NEW p \in Proc, state[p] \in Live
  PROVE  /\ p[1] \in 1..MaxTests /\ p[1] \in 1..Len(suite) /\ p[2] \in 0..3
         /\ p = <<p[1], p[2]>> /\ Test(p) = <<p[1], 0>>
         /\ KindOf(p).children = Children(p[1])
         /\ KindOf(p).sync <=> Sync(p[1])
         /\ KindOf(p).lenient <=> Lenient(p[1])
         /\ Hi(p) = <<p[1], Children(p[1])>>
         /\ Children(p[1]) \in 0..3
         /\ Sync(p[1]) => Children(p[1]) >= 1 /\ ~Lenient(p[1])
         /\ ~Sync(p[1]) => Children(p[1]) <= 1
         /\ Lenient(p[1]) => Children(p[1]) = 1
         /\ p[2] = 0 => state[p] \in BeforeRelease \cup {"collecting"}
         /\ p[2] # 0 => state[p] \in {"setup", "waiting", "released"}
<1>1. state[p] # "unborn" /\ state[p] \notin Ended BY DEF Live, Ended
<1>2. /\ p[1] \in 1..Len(suite) /\ suite[p[1]] \in DOMAIN Kind
      /\ p = <<p[1], p[2]>> /\ p[1] \in 1..MaxTests /\ p[2] \in 0..3 /\ Test(p) = <<p[1], 0>>
  BY <1>1, Existing DEF Base
<1>3. Shape(p[1]) BY <1>2 DEF Base
<1>4. /\ p[2] = 0 => state[p] \in BeforeRelease \cup {"collecting"}
      /\ p[2] # 0 => state[p] \in {"setup", "waiting", "released"}
  <2>1. CASE p[2] = 0
    <3>1. state[p] = state[<<p[1], 0>>] BY <1>2, <2>1
    <3>2. state[<<p[1], 0>>] \in BeforeRelease \cup {"unborn", "collecting"} \cup Ended
      BY <1>3 DEF Shape
    <3>3. QED BY <1>1, <2>1, <3>1, <3>2
  <2>2. CASE p[2] # 0
    <3>1. p[2] \in ChildNo BY <1>2, <2>2 DEF ChildNo
    <3>2. state[<<p[1], p[2]>>] \in {"unborn", "absent", "setup", "waiting", "released"} \cup Ended
      BY <1>3, <3>1 DEF Shape
    <3>3. state[p] # "absent" BY DEF Live
    <3>4. QED BY <1>1, <1>2, <2>2, <3>2, <3>3
  <2>3. QED BY <2>1, <2>2
<1>5. QED BY <1>2, <1>4, KindFacts DEF KindOf, Hi, Children, Sync, Lenient

RunsTest(i) ==
  /\ i \in 1..MaxTests /\ i = Len(verdict) + 1 /\ i <= Len(suite)
  /\ state[<<i, 0>>] = "unborn" /\ Turns(i, 0, "forking")
  /\ UNCHANGED <<suite, verdict, at, collected, faults, broadcast>>

LEMMA RunTestDoes ==
  ASSUME Base, RunTest
  PROVE  RunsTest(Len(verdict) + 1)
<1>1. Current \in Proc /\ Current[1] \in 1..MaxTests /\ Current = <<Len(verdict) + 1, 0>>
      /\ Current[1] = Len(verdict) + 1
  BY CurrentProc DEF RunTest, Base
<1>2. Len(verdict) + 1 \in 1..MaxTests BY <1>1
<1>3. state' = [state EXCEPT ![<<Len(verdict) + 1, 0>>] = "forking"] BY <1>1 DEF RunTest
<1>4. Turns(Len(verdict) + 1, 0, "forking")
  <2>1. Typed /\ 0 \in 0..3 BY DEF Base
  <2> DEFINE i == Len(verdict) + 1
  <2>2. i \in 1..MaxTests /\ state' = [state EXCEPT ![<<i, 0>>] = "forking"] BY <1>2, <1>3
  <2> HIDE DEF i
  <2>3. Turns(i, 0, "forking") BY <2>1, <2>2, TurnsByExcept
  <2>4. QED BY <2>3 DEF i
<1>5. Len(verdict) \in Nat /\ Len(suite) \in Nat BY DEF Base, Typed, TypeOK
<1>6. QED BY <1>1, <1>2, <1>4, <1>5 DEF RunsTest, RunTest

ForksTask(i, k) ==
  /\ i \in 1..MaxTests /\ k \in ChildNo
  /\ state[<<i, 0>>] = "forking" /\ state[<<i, k>>] = "unborn"
  /\ k = at[<<i, 0>>] + 1 /\ k <= Children(i) /\ Children(i) \in 0..3
  /\ Kept /\ UNCHANGED <<runner, collected, broadcast>>
  /\ \/ Turns(i, k, "setup") /\ Counts(i, 0, k) /\ faults' = faults
     \/ Lenient(i) /\ ~Sync(i) /\ Turns(i, 0, "failed") /\ at' = at /\ Faulted(i, "fork")
     \/ ~Lenient(i) /\ Turns(i, k, "absent") /\ Counts(i, 0, k) /\ Faulted(i, "fork")
  /\ faults \subseteq faults'

LEMMA ForkTaskDoes ==
  ASSUME Base, NEW p \in Proc, ForkTask(p)
  PROVE  ForksTask(p[1], at[p] + 1)
<1> DEFINE i == p[1]
           k == at[p] + 1
<1>1. state[p] = "forking" /\ p[2] = 0 /\ at[p] < KindOf(p).children /\ state[p] \in Live
  BY DEF ForkTask, IsTest, Live
<1>2. /\ i \in 1..MaxTests /\ p = <<i, 0>> /\ Test(p) = <<i, 0>>
      /\ KindOf(p).children = Children(i) /\ Children(i) \in 0..3
      /\ KindOf(p).lenient <=> Lenient(i)
      /\ Lenient(i) => ~Sync(i)
  BY <1>1, LiveProc
<1>3. Typed BY DEF Base
<1>4. at[p] \in 0..3 BY <1>3 DEF Typed, TypeOK, MaxChildren
<1>5. k \in ChildNo /\ k \in 0..3 /\ k <= Children(i) /\ k = at[<<i, 0>>] + 1 /\ k > at[<<i, 0>>]
  BY <1>1, <1>2, <1>4 DEF ChildNo
<1>6. state[<<i, k>>] = "unborn" BY <1>1, <1>2, <1>5 DEF Base, Shape
<1>7. UNCHANGED <<suite, runner, verdict, collected, broadcast>> BY DEF ForkTask
<1>8. 0 \in 0..3 /\ k - 1 + 1 = k BY <1>5
<1>9. CASE Fork(p, <<i, k>>) /\ at' = [at EXCEPT ![p] = @ + 1] /\ UNCHANGED <<out, faults>>
  <2>1. ~IsTest(<<i, k>>) BY <1>5 DEF IsTest, ChildNo
  <2>2. state' = [state EXCEPT ![<<i, k>>] = "setup"]
        /\ pending' = [pending EXCEPT ![<<i, k>>] = pending[p]]
    BY <1>9, <2>1 DEF Fork
  <2>3. Turns(i, k, "setup") BY <1>2, <1>3, <1>5, <2>2, TurnsByExcept
  <2>4. at' = [at EXCEPT ![<<i, 0>>] = k] BY <1>2, <1>9
  <2>5. Counts(i, 0, k) BY <1>2, <1>3, <1>8, <2>4, CountsByExcept
  <2>6. <<i, k>> \in Proc BY <1>2, <1>5, ProcFacts
  <2>7. pending'[Runner] = pending[Runner] BY <1>3, <2>2, <2>6, ProcFacts DEF Typed
  <2>8. QED BY <1>1, <1>2, <1>5, <1>6, <1>7, <1>9, <2>3, <2>5, <2>7 DEF ForksTask, Kept
<1>10. ASSUME Faulty(p, "fork") PROVE Faulted(i, "fork") /\ faults \subseteq faults'
  BY <1>2, <1>10, FaultedByFaulty
<1>11. CASE /\ Faulty(p, "fork") /\ KindOf(p).lenient /\ End(p, "failed")
            /\ UNCHANGED <<at, pending>>
  <2>1. state' = [state EXCEPT ![<<i, 0>>] = "failed"] /\ out' = out
    BY <1>2, <1>3, <1>11, SilentEnd
  <2>2. Turns(i, 0, "failed") BY <1>2, <1>3, <1>8, <2>1, TurnsByExcept
  <2>3. QED BY <1>1, <1>2, <1>5, <1>6, <1>7, <1>10, <1>11, <2>1, <2>2 DEF ForksTask, Kept
<1>12. CASE /\ Faulty(p, "fork") /\ ~KindOf(p).lenient /\ state' = [state EXCEPT ![<<i, k>>] = "absent"]
            /\ at' = [at EXCEPT ![p] = @ + 1] /\ UNCHANGED <<out, pending>>
  <2>1. Turns(i, k, "absent") BY <1>2, <1>3, <1>5, <1>12, TurnsByExcept
  <2>2. at' = [at EXCEPT ![<<i, 0>>] = k] BY <1>2, <1>12
  <2>3. Counts(i, 0, k) BY <1>2, <1>3, <1>8, <2>2, CountsByExcept
  <2>4. QED BY <1>1, <1>2, <1>5, <1>6, <1>7, <1>10, <1>12, <2>1, <2>3 DEF ForksTask, Kept
<1>13. QED BY <1>9, <1>11, <1>12 DEF ForkTask

FinishesForking(i) ==
  /\ i \in 1..MaxTests /\ state[<<i, 0>>] = "forking" /\ at[<<i, 0>>] = Children(i)
  /\ Children(i) \in 0..3 /\ (~Sync(i) => Children(i) <= 1)
  /\ Turns(i, 0, IF Sync(i) THEN "polling" ELSE "collecting") /\ Counts(i, 0, 0)
  /\ Kept /\ UNCHANGED <<runner, collected, faults, broadcast>>

LEMMA ForkedDoes ==
  ASSUME Base, NEW p \in Proc, Forked(p)
  PROVE  FinishesForking(p[1])
<1>1. state[p] = "forking" /\ p[2] = 0 /\ state[p] \in Live BY DEF Forked, IsTest, Live
<1>2. /\ p[1] \in 1..MaxTests /\ p = <<p[1], 0>> /\ KindOf(p).children = Children(p[1])
      /\ KindOf(p).sync <=> Sync(p[1])
      /\ Children(p[1]) \in 0..3 /\ (~Sync(p[1]) => Children(p[1]) <= 1)
  BY <1>1, LiveProc
<1>3. Typed /\ 0 \in 0..3 BY DEF Base
<1>4. state' = [state EXCEPT ![<<p[1], 0>>] = IF Sync(p[1]) THEN "polling" ELSE "collecting"]
      /\ at' = [at EXCEPT ![<<p[1], 0>>] = 0]
  BY <1>2 DEF Forked
<1>5. Turns(p[1], 0, IF Sync(p[1]) THEN "polling" ELSE "collecting") /\ Counts(p[1], 0, 0)
  BY <1>2, <1>3, <1>4, TurnsByExcept, CountsByExcept
<1>6. QED BY <1>1, <1>2, <1>5 DEF FinishesForking, Forked, Kept

Polls(i) ==
  /\ i \in 1..MaxTests /\ state[<<i, 0>>] = "polling"
  /\ Children(i) \in 0..3 /\ Cardinality(Waiters) = Children(i)
  /\ Turns(i, 0, "releasing")
  /\ Kept /\ UNCHANGED <<runner, at, collected, faults, broadcast>>

LEMMA PollDoes ==
  ASSUME Base, NEW p \in Proc, Poll(p)
  PROVE  Polls(p[1])
<1>1. state[p] = "polling" /\ state[p] \in Live BY DEF Poll, Live
<1>2. /\ p[1] \in 1..MaxTests /\ p = <<p[1], p[2]>> /\ KindOf(p).children = Children(p[1])
      /\ Children(p[1]) \in 0..3 /\ p[2] = 0
  BY <1>1, LiveProc
<1>3. Typed /\ 0 \in 0..3 BY DEF Base
<1>4. state' = [state EXCEPT ![<<p[1], 0>>] = "releasing"] BY <1>2 DEF Poll
<1>5. Turns(p[1], 0, "releasing") BY <1>2, <1>3, <1>4, TurnsByExcept
<1>6. QED BY <1>1, <1>2, <1>5 DEF Polls, Poll, Polled, Kept

Releases(i) ==
  /\ i \in 1..MaxTests /\ state[<<i, 0>>] = "releasing"
  /\ Kept /\ UNCHANGED <<runner, at, collected, broadcast>>
  /\ \/ /\ state'[<<i, 0>>] = "collecting" /\ faults' = faults
        /\ \A j \in 1..MaxTests, m \in 0..3 : j # i \/ m # 0 =>
             state'[<<j, m>>] = IF state[<<j, m>>] = "waiting" THEN "released" ELSE state[<<j, m>>]
     \/ Turns(i, 0, "collecting") /\ Faulted(i, "release")
  /\ faults \subseteq faults'

LEMMA ReleaseTsDoes ==
  ASSUME Base, NEW p \in Proc, ReleaseTs(p)
  PROVE  Releases(p[1])
<1>1. state[p] = "releasing" /\ state[p] \in Live BY DEF ReleaseTs, Live
<1>2. p[1] \in 1..MaxTests /\ p = <<p[1], p[2]>> /\ p[2] = 0 /\ Test(p) = <<p[1], 0>>
  BY <1>1, LiveProc
<1>3. Typed /\ 0 \in 0..3 BY DEF Base
<1>4. CASE /\ state' = [q \in Proc |-> IF q = p THEN "collecting"
                                       ELSE IF q \in Waiters THEN "released" ELSE state[q]]
           /\ UNCHANGED faults
  <2>1. p = <<p[1], 0>> BY <1>2
  <2>2. state'[<<p[1], 0>>] = "collecting" BY <1>4, <2>1
  <2>3. ASSUME NEW j \in 1..MaxTests, NEW m \in 0..3, j # p[1] \/ m # 0
        PROVE  state'[<<j, m>>] = IF state[<<j, m>>] = "waiting" THEN "released" ELSE state[<<j, m>>]
    <3>1. <<j, m>> \in Proc BY ProcFacts
    <3>2. <<j, m>> # <<p[1], 0>> BY <2>3
    <3>3. QED BY <1>4, <2>1, <3>1, <3>2 DEF Waiters
  <2>4. QED BY <1>1, <1>2, <1>4, <2>2, <2>3 DEF Releases, ReleaseTs, Kept
<1>5. CASE Faulty(p, "release") /\ state' = [state EXCEPT ![p] = "collecting"]
  <2>1. Faulted(p[1], "release") /\ faults \subseteq faults' BY <1>2, <1>5, FaultedByFaulty
  <2>2. state' = [state EXCEPT ![<<p[1], 0>>] = "collecting"] BY <1>2, <1>5
  <2>3. Turns(p[1], 0, "collecting") BY <1>2, <1>3, <2>2, TurnsByExcept
  <2>4. QED BY <1>1, <1>2, <2>1, <2>3 DEF Releases, ReleaseTs, Kept
<1>6. QED BY <1>4, <1>5 DEF ReleaseTs

\* The child the test waits for next, and what it lets pass.
AwaitedNo(i) == IF at[<<i, 0>>] = 0 THEN Children(i) ELSE at[<<i, 0>>]
Accepts(i, how) ==
  CASE Lenient(i) -> how # "failed"
    [] Sync(i) /\ at[<<i, 0>>] > 0 -> how = "killed"
    [] OTHER -> how = "exited"

Waits(i) ==
  /\ i \in 1..MaxTests /\ i \in 1..Len(suite) /\ state[<<i, 0>>] = "collecting"
  /\ at[<<i, 0>>] \in 0..3 /\ at[<<i, 0>>] < Children(i) /\ Children(i) \in 0..3
  /\ Sync(i) => ~Lenient(i)
  /\ ~Sync(i) => Children(i) <= 1
  /\ Kept /\ UNCHANGED <<runner, faults, broadcast>>
  /\ \/ /\ state[<<i, AwaitedNo(i)>>] # "absent" => <<i, AwaitedNo(i)>> \in collected
        /\ \A k \in 1..Children(i) : state[<<i, k>>] = "absent" \/ <<i, k>> \in collected
                                     \/ state[<<i, AwaitedNo(i)>>] # "absent"
        /\ Turns(i, 0, "failed") /\ UNCHANGED <<at, collected>>
     \/ \E k \in 1..Children(i) :
          /\ state[<<i, k>>] \in Ended /\ <<i, k>> \notin collected
          /\ state[<<i, AwaitedNo(i)>>] # "absent" => k = AwaitedNo(i)
          /\ collected' = collected \cup {<<i, k>>}
          /\ \/ Accepts(i, state[<<i, k>>]) /\ state' = state /\ Counts(i, 0, at[<<i, 0>>] + 1)
             \/ ~Accepts(i, state[<<i, k>>]) /\ Turns(i, 0, "failed") /\ at' = at

LEMMA WaitpidDoes ==
  ASSUME Base, NEW p \in Proc, Waitpid(p)
  PROVE  Waits(p[1])
<1> DEFINE i == p[1]
           a == AwaitedNo(i)
<1>1. state[p] = "collecting" /\ state[p] \in Live /\ at[p] < KindOf(p).children
  BY DEF Waitpid, Live
<1>2. /\ i \in 1..MaxTests /\ i \in 1..Len(suite) /\ p = <<i, p[2]>> /\ p[2] = 0
      /\ KindOf(p).children = Children(i) /\ Children(i) \in 0..3
      /\ KindOf(p).lenient <=> Lenient(i)
      /\ KindOf(p).sync <=> Sync(i)
      /\ Hi(p) = <<i, Children(i)>>
      /\ Sync(i) => ~Lenient(i)
      /\ ~Sync(i) => Children(i) <= 1
  BY <1>1, LiveProc
<1>3. Typed /\ 0 \in 0..3 /\ p = <<i, 0>> BY <1>2 DEF Base
<1>4. at[p] \in 0..3 /\ at \in [Proc -> 0..3] BY <1>3 DEF Typed, TypeOK, MaxChildren
<1>5. Awaited(p) = <<i, a>> BY <1>2, <1>3 DEF Awaited, AwaitedNo
<1>6. a \in 1..Children(i) BY <1>1, <1>2, <1>3, <1>4 DEF AwaitedNo
<1> HIDE DEF a
<1>7. \A c \in Candidates(p) :
        \E k \in 1..Children(i) : c = <<i, k>> /\ state[<<i, k>>] # "absent"
                                  /\ <<i, k>> \notin collected
                                  /\ (state[<<i, a>>] # "absent" => k = a)
  <2> SUFFICES ASSUME NEW c \in Candidates(p)
               PROVE  \E k \in 1..Children(i) : c = <<i, k>> /\ state[<<i, k>>] # "absent"
                                  /\ <<i, k>> \notin collected
                                  /\ (state[<<i, a>>] # "absent" => k = a)
    OBVIOUS
  <2>1. /\ c \in {<<i, k>> : k \in 1..Children(i)} /\ state[c] # "absent" /\ c \notin collected
        /\ state[<<i, a>>] # "absent" => c = <<i, a>>
    BY <1>2, <1>5 DEF Candidates
  <2>2. PICK k \in 1..Children(i) : c = <<i, k>> BY <2>1
  <2>3. state[<<i, a>>] # "absent" => k = a BY <2>1, <2>2
  <2>4. QED BY <2>1, <2>2, <2>3
<1>8. \A k \in 1..Children(i) :
        state[<<i, k>>] # "absent" /\ <<i, k>> \notin collected
        /\ (state[<<i, a>>] # "absent" => k = a)
        => <<i, k>> \in Candidates(p)
  <2> SUFFICES ASSUME NEW k \in 1..Children(i), state[<<i, k>>] # "absent",
                      <<i, k>> \notin collected, state[<<i, a>>] # "absent" => k = a
               PROVE  <<i, k>> \in Candidates(p)
    OBVIOUS
  <2> DEFINE c == <<i, k>>
  <2>1. c \in {<<i, m>> : m \in 1..Children(i)} /\ state[c] # "absent" /\ c \notin collected
        /\ (state[<<i, a>>] # "absent" => c = <<i, a>>)
    OBVIOUS
  <2> HIDE DEF c
  <2>2. c \in Candidates(p) BY <1>2, <1>5, <2>1 DEF Candidates
  <2>3. QED BY <2>2 DEF c
<1>9. UNCHANGED <<suite, runner, verdict, pending, faults, broadcast>> BY DEF Waitpid
<1>10. ASSUME End(p, "failed")
       PROVE  Kept /\ Turns(i, 0, "failed")
  <2>1. state' = [state EXCEPT ![p] = "failed"] /\ out' = out BY <1>3, <1>10, SilentEnd
  <2>2. state' = [state EXCEPT ![<<i, 0>>] = "failed"] BY <1>3, <2>1
  <2>3. Turns(i, 0, "failed") BY <1>2, <1>3, <2>2, TurnsByExcept
  <2>4. QED BY <1>9, <2>1, <2>3 DEF Kept
<1>11. CASE Candidates(p) = {} /\ End(p, "failed") /\ UNCHANGED <<at, collected>>
  <2>1. state[<<i, a>>] # "absent" => <<i, a>> \in collected BY <1>6, <1>8, <1>11
  <2>2. \A k \in 1..Children(i) : state[<<i, k>>] = "absent" \/ <<i, k>> \in collected
                                     \/ state[<<i, a>>] # "absent"
    BY <1>8, <1>11
  <2>3. QED BY <1>1, <1>2, <1>3, <1>4, <1>9, <1>10, <1>11, <2>1, <2>2 DEF Waits, a
<1>12. ASSUME NEW c \in Candidates(p), Answers(c), collected' = collected \cup {c},
              IF Asserted(p, state[c])
              THEN at' = [at EXCEPT ![p] = @ + 1] /\ UNCHANGED <<state, out>>
              ELSE End(p, "failed") /\ UNCHANGED at
       PROVE  Waits(i)
  <2>1. PICK k \in 1..Children(i) : c = <<i, k>> /\ state[<<i, k>>] # "absent"
                                  /\ <<i, k>> \notin collected
                                  /\ (state[<<i, a>>] # "absent" => k = a)
    BY <1>7
  <2>2. state[<<i, k>>] \in Ended /\ collected' = collected \cup {<<i, k>>}
    BY <1>12, <2>1 DEF Answers
  <2>3. Asserted(p, state[c]) <=> Accepts(i, state[<<i, k>>])
    BY <1>2, <1>3, <2>1 DEF Asserted, Accepts
  <2>4. CASE Accepts(i, state[<<i, k>>])
    <3>1. at' = [at EXCEPT ![<<i, 0>>] = at[<<i, 0>>] + 1] /\ UNCHANGED <<state, out>>
      BY <1>3, <1>12, <2>3, <2>4
    <3>2. Counts(i, 0, at[<<i, 0>>] + 1) BY <1>2, <1>3, <3>1, CountsByExcept
    <3>3. QED BY <1>1, <1>2, <1>3, <1>4, <1>9, <2>1, <2>2, <2>4, <3>1, <3>2
      DEF Waits, Kept, a
  <2>5. CASE ~Accepts(i, state[<<i, k>>])
    <3>1. End(p, "failed") /\ at' = at BY <1>12, <2>3, <2>5
    <3>2. QED BY <1>1, <1>2, <1>3, <1>4, <1>9, <1>10, <2>1, <2>2, <2>5, <3>1 DEF Waits, a
  <2>6. QED BY <2>4, <2>5
<1>13. QED BY <1>11, <1>12 DEF Waitpid

ExitsAsTest(i) ==
  /\ i \in 1..MaxTests /\ state[<<i, 0>>] = "collecting" /\ at[<<i, 0>>] = Children(i)
  /\ Turns(i, 0, "exited")
  /\ Kept /\ UNCHANGED <<runner, at, collected, faults, broadcast>>

LEMMA TestExitsDoes ==
  ASSUME Base, NEW p \in Proc, TestExits(p)
  PROVE  ExitsAsTest(p[1])
<1>1. state[p] = "collecting" /\ state[p] \in Live BY DEF TestExits, Live
<1>2. /\ p[1] \in 1..MaxTests /\ p = <<p[1], p[2]>> /\ p[2] = 0
      /\ KindOf(p).children = Children(p[1])
  BY <1>1, LiveProc
<1>3. Typed /\ 0 \in 0..3 /\ p = <<p[1], 0>> BY <1>2 DEF Base
<1>4. state' = [state EXCEPT ![p] = "exited"] /\ out' = out BY <1>3, SilentEnd DEF TestExits
<1>5. state' = [state EXCEPT ![<<p[1], 0>>] = "exited"] BY <1>3, <1>4
<1>6. Turns(p[1], 0, "exited") BY <1>2, <1>3, <1>5, TurnsByExcept
<1>7. QED BY <1>1, <1>2, <1>3, <1>4, <1>6 DEF ExitsAsTest, TestExits, AllCollected, Kept

Arrives(i, k) ==
  /\ i \in 1..MaxTests /\ k \in ChildNo /\ state[<<i, k>>] = "setup"
  /\ Turns(i, k, IF Sync(i) THEN "waiting" ELSE "exited")
  /\ Kept /\ UNCHANGED <<runner, at, collected, faults, broadcast>>

LEMMA ArriveDoes ==
  ASSUME Base, NEW p \in Proc, Arrive(p)
  PROVE  Arrives(p[1], p[2])
<1>1. state[p] = "setup" /\ state[p] \in Live BY DEF Arrive, Live
<1>2. /\ p[1] \in 1..MaxTests /\ p = <<p[1], p[2]>> /\ p[2] \in 0..3 /\ p[2] # 0
      /\ KindOf(p).sync <=> Sync(p[1])
  BY <1>1, LiveProc DEF BeforeRelease
<1>3. Typed /\ p[2] \in ChildNo BY <1>2 DEF Base, ChildNo
<1>4. state' = [state EXCEPT ![p] = IF Sync(p[1]) THEN "waiting" ELSE "exited"] /\ out' = out
  BY <1>2, <1>3, SilentEnd DEF Arrive
<1>5. state' = [state EXCEPT ![<<p[1], p[2]>>] = IF Sync(p[1]) THEN "waiting" ELSE "exited"]
  BY <1>2, <1>4
<1>6. Turns(p[1], p[2], IF Sync(p[1]) THEN "waiting" ELSE "exited")
  BY <1>2, <1>3, <1>5, TurnsByExcept
<1>7. QED BY <1>1, <1>2, <1>3, <1>4, <1>6 DEF Arrives, Arrive, Kept

\* The child with the highest priority of test i signals child t.
Signals(i, h, t) ==
  /\ i \in 1..MaxTests /\ h \in ChildNo /\ t \in ChildNo /\ h = Children(i) /\ Sync(i)
  /\ state[<<i, h>>] = "released" /\ at[<<i, h>>] \in 0..3 /\ t = h - 1 - at[<<i, h>>]
  /\ Kept /\ UNCHANGED <<collected, faults>>
  /\ \/ /\ state[<<i, t>>] = "absent" /\ broadcast' = TRUE /\ ~Running'
        /\ Counts(i, h, at[<<i, h>>] + 1)
        /\ state'[<<i, h>>] = "released"
        /\ \A j \in 1..MaxTests, m \in 0..3 : j # i \/ m # h =>
             state'[<<j, m>>] = IF state[<<j, m>>] \in Live THEN "killed" ELSE state[<<j, m>>]
     \/ /\ state[<<i, t>>] # "absent" /\ UNCHANGED <<runner, broadcast>>
        /\ <<i, t>> \notin collected
        /\ Counts(i, h, at[<<i, h>>] + 1)
        /\ Turns(i, t, IF state[<<i, t>>] \in Live THEN "killed" ELSE state[<<i, t>>])
     \/ /\ state[<<i, t>>] # "absent" /\ UNCHANGED <<runner, broadcast>>
        /\ \/ <<i, t>> \in collected
           \/ state[<<i, t>>] \in Ended /\ state[<<i, 0>>] \in Ended
        /\ at' = at /\ Turns(i, h, "failed")

LEMMA SignalDoes ==
  ASSUME Base, NEW p \in Proc, Signal(p)
  PROVE  Signals(p[1], p[2], ToSignal(p))
<1> DEFINE i == p[1]
           h == p[2]
           t == ToSignal(p)
<1>1. state[p] = "released" /\ state[p] \in Live /\ IsHi(p) /\ t > 0
  BY DEF Signal, Live
<1>2. /\ i \in 1..MaxTests /\ p = <<i, h>> /\ h \in 0..3 /\ h # 0 /\ Test(p) = <<i, 0>>
      /\ KindOf(p).children = Children(i) /\ Children(i) \in 0..3
      /\ KindOf(p).sync <=> Sync(i)
      /\ Hi(p) = <<i, Children(i)>>
  BY <1>1, LiveProc DEF BeforeRelease
<1>3. h = Children(i) /\ Sync(i) BY <1>1, <1>2 DEF IsHi
<1>4. Typed /\ h \in ChildNo BY <1>2 DEF Base, ChildNo
<1>5. at[p] \in 0..3 /\ at \in [Proc -> 0..3] BY <1>4 DEF Typed, TypeOK, MaxChildren
<1>6. t = h - 1 - at[<<i, h>>] BY <1>2, <1>3 DEF ToSignal
<1>7. t \in ChildNo /\ t \in 0..3 BY <1>1, <1>2, <1>4, <1>5, <1>6 DEF ChildNo
<1>8. UNCHANGED <<suite, verdict, collected, pending, faults>> BY DEF Signal
<1>9. <<i, t>>[1] = i /\ Test(<<i, t>>) = <<i, 0>> BY DEF Test
<1> HIDE DEF t
<1>10. ASSUME at' = [at EXCEPT ![p] = @ + 1]
       PROVE  Counts(i, h, at[<<i, h>>] + 1)
  <2>1. at' = [at EXCEPT ![<<i, h>>] = at[<<i, h>>] + 1] BY <1>2, <1>10
  <2>2. QED BY <1>2, <1>4, <2>1, CountsByExcept
<1>11. CASE /\ state[<<i, t>>] = "absent"
            /\ state' = [q \in Proc |-> IF q # p /\ state[q] \in Live THEN "killed" ELSE state[q]]
            /\ runner' = IF Running THEN "killed" ELSE runner
            /\ broadcast' = TRUE
            /\ at' = [at EXCEPT ![p] = @ + 1]
            /\ UNCHANGED out
  <2>1. state'[<<i, h>>] = "released" BY <1>1, <1>2, <1>11
  <2>2. ASSUME NEW j \in 1..MaxTests, NEW m \in 0..3, j # i \/ m # h
        PROVE  state'[<<j, m>>] = IF state[<<j, m>>] \in Live THEN "killed" ELSE state[<<j, m>>]
    <3>1. <<j, m>> \in Proc BY ProcFacts
    <3>2. <<j, m>> # <<i, h>> BY <2>2
    <3>3. QED BY <1>2, <1>11, <3>1, <3>2
  <2>3. ~Running' BY <1>11 DEF Running
  <2>4. QED BY <1>1, <1>2, <1>3, <1>4, <1>5, <1>6, <1>7, <1>8, <1>10, <1>11, <2>1, <2>2, <2>3
    DEF Signals, Kept, t
<1>12. CASE /\ state[<<i, t>>] # "absent" /\ ~Vanished(<<i, t>>)
            /\ state' = IF state[<<i, t>>] \in Live THEN [state EXCEPT ![<<i, t>>] = "killed"] ELSE state
            /\ at' = [at EXCEPT ![p] = @ + 1]
            /\ UNCHANGED <<runner, out, broadcast>>
  <2>1. Turns(i, t, IF state[<<i, t>>] \in Live THEN "killed" ELSE state[<<i, t>>])
    <3>1. CASE state[<<i, t>>] \in Live
      <4>1. state' = [state EXCEPT ![<<i, t>>] = "killed"] BY <1>12, <3>1
      <4>2. QED BY <1>2, <1>4, <1>7, <3>1, <4>1, TurnsByExcept
    <3>2. CASE state[<<i, t>>] \notin Live BY <1>12, <3>2 DEF Turns
    <3>3. QED BY <3>1, <3>2
  <2>2. <<i, t>> \notin collected BY <1>12 DEF Vanished
  <2>3. QED BY <1>1, <1>2, <1>3, <1>4, <1>5, <1>6, <1>7, <1>8, <1>10, <1>12, <2>1, <2>2
    DEF Signals, Kept, t
<1>13. CASE /\ state[<<i, t>>] # "absent" /\ Vanished(<<i, t>>)
            /\ End(p, "failed")
            /\ UNCHANGED <<runner, at, broadcast>>
  <2>1. state' = [state EXCEPT ![p] = "failed"] /\ out' = out BY <1>4, <1>13, SilentEnd
  <2>2. state' = [state EXCEPT ![<<i, h>>] = "failed"] BY <1>2, <2>1
  <2>3. Turns(i, h, "failed") BY <1>2, <1>4, <2>2, TurnsByExcept
  <2>4. \/ <<i, t>> \in collected
        \/ state[<<i, t>>] \in Ended /\ state[<<i, 0>>] \in Ended
    BY <1>9, <1>13 DEF Vanished
  <2>5. QED BY <1>1, <1>2, <1>3, <1>4, <1>5, <1>6, <1>7, <1>8, <1>13, <2>1, <2>3, <2>4
    DEF Signals, Kept, t
<1>14. QED BY <1>11, <1>12, <1>13 DEF Signal, t

ExitsAsChild(i, k) ==
  /\ i \in 1..MaxTests /\ k \in ChildNo /\ state[<<i, k>>] = "released"
  /\ Children(i) \in ChildNo /\ Sync(i)
  /\ IF k = Children(i) THEN at[<<i, k>>] = Children(i) - 1
                        ELSE state[<<i, Children(i)>>] \notin Live
  /\ Turns(i, k, "exited")
  /\ Kept /\ UNCHANGED <<runner, at, collected, faults, broadcast>>

LEMMA ChildExitsDoes ==
  ASSUME Base, NEW p \in Proc, ChildExits(p)
  PROVE  ExitsAsChild(p[1], p[2])
<1> DEFINE i == p[1]
           k == p[2]
<1>1. state[p] = "released" /\ state[p] \in Live BY DEF ChildExits, Live
<1>2. /\ i \in 1..MaxTests /\ p = <<i, k>> /\ k \in 0..3 /\ k # 0
      /\ KindOf(p).children = Children(i) /\ Children(i) \in 0..3
      /\ KindOf(p).sync <=> Sync(i)
      /\ Sync(i) => Children(i) >= 1
      /\ Hi(p) = <<i, Children(i)>>
  BY <1>1, LiveProc DEF BeforeRelease
<1>3. Typed /\ k \in ChildNo BY <1>2 DEF Base, ChildNo
<1>4. Sync(i)
  <2>1. Shape(i) /\ state[<<i, k>>] = "released" BY <1>1, <1>2 DEF Base
  <2>2. QED BY <1>3, <2>1 DEF Shape
<1>5. Children(i) \in ChildNo BY <1>2, <1>4 DEF ChildNo
<1>6. state' = [state EXCEPT ![p] = "exited"] /\ out' = out BY <1>3, SilentEnd DEF ChildExits
<1>7. state' = [state EXCEPT ![<<i, k>>] = "exited"] BY <1>2, <1>6
<1>8. Turns(i, k, "exited") BY <1>2, <1>3, <1>7, TurnsByExcept
<1>9. IsHi(p) <=> k = Children(i) BY <1>2, <1>4 DEF IsHi
<1>10. at[p] \in 0..3 BY <1>3 DEF Typed, TypeOK, MaxChildren
<1>11. k = Children(i) => at[<<i, k>>] = Children(i) - 1
  <2>1. k = Children(i) => Children(i) - 1 - at[p] = 0
    BY <1>2, <1>9 DEF ChildExits, ToSignal
  <2>2. QED BY <1>2, <1>10, <2>1
<1>12. k # Children(i) => state[<<i, Children(i)>>] \notin Live
  BY <1>2, <1>9 DEF ChildExits
<1>13. QED BY <1>1, <1>2, <1>3, <1>4, <1>5, <1>6, <1>8, <1>11, <1>12
  DEF ExitsAsChild, ChildExits, Kept

Faults(i, k) ==
  /\ i \in 1..MaxTests /\ k \in 0..3 /\ state[<<i, k>>] \in Live
  /\ \E how \in {"failed", "crashed"} : Turns(i, k, how) /\ Faulted(i, how)
  /\ Kept /\ UNCHANGED <<runner, at, collected, broadcast>>
  /\ faults \subseteq faults'

LEMMA FaultDoes ==
  ASSUME Base, NEW p \in Proc, Fault(p)
  PROVE  Faults(p[1], p[2])
<1>1. state[p] \in Live BY DEF Fault
<1>2. /\ p[1] \in 1..MaxTests /\ p = <<p[1], p[2]>> /\ p[2] \in 0..3 /\ Test(p) = <<p[1], 0>>
  BY <1>1, LiveProc
<1>3. Typed BY DEF Base
<1>4. PICK how \in {"failed", "crashed"} : Faulty(p, how) /\ End(p, how) BY DEF Fault
<1>5. state' = [state EXCEPT ![p] = how] /\ out' = out BY <1>3, <1>4, SilentEnd
<1>6. state' = [state EXCEPT ![<<p[1], p[2]>>] = how] BY <1>2, <1>5
<1>7. Turns(p[1], p[2], how) BY <1>2, <1>3, <1>6, TurnsByExcept
<1>8. Faulted(p[1], how) /\ faults \subseteq faults' BY <1>2, <1>4, FaultedByFaulty
<1>9. QED BY <1>1, <1>2, <1>5, <1>7, <1>8 DEF Faults, Fault, Kept

Reports(i) ==
  /\ i \in 1..MaxTests /\ i = Len(verdict) + 1 /\ i <= Len(suite) /\ state[<<i, 0>>] \in Ended
  /\ Len(verdict) \in Nat /\ verdict' = Append(verdict, VerdictOn(state[<<i, 0>>]))
  /\ Len(verdict') = i /\ verdict'[i] = VerdictOn(state[<<i, 0>>])
  /\ \A j \in 1..Len(verdict) : verdict'[j] = verdict[j]
  /\ UNCHANGED <<suite, runner, state, at, collected, out, faults, broadcast>>

LEMMA ReportDoes ==
  ASSUME Base, Report
  PROVE  Reports(Len(verdict) + 1)
<1> DEFINE i == Len(verdict) + 1
<1>1. Current \in Proc /\ Current[1] \in 1..MaxTests /\ Current = <<i, 0>> /\ Current[1] = i
  BY CurrentProc DEF Report, Base
<1>2. Len(verdict) \in Nat /\ Len(suite) \in Nat /\ Len(verdict) < Len(suite)
      /\ verdict \in Seq({"ok", "failed", "silent"})
  BY DEF Base, Typed, TypeOK, Report
<1>3. verdict' = Append(verdict, VerdictOn(state[<<i, 0>>])) BY <1>1 DEF Report
<1>4. state[<<i, 0>>] \in Ended BY <1>1 DEF Report
<1>5. Len(verdict') = i /\ verdict'[i] = VerdictOn(state[<<i, 0>>])
      /\ \A j \in 1..Len(verdict) : verdict'[j] = verdict[j]
  BY <1>2, <1>3
<1>6. i \in 1..MaxTests /\ i <= Len(suite) BY <1>1, <1>2
<1>7. QED BY <1>2, <1>3, <1>4, <1>5, <1>6 DEF Reports, Report

-----------------------------------------------------------------------------
(* The shape of the run is kept.                                           *)

LEMMA KindsKept ==
  ASSUME suite' = suite, NEW i
  PROVE  Children(i)' = Children(i) /\ Sync(i)' = Sync(i) /\ Lenient(i)' = Lenient(i)
  BY DEF Children, Sync, Lenient

LEMMA ShapeSame ==
  ASSUME NEW j \in 1..MaxTests, Shape(j), Same(j), suite' = suite, verdict' = verdict
  PROVE  Shape(j)'
<1>1. Children(j)' = Children(j) /\ (Sync(j)' <=> Sync(j)) BY KindsKept
<1>2. state'[<<j, 0>>] = state[<<j, 0>>] /\ at'[<<j, 0>>] = at[<<j, 0>>]
      /\ \A k \in ChildNo : state'[<<j, k>>] = state[<<j, k>>]
  BY DEF Same, ChildNo
<1>3. QED BY <1>1, <1>2 DEF Shape

LEMMA OthersSame ==
  ASSUME NEW i \in 1..MaxTests, NEW k \in 0..3, NEW s, Turns(i, k, s),
         at' = at \/ \E m \in 0..3, n \in Nat : Counts(i, m, n),
         collected' = collected \/ \E m \in 0..3 : collected' = collected \cup {<<i, m>>},
         NEW j \in 1..MaxTests, j # i
  PROVE  Same(j)
<1>1. ASSUME NEW m \in 0..3
      PROVE  /\ state'[<<j, m>>] = state[<<j, m>>] /\ at'[<<j, m>>] = at[<<j, m>>]
             /\ <<j, m>> \in collected' <=> <<j, m>> \in collected
  <2>1. state'[<<j, m>>] = state[<<j, m>>] BY DEF Turns
  <2>2. at'[<<j, m>>] = at[<<j, m>>] BY DEF Counts
  <2>3. <<j, m>> \in collected' <=> <<j, m>> \in collected
    <3>1. CASE collected' = collected BY <3>1
    <3>2. ASSUME NEW n \in 0..3, collected' = collected \cup {<<i, n>>}
          PROVE  <<j, m>> \in collected' <=> <<j, m>> \in collected
      <4>1. <<j, m>> # <<i, n>> OBVIOUS
      <4>2. QED BY <3>2, <4>1
    <3>3. QED BY <3>1, <3>2
  <2>4. QED BY <2>1, <2>2, <2>3
<1>2. QED BY <1>1 DEF Same

\* A process, other than the test, that comes to another state in its life.
LEMMA ShapeOfChild ==
  ASSUME NEW i \in 1..MaxTests, NEW k \in ChildNo, Shape(i), Kept,
         NEW s \in {"waiting", "released"} \cup Ended, Turns(i, k, s),
         s \in {"waiting", "released"} => Sync(i),
         state[<<i, k>>] # "unborn", at'[<<i, 0>>] = at[<<i, 0>>]
  PROVE  Shape(i)'
<1>1. Children(i)' = Children(i) /\ (Sync(i)' <=> Sync(i)) BY KindsKept DEF Kept
<1>2. state'[<<i, 0>>] = state[<<i, 0>>] /\ state'[<<i, k>>] = s
      /\ \A m \in ChildNo : m # k => state'[<<i, m>>] = state[<<i, m>>]
  BY DEF Turns, ChildNo
<1>3. s # "unborn" BY DEF Ended
<1>4. /\ suite' = suite /\ verdict' = verdict BY DEF Kept
<1>5. /\ state'[<<i, 0>>] # "unborn"
      /\ k <= Children(i)
  BY <1>2 DEF Shape
<1>6. \A m \in ChildNo : state'[<<i, m>>] = "unborn" <=> state[<<i, m>>] = "unborn"
  BY <1>2, <1>3
<1>7. \A m \in ChildNo :
        state'[<<i, m>>] \in {"unborn", "absent", "setup", "waiting", "released"} \cup Ended
  BY <1>2 DEF Shape
<1>8. \A m \in ChildNo : state'[<<i, m>>] \in {"waiting", "released"} => Sync(i)
  BY <1>2 DEF Shape
<1>9. QED BY <1>1, <1>2, <1>4, <1>5, <1>6, <1>7, <1>8 DEF Shape

\* The process of a test itself comes to another state in its life.
LEMMA ShapeOfTest ==
  ASSUME NEW i \in 1..MaxTests, Shape(i), Kept,
         NEW s \in {"polling", "releasing", "collecting"} \cup Ended, Turns(i, 0, s),
         state[<<i, 0>>] \notin Ended \cup {"unborn"},
         s \in {"polling", "releasing"} => Sync(i) /\ at'[<<i, 0>>] = 0,
         s \in {"polling", "releasing", "collecting", "exited"} =>
           \A k \in ChildNo : k <= Children(i) => state[<<i, k>>] # "unborn"
  PROVE  Shape(i)'
<1>1. Children(i)' = Children(i) /\ (Sync(i)' <=> Sync(i)) BY KindsKept DEF Kept
<1>2. state'[<<i, 0>>] = s /\ \A m \in ChildNo : state'[<<i, m>>] = state[<<i, m>>]
  BY DEF Turns, ChildNo
<1>3. s \notin {"unborn", "forking"} BY DEF Ended
<1>4. suite' = suite /\ verdict' = verdict BY DEF Kept
<1>5. ~(i > Len(verdict) + 1) /\ ~(i <= Len(verdict)) /\ ~(i > Len(suite)) BY DEF Shape
<1>6. s \in BeforeRelease \cup {"unborn", "collecting"} \cup Ended BY DEF BeforeRelease
<1>7. \A m \in ChildNo :
        /\ state'[<<i, m>>] \in {"unborn", "absent", "setup", "waiting", "released"} \cup Ended
        /\ state'[<<i, m>>] # "unborn" => m <= Children(i)
        /\ state'[<<i, m>>] \in {"waiting", "released"} => Sync(i)
  BY <1>2 DEF Shape
<1>8. s \in {"polling", "releasing", "collecting", "exited"} =>
        \A k \in ChildNo : k <= Children(i) => state'[<<i, k>>] # "unborn"
  BY <1>2
<1>9. QED BY <1>1, <1>2, <1>3, <1>4, <1>5, <1>6, <1>7, <1>8 DEF Shape

LEMMA ChildrenType ==
  ASSUME Base, NEW i \in 1..MaxTests, i <= Len(suite)
  PROVE  /\ i \in 1..Len(suite) /\ Children(i) \in 0..3
         /\ Sync(i) => Children(i) >= 1 /\ ~Lenient(i)
         /\ ~Sync(i) => Children(i) <= 1
         /\ Lenient(i) => Children(i) = 1
<1>1. suite \in Seq(DOMAIN Kind) /\ Len(suite) \in Nat BY DEF Base, Typed, TypeOK
<1>2. suite[i] \in DOMAIN Kind BY <1>1, ElementOfSeq
<1>3. QED BY <1>1, <1>2, KindFacts DEF Children, Sync, Lenient

\* Everybody changes at once, the test of i among them.
LEMMA ShapeOfMany ==
  ASSUME NEW i \in 1..MaxTests, Shape(i), Kept, NEW S \in SUBSET ChildNo,
         at'[<<i, 0>>] = at[<<i, 0>>],
         state'[<<i, 0>>] = state[<<i, 0>>] \/ (state[<<i, 0>>] \in Live /\ state'[<<i, 0>>] = "killed"),
         \A k \in ChildNo \ S : state'[<<i, k>>] = state[<<i, k>>],
         \A k \in S : /\ state[<<i, k>>] # "unborn"
                      /\ state'[<<i, k>>] \in {"released"} \cup Ended
                      /\ state'[<<i, k>>] = "released" => Sync(i)
  PROVE  Shape(i)'
<1>1. Children(i)' = Children(i) /\ (Sync(i)' <=> Sync(i)) BY KindsKept DEF Kept
<1>2. suite' = suite /\ verdict' = verdict BY DEF Kept
<1>3. \A m \in ChildNo : state'[<<i, m>>] = "unborn" <=> state[<<i, m>>] = "unborn"
  BY DEF Ended
<1>4. \A m \in ChildNo :
        state'[<<i, m>>] \in {"unborn", "absent", "setup", "waiting", "released"} \cup Ended
  BY DEF Shape
<1>5. \A m \in ChildNo : state'[<<i, m>>] \in {"waiting", "released"} => Sync(i)
  BY DEF Shape, Ended
<1>6. CASE state'[<<i, 0>>] = state[<<i, 0>>]
  BY <1>1, <1>2, <1>3, <1>4, <1>5, <1>6 DEF Shape
<1>7. CASE state[<<i, 0>>] \in Live /\ state'[<<i, 0>>] = "killed"
  <2>1. state[<<i, 0>>] # "unborn" /\ state[<<i, 0>>] \notin Ended BY <1>7 DEF Live, Ended
  <2>2. ~(i > Len(verdict) + 1) /\ ~(i <= Len(verdict)) /\ ~(i > Len(suite)) BY <2>1 DEF Shape
  <2>3. "killed" \in Ended /\ "killed" # "unborn" /\ "killed" # "forking" BY DEF Ended
  <2>4. QED BY <1>1, <1>2, <1>3, <1>4, <1>5, <1>7, <2>2, <2>3 DEF Shape
<1>8. QED BY <1>6, <1>7

LEMMA ShapesNext ==
  ASSUME Base, [Next]_vars, NEW j \in 1..MaxTests
  PROVE  Shape(j)'
<1>1. Shape(j) BY DEF Base
<1>2. ASSUME NEW i \in 1..MaxTests, NEW k \in 0..3, NEW s, Turns(i, k, s), Kept,
             at' = at \/ \E m \in 0..3, n \in Nat : Counts(i, m, n),
             collected' = collected \/ \E m \in 0..3 : collected' = collected \cup {<<i, m>>},
             j # i
      PROVE  Shape(j)'
  <2>1. Same(j) BY <1>2, OthersSame
  <2>2. QED BY <1>1, <1>2, <2>1, ShapeSame DEF Kept
<1>3. 0 \in 0..3 /\ ChildNo \subseteq 0..3 /\ 0 \notin ChildNo /\ ChildNo \subseteq Nat
  BY DEF ChildNo
<1>4. CASE RunTest
  <2> DEFINE i == Len(verdict) + 1
  <2>1. RunsTest(i) BY <1>4, RunTestDoes
  <2> HIDE DEF i
  <2>2. i \in 1..MaxTests /\ UNCHANGED <<suite, verdict, at, collected>> BY <2>1 DEF RunsTest
  <2>3. CASE j # i
    <3>1. Turns(i, 0, "forking") BY <2>1 DEF RunsTest
    <3>2. Same(j) BY <1>3, <2>2, <2>3, <3>1, OthersSame
    <3>3. QED BY <1>1, <2>2, <3>2, ShapeSame
  <2>4. CASE j = i
    <3>1. state'[<<j, 0>>] = "forking" /\ \A m \in ChildNo : state'[<<j, m>>] = state[<<j, m>>]
      BY <1>3, <2>1, <2>4 DEF RunsTest, Turns
    <3>2. at[<<j, 0>>] = 0 /\ \A m \in ChildNo : state[<<j, m>>] = "unborn"
      BY <1>1, <2>1, <2>4 DEF RunsTest, Shape
    <3>3. j = Len(verdict) + 1 /\ j <= Len(suite) /\ Len(verdict) \in Nat /\ Len(suite) \in Nat
      BY <2>1, <2>4 DEF RunsTest, Base, Typed, TypeOK
    <3>4. Children(j) \in 0..3 BY <3>3, ChildrenType
    <3>5. Children(j)' = Children(j) /\ (Sync(j)' <=> Sync(j)) BY <2>2, KindsKept
    <3>6. \A m \in ChildNo : m > 0 BY DEF ChildNo
    <3>7. ~(j > Len(verdict) + 1) /\ ~(j <= Len(verdict)) /\ ~(j > Len(suite)) BY <3>3
    <3>8. QED BY <2>2, <3>1, <3>2, <3>4, <3>5, <3>6, <3>7 DEF Shape, BeforeRelease
  <2>5. QED BY <2>3, <2>4
<1>5. CASE RunnerCannotFork
  <2>1. UNCHANGED <<suite, verdict, state, at, collected>> BY <1>5 DEF RunnerCannotFork
  <2>2. Same(j) BY <2>1 DEF Same
  <2>3. QED BY <1>1, <2>1, <2>2, ShapeSame
<1>6. CASE Report
  <2> DEFINE i == Len(verdict) + 1
  <2>1. Reports(i) BY <1>6, ReportDoes
  <2> HIDE DEF i
  <2>2. UNCHANGED <<suite, state, at>> /\ i = Len(verdict) + 1 /\ Len(verdict) \in Nat
        /\ Len(verdict') = i /\ state[<<i, 0>>] \in Ended /\ verdict'[i] = VerdictOn(state[<<i, 0>>])
        /\ \A m \in 1..Len(verdict) : verdict'[m] = verdict[m]
    BY <2>1 DEF Reports
  <2>3. Children(j)' = Children(j) /\ (Sync(j)' <=> Sync(j)) BY <2>2, KindsKept
  <2>4. j > Len(verdict') + 1 => state'[<<j, 0>>] = "unborn" BY <1>1, <2>2 DEF Shape
  <2>5. j <= Len(verdict') =>
          state'[<<j, 0>>] \in Ended /\ verdict'[j] = VerdictOn(state'[<<j, 0>>])
    <3>1. CASE j = i BY <2>2, <3>1
    <3>2. CASE j <= Len(verdict)
      <4>1. j \in 1..Len(verdict) BY <2>2, <3>2
      <4>2. QED BY <1>1, <2>2, <3>2, <4>1 DEF Shape
    <3>3. QED BY <2>2, <3>1, <3>2
  <2>6. VerdictOn(state[<<j, 0>>])' = VerdictOn(state'[<<j, 0>>]) BY DEF VerdictOn
  <2>7. QED BY <1>1, <2>2, <2>3, <2>4, <2>5, <2>6 DEF Shape
<1>7. CASE Result
  <2>1. UNCHANGED <<suite, verdict, state, at, collected>> BY <1>7 DEF Result
  <2>2. Same(j) BY <2>1 DEF Same
  <2>3. QED BY <1>1, <2>1, <2>2, ShapeSame
<1>8. ASSUME NEW p \in Proc, ForkTask(p) PROVE Shape(j)'
  <2> DEFINE i == p[1]
             k == at[p] + 1
  <2>1. ForksTask(i, k) BY <1>8, ForkTaskDoes
  <2> HIDE DEF i, k
  <2>2. /\ i \in 1..MaxTests /\ k \in ChildNo /\ k \in Nat
        /\ state[<<i, 0>>] = "forking" /\ state[<<i, k>>] = "unborn"
        /\ k = at[<<i, 0>>] + 1 /\ k <= Children(i) /\ Children(i) \in 0..3
        /\ Kept /\ UNCHANGED collected
    BY <1>3, <2>1 DEF ForksTask
  <2>3. ASSUME NEW s \in {"setup", "absent"}, Turns(i, k, s), Counts(i, 0, k)
        PROVE  Shape(j)'
    <3>1. CASE j # i BY <1>2, <1>3, <2>2, <2>3, <3>1
    <3>2. CASE j = i
      <4>1. state'[<<j, k>>] = s /\ at'[<<j, 0>>] = k /\ state'[<<j, 0>>] = state[<<j, 0>>]
            /\ \A m \in ChildNo : m # k => state'[<<j, m>>] = state[<<j, m>>]
        BY <1>3, <2>2, <2>3, <3>2 DEF Turns, Counts
      <4>2. Children(j)' = Children(j) /\ (Sync(j)' <=> Sync(j)) /\ suite' = suite /\ verdict' = verdict
        BY <2>2, KindsKept DEF Kept
      <4>3. \A m \in ChildNo : state[<<j, m>>] = "unborn" <=> m > at[<<j, 0>>]
        BY <1>1, <2>2, <3>2 DEF Shape
      <4>4. at[<<j, 0>>] \in Nat
        <5>1. <<j, 0>> \in Proc BY DEF Proc, MaxChildren
        <5>2. QED BY <5>1 DEF Base, Typed, TypeOK, MaxChildren
      <4>5. \A m \in ChildNo : state'[<<j, m>>] = "unborn" <=> m > k
        <5>1. SUFFICES ASSUME NEW m \in ChildNo PROVE state'[<<j, m>>] = "unborn" <=> m > k
          OBVIOUS
        <5>2. CASE m = k BY <1>3, <2>2, <4>1, <5>2
        <5>3. CASE m # k
          <6>1. m \in Nat BY <1>3
          <6>2. m > at[<<j, 0>>] <=> m > k BY <2>2, <3>2, <4>4, <5>3, <6>1
          <6>3. QED BY <4>1, <4>3, <5>3, <6>2
        <5>4. QED BY <5>2, <5>3
      <4>6. \A m \in ChildNo : state'[<<j, m>>] # "unborn" => m <= Children(j)
        <5>1. SUFFICES ASSUME NEW m \in ChildNo, state'[<<j, m>>] # "unborn" PROVE m <= Children(j)
          OBVIOUS
        <5>2. ~(m > k) BY <4>5, <5>1
        <5>3. QED BY <1>3, <2>2, <3>2, <5>2
      <4>7. QED BY <1>1, <2>2, <3>2, <4>1, <4>2, <4>5, <4>6 DEF Shape, BeforeRelease, Ended
    <3>3. QED BY <3>1, <3>2
  <2>4. CASE Turns(i, 0, "failed") /\ at' = at
    <3>1. CASE j # i BY <1>2, <1>3, <2>2, <2>4, <3>1
    <3>2. CASE j = i BY <1>1, <2>2, <2>4, <3>2, ShapeOfTest DEF Ended
    <3>3. QED BY <3>1, <3>2
  <2>5. QED BY <2>1, <2>3, <2>4 DEF ForksTask
<1>9. ASSUME NEW p \in Proc, Forked(p) PROVE Shape(j)'
  <2> DEFINE i == p[1]
             s == IF Sync(i) THEN "polling" ELSE "collecting"
  <2>1. FinishesForking(i) BY <1>9, ForkedDoes
  <2>2. /\ i \in 1..MaxTests /\ state[<<i, 0>>] = "forking" /\ at[<<i, 0>>] = Children(i)
        /\ Turns(i, 0, s) /\ Counts(i, 0, 0) /\ Kept /\ UNCHANGED collected
        /\ s \in {"polling", "collecting"} /\ (s = "polling" => Sync(i)) /\ Children(i) \in 0..3
    BY <2>1 DEF FinishesForking
  <2> HIDE DEF i, s
  <2>3. CASE j # i BY <1>2, <1>3, <2>2, <2>3
  <2>4. CASE j = i
    <3>1. \A k \in ChildNo : k <= Children(j) => state[<<j, k>>] # "unborn"
      <4>1. SUFFICES ASSUME NEW k \in ChildNo, k <= Children(j) PROVE state[<<j, k>>] # "unborn"
        OBVIOUS
      <4>2. ~(k > at[<<j, 0>>]) BY <1>3, <2>2, <2>4, <4>1
      <4>3. QED BY <1>1, <2>2, <2>4, <4>2 DEF Shape
    <3>2. at'[<<j, 0>>] = 0 BY <2>2, <2>4 DEF Counts
    <3>3. state[<<j, 0>>] \notin Ended \cup {"unborn"} BY <2>2, <2>4 DEF Ended
    <3>4. QED BY <1>1, <2>2, <2>4, <3>1, <3>2, <3>3, ShapeOfTest
  <2>5. QED BY <2>3, <2>4
<1>10. ASSUME NEW p \in Proc, Poll(p) PROVE Shape(j)'
  <2> DEFINE i == p[1]
  <2>1. Polls(i) BY <1>10, PollDoes
  <2>2. /\ i \in 1..MaxTests /\ state[<<i, 0>>] = "polling" /\ Turns(i, 0, "releasing")
        /\ Kept /\ UNCHANGED <<at, collected>>
    BY <2>1 DEF Polls
  <2> HIDE DEF i
  <2>3. CASE j # i BY <1>2, <1>3, <2>2, <2>3
  <2>4. CASE j = i
    <3>1. Sync(j) /\ at'[<<j, 0>>] = 0 /\ state[<<j, 0>>] \notin Ended \cup {"unborn"}
          /\ \A k \in ChildNo : k <= Children(j) => state[<<j, k>>] # "unborn"
      BY <1>1, <2>2, <2>4 DEF Shape, Ended
    <3>2. QED BY <1>1, <2>2, <2>4, <3>1, ShapeOfTest
  <2>5. QED BY <2>3, <2>4
<1>11. ASSUME NEW p \in Proc, ReleaseTs(p) PROVE Shape(j)'
  <2> DEFINE i == p[1]
  <2>1. Releases(i) BY <1>11, ReleaseTsDoes
  <2>2. /\ i \in 1..MaxTests /\ state[<<i, 0>>] = "releasing" /\ Kept /\ UNCHANGED <<at, collected>>
    BY <2>1 DEF Releases
  <2> HIDE DEF i
  <2>3. ASSUME Turns(i, 0, "collecting") PROVE Shape(j)'
    <3>1. CASE j # i BY <1>2, <1>3, <2>2, <2>3, <3>1
    <3>2. CASE j = i
      <4>1. state[<<j, 0>>] \notin Ended \cup {"unborn"}
            /\ \A k \in ChildNo : k <= Children(j) => state[<<j, k>>] # "unborn"
        BY <1>1, <2>2, <3>2 DEF Shape, Ended
      <4>2. QED BY <1>1, <2>2, <2>3, <3>2, <4>1, ShapeOfTest
    <3>3. QED BY <3>1, <3>2
  <2>4. CASE /\ state'[<<i, 0>>] = "collecting"
             /\ \A l \in 1..MaxTests, m \in 0..3 : l # i \/ m # 0 =>
                  state'[<<l, m>>] = IF state[<<l, m>>] = "waiting" THEN "released" ELSE state[<<l, m>>]
    <3> DEFINE S == {k \in ChildNo : state[<<j, k>>] = "waiting"}
    <3>1. \A k \in ChildNo : state'[<<j, k>>] = IF state[<<j, k>>] = "waiting" THEN "released"
                                                ELSE state[<<j, k>>]
      BY <1>3, <2>4
    <3>2. \A k \in S : state[<<j, k>>] # "unborn" /\ state'[<<j, k>>] \in {"released"} \cup Ended
                       /\ (state'[<<j, k>>] = "released" => Sync(j))
      BY <1>1, <3>1 DEF Shape
    <3>3. \A k \in ChildNo \ S : state'[<<j, k>>] = state[<<j, k>>] BY <3>1
    <3>4. CASE j # i
      <4>1. state[<<j, 0>>] # "waiting" BY <1>1 DEF Shape, BeforeRelease, Ended
      <4>2. state'[<<j, 0>>] = state[<<j, 0>>] BY <1>3, <2>4, <3>4, <4>1
      <4>3. S \in SUBSET ChildNo /\ at'[<<j, 0>>] = at[<<j, 0>>] BY <2>2
      <4> HIDE DEF S
      <4>4. QED BY <1>1, <2>2, <3>2, <3>3, <4>2, <4>3, ShapeOfMany
    <3>5. CASE j = i
      <4>1. Children(j)' = Children(j) /\ (Sync(j)' <=> Sync(j)) /\ suite' = suite /\ verdict' = verdict
        BY <2>2, KindsKept DEF Kept
      <4>2. \A m \in ChildNo : state'[<<j, m>>] = "unborn" <=> state[<<j, m>>] = "unborn"
        BY <3>1
      <4>3. \A m \in ChildNo :
              state'[<<j, m>>] \in {"unborn", "absent", "setup", "waiting", "released"} \cup Ended
        BY <1>1, <3>1 DEF Shape
      <4>4. \A m \in ChildNo : state'[<<j, m>>] \in {"waiting", "released"} => Sync(j)
        BY <1>1, <2>2, <3>5 DEF Shape
      <4>5. ~(j > Len(verdict) + 1) /\ ~(j <= Len(verdict)) /\ ~(j > Len(suite))
            /\ \A k \in ChildNo : k <= Children(j) => state[<<j, k>>] # "unborn"
        BY <1>1, <2>2, <3>5 DEF Shape, Ended
      <4>6. state'[<<j, 0>>] = "collecting" BY <2>4, <3>5
      <4>7. \A m \in ChildNo : state[<<j, m>>] # "unborn" => m <= Children(j) BY <1>1 DEF Shape
      <4>8. QED BY <4>1, <4>2, <4>3, <4>4, <4>5, <4>6, <4>7 DEF Shape
    <3>6. QED BY <3>4, <3>5
  <2>5. QED BY <2>1, <2>3, <2>4 DEF Releases
<1>12. ASSUME NEW p \in Proc, Waitpid(p) PROVE Shape(j)'
  <2> DEFINE i == p[1]
  <2>1. Waits(i) BY <1>12, WaitpidDoes
  <2>2. i \in 1..MaxTests /\ state[<<i, 0>>] = "collecting" /\ Kept /\ Children(i) \in 0..3
        /\ at[<<i, 0>>] \in 0..3
    BY <2>1 DEF Waits
  <2> HIDE DEF i
  <2>3. ASSUME Turns(i, 0, "failed"), at' = at,
               collected' = collected \/ \E m \in 0..3 : collected' = collected \cup {<<i, m>>}
        PROVE  Shape(j)'
    <3>1. CASE j # i BY <1>2, <1>3, <2>2, <2>3, <3>1
    <3>2. CASE j = i
      <4>1. state[<<j, 0>>] \notin Ended \cup {"unborn"} /\ "failed" \in Ended
        BY <2>2, <3>2 DEF Ended
      <4>2. QED BY <1>1, <2>2, <2>3, <3>2, <4>1, ShapeOfTest
    <3>3. QED BY <3>1, <3>2
  <2>4. ASSUME state' = state, NEW n \in Nat, Counts(i, 0, n)
        PROVE  Shape(j)'
    <3>1. Children(j)' = Children(j) /\ (Sync(j)' <=> Sync(j)) /\ suite' = suite /\ verdict' = verdict
      BY <2>2, KindsKept DEF Kept
    <3>2. j # i => at'[<<j, 0>>] = at[<<j, 0>>] BY <1>3, <2>4 DEF Counts
    <3>3. QED BY <1>1, <2>2, <2>4, <3>1, <3>2 DEF Shape
  <2>5. CASE UNCHANGED <<at, collected>> /\ Turns(i, 0, "failed") BY <2>3, <2>5
  <2>6. ASSUME NEW k \in 1..Children(i), collected' = collected \cup {<<i, k>>},
               \/ state' = state /\ Counts(i, 0, at[<<i, 0>>] + 1)
               \/ Turns(i, 0, "failed") /\ at' = at
        PROVE  Shape(j)'
    <3>1. k \in 0..3 /\ at[<<i, 0>>] + 1 \in Nat BY <2>2
    <3>2. QED BY <2>3, <2>4, <2>6, <3>1
  <2>7. QED BY <2>1, <2>5, <2>6 DEF Waits
<1>13. ASSUME NEW p \in Proc, TestExits(p) PROVE Shape(j)'
  <2> DEFINE i == p[1]
  <2>1. ExitsAsTest(i) BY <1>13, TestExitsDoes
  <2>2. /\ i \in 1..MaxTests /\ state[<<i, 0>>] = "collecting" /\ Turns(i, 0, "exited")
        /\ Kept /\ UNCHANGED <<at, collected>>
    BY <2>1 DEF ExitsAsTest
  <2> HIDE DEF i
  <2>3. CASE j # i BY <1>2, <1>3, <2>2, <2>3
  <2>4. CASE j = i
    <3>1. state[<<j, 0>>] \notin Ended \cup {"unborn"} /\ "exited" \in Ended
          /\ \A k \in ChildNo : k <= Children(j) => state[<<j, k>>] # "unborn"
      BY <1>1, <2>2, <2>4 DEF Shape, Ended
    <3>2. QED BY <1>1, <2>2, <2>4, <3>1, ShapeOfTest
  <2>5. QED BY <2>3, <2>4
<1>14. ASSUME NEW i \in 1..MaxTests, NEW k \in ChildNo, NEW s, Turns(i, k, s), Kept,
              s \in {"waiting", "released"} \cup Ended,
              s \in {"waiting", "released"} => Sync(i),
              state[<<i, k>>] # "unborn",
              at' = at \/ \E n \in Nat, m \in ChildNo : Counts(i, m, n), collected' = collected
       PROVE  Shape(j)'
  <2>1. CASE j # i BY <1>2, <1>3, <1>14, <2>1
  <2>2. CASE j = i
    <3>1. at'[<<i, 0>>] = at[<<i, 0>>] BY <1>3, <1>14 DEF Counts
    <3>2. QED BY <1>1, <1>14, <2>2, <3>1, ShapeOfChild
  <2>3. QED BY <2>1, <2>2
<1>15. ASSUME NEW p \in Proc, Arrive(p) PROVE Shape(j)'
  <2> DEFINE s == IF Sync(p[1]) THEN "waiting" ELSE "exited"
  <2>1. Arrives(p[1], p[2]) BY <1>15, ArriveDoes
  <2>2. /\ p[1] \in 1..MaxTests /\ p[2] \in ChildNo /\ state[<<p[1], p[2]>>] = "setup"
        /\ Turns(p[1], p[2], s) /\ Kept /\ UNCHANGED <<at, collected>>
    BY <2>1 DEF Arrives
  <2>3. s \in {"waiting", "released"} \cup Ended /\ (s \in {"waiting", "released"} => Sync(p[1]))
    BY DEF Ended
  <2> HIDE DEF s
  <2>4. QED BY <1>14, <2>2, <2>3
<1>16. ASSUME NEW p \in Proc, Signal(p) PROVE Shape(j)'
  <2> DEFINE i == p[1]
             h == p[2]
             t == ToSignal(p)
  <2>1. Signals(i, h, t) BY <1>16, SignalDoes
  <2> HIDE DEF i, h, t
  <2>2. /\ i \in 1..MaxTests /\ h \in ChildNo /\ t \in ChildNo /\ Sync(i)
        /\ state[<<i, h>>] = "released" /\ Kept /\ UNCHANGED collected
        /\ at[<<i, h>>] + 1 \in Nat
    BY <2>1 DEF Signals
  <2>3. CASE /\ Counts(i, h, at[<<i, h>>] + 1)
             /\ state'[<<i, h>>] = "released"
             /\ \A l \in 1..MaxTests, m \in 0..3 : l # i \/ m # h =>
                  state'[<<l, m>>] = IF state[<<l, m>>] \in Live THEN "killed" ELSE state[<<l, m>>]
    <3> DEFINE S == {k \in ChildNo : state[<<j, k>>] \in Live}
    <3>1. at'[<<j, 0>>] = at[<<j, 0>>] BY <1>3, <2>2, <2>3 DEF Counts
    <3>2. state'[<<j, 0>>] = state[<<j, 0>>] \/ (state[<<j, 0>>] \in Live /\ state'[<<j, 0>>] = "killed")
      BY <1>3, <2>2, <2>3
    <3>3. \A k \in ChildNo \ S : state'[<<j, k>>] = state[<<j, k>>] BY <1>3, <2>2, <2>3
    <3>4. ASSUME NEW k \in S
          PROVE  /\ state[<<j, k>>] # "unborn" /\ state'[<<j, k>>] \in {"released"} \cup Ended
                 /\ state'[<<j, k>>] = "released" => Sync(j)
      <4>1. state[<<j, k>>] # "unborn" BY DEF Live
      <4>2. "killed" \in Ended /\ "killed" # "released" BY DEF Ended
      <4>3. CASE j = i /\ k = h BY <2>2, <2>3, <4>1, <4>3
      <4>4. CASE ~(j = i /\ k = h) BY <1>3, <2>3, <4>1, <4>2, <4>4
      <4>5. QED BY <4>3, <4>4
    <3>5. S \in SUBSET ChildNo OBVIOUS
    <3> HIDE DEF S
    <3>6. QED BY <1>1, <2>2, <3>1, <3>2, <3>3, <3>4, <3>5, ShapeOfMany
  <2>4. CASE /\ state[<<i, t>>] # "absent" /\ Counts(i, h, at[<<i, h>>] + 1)
             /\ Turns(i, t, IF state[<<i, t>>] \in Live THEN "killed" ELSE state[<<i, t>>])
    <3>1. CASE state[<<i, t>>] \in Live
      <4>1. Turns(i, t, "killed") BY <2>4, <3>1
      <4>2. state[<<i, t>>] # "unborn" /\ "killed" \in Ended
            /\ "killed" \notin {"waiting", "released"}
        BY <3>1 DEF Live, Ended
      <4>3. QED BY <1>14, <2>2, <2>4, <4>1, <4>2
    <3>2. CASE state[<<i, t>>] \notin Live
      <4>1. \A m \in 0..3 : state'[<<j, m>>] = state[<<j, m>>] BY <1>3, <2>2, <2>4, <3>2 DEF Turns
      <4>2. at'[<<j, 0>>] = at[<<j, 0>>] BY <1>3, <2>2, <2>4 DEF Counts
      <4>3. Children(j)' = Children(j) /\ (Sync(j)' <=> Sync(j)) /\ suite' = suite /\ verdict' = verdict
        BY <2>2, KindsKept DEF Kept
      <4>4. state'[<<j, 0>>] = state[<<j, 0>>]
            /\ \A m \in ChildNo : state'[<<j, m>>] = state[<<j, m>>]
        BY <1>3, <4>1
      <4>5. QED BY <1>1, <4>2, <4>3, <4>4 DEF Shape
    <3>3. QED BY <3>1, <3>2
  <2>5. CASE at' = at /\ Turns(i, h, "failed")
    <3>1. state[<<i, h>>] # "unborn" /\ "failed" \in Ended
            /\ "failed" \notin {"waiting", "released"}
      BY <2>2 DEF Ended
    <3>2. QED BY <1>14, <2>2, <2>5, <3>1
  <2>6. QED BY <2>1, <2>3, <2>4, <2>5 DEF Signals
<1>17. ASSUME NEW p \in Proc, ChildExits(p) PROVE Shape(j)'
  <2>1. ExitsAsChild(p[1], p[2]) BY <1>17, ChildExitsDoes
  <2>2. /\ p[1] \in 1..MaxTests /\ p[2] \in ChildNo /\ state[<<p[1], p[2]>>] = "released"
        /\ Turns(p[1], p[2], "exited") /\ Kept /\ UNCHANGED <<at, collected>>
    BY <2>1 DEF ExitsAsChild
  <2>3. "exited" \in Ended /\ "exited" \notin {"waiting", "released"} BY DEF Ended
  <2>4. QED BY <1>14, <2>2, <2>3
<1>18. ASSUME NEW p \in Proc, Fault(p) PROVE Shape(j)'
  <2> DEFINE i == p[1]
             k == p[2]
  <2>1. Faults(i, k) BY <1>18, FaultDoes
  <2> HIDE DEF i, k
  <2>2. /\ i \in 1..MaxTests /\ k \in 0..3 /\ state[<<i, k>>] \in Live
        /\ Kept /\ UNCHANGED <<at, collected>>
    BY <2>1 DEF Faults
  <2>3. PICK how \in {"failed", "crashed"} : Turns(i, k, how) BY <2>1 DEF Faults
  <2>4. how \in Ended /\ how \notin {"waiting", "released", "polling", "releasing", "collecting", "exited"}
        /\ state[<<i, k>>] # "unborn" /\ state[<<i, k>>] \notin Ended
    BY <2>2 DEF Ended, Live
  <2>5. CASE k \in ChildNo BY <1>14, <2>2, <2>3, <2>4, <2>5
  <2>6. CASE k = 0
    <3>1. CASE j # i BY <1>2, <2>2, <2>3, <3>1
    <3>2. CASE j = i BY <1>1, <2>2, <2>3, <2>4, <2>6, <3>2, ShapeOfTest
    <3>3. QED BY <3>1, <3>2
  <2>7. QED BY <2>2, <2>5, <2>6 DEF ChildNo
<1>19. CASE UNCHANGED vars
  <2>1. UNCHANGED <<suite, verdict, state, at, collected>> BY <1>19 DEF vars
  <2>2. Same(j) BY <2>1 DEF Same
  <2>3. QED BY <1>1, <2>1, <2>2, ShapeSame
<1>20. QED
  BY <1>4, <1>5, <1>6, <1>7, <1>8, <1>9, <1>10, <1>11, <1>12, <1>13, <1>15, <1>16, <1>17, <1>18,
     <1>19
  DEF Next, RunnerStep, ProcStep

-----------------------------------------------------------------------------
(* What a test knows of the children it has waited for.                    *)

Collected(i) == {k \in ChildNo : <<i, k>> \in collected}

\* A test that collects has as many children behind it as it has counted, each of
\* them ended in the way it asserts; the first was the one with the highest
\* priority if that exists, and it was not killed.
Reaped(i) ==
  /\ state[<<i, 0>>] \in BeforeRelease \cup {"unborn"} => Collected(i) = {}
  /\ ~Sync(i) /\ (\E k \in ChildNo : state[<<i, k>>] = "killed") =>
       state[<<i, 0>>] \in {"failed", "crashed", "killed"}
  /\ state[<<i, 0>>] \in {"collecting", "exited"} =>
       /\ at[<<i, 0>>] \in 0..Children(i)
       /\ state[<<i, 0>>] = "exited" => at[<<i, 0>>] = Children(i)
       /\ Cardinality(Collected(i)) = at[<<i, 0>>]
       /\ \A k \in Collected(i) :
            \/ state[<<i, k>>] = "exited"
            \/ Sync(i) /\ state[<<i, k>>] = "killed"
            \/ Lenient(i) /\ state[<<i, k>>] = "crashed"
       /\ Sync(i) /\ at[<<i, 0>>] > 0 =>
            state[<<i, Children(i)>>] \in {"absent", "exited"}

\* Where a child is that was waited for.
LEMMA CollectedEnded ==
  ASSUME Base, NEW i \in 1..MaxTests
  PROVE  \A k \in Collected(i) : state[<<i, k>>] \in Ended /\ k \in ChildNo /\ k <= Children(i)
<1> SUFFICES ASSUME NEW k \in Collected(i)
             PROVE  state[<<i, k>>] \in Ended /\ k \in ChildNo /\ k <= Children(i)
  OBVIOUS
<1>1. k \in ChildNo /\ <<i, k>> \in collected BY DEF Collected
<1>2. state[<<i, k>>] \in Ended BY <1>1, Frozen DEF Base
<1>3. state[<<i, k>>] # "unborn" BY <1>2 DEF Ended
<1>4. QED BY <1>1, <1>2, <1>3 DEF Base, Shape

\* A test that has counted all its children has waited for each of them.
LEMMA AllOfThem ==
  ASSUME Base, NEW i \in 1..MaxTests, Children(i) \in 0..3, Cardinality(Collected(i)) = Children(i)
  PROVE  Collected(i) = 1..Children(i)
<1>1. Collected(i) \subseteq 1..Children(i)
  <2> SUFFICES ASSUME NEW k \in Collected(i) PROVE k \in 1..Children(i) OBVIOUS
  <2>1. k \in ChildNo /\ k <= Children(i) BY CollectedEnded
  <2>2. QED BY <2>1 DEF ChildNo
<1>2. IsFiniteSet(1..Children(i)) /\ Cardinality(1..Children(i)) = Children(i)
  BY FS_Interval
<1>3. Collected(i) \in SUBSET (1..Children(i)) BY <1>1
<1> DEFINE D == Collected(i)
           C == 1..Children(i)
<1>4. IsFiniteSet(C) /\ D \in SUBSET C /\ Cardinality(C) = Cardinality(D) BY <1>2, <1>3
<1> HIDE DEF D, C
<1>5. C = D BY <1>4, FS_Subset
<1>6. QED BY <1>5 DEF C, D

LEMMA CollectedNone ==
  /\ IsFiniteSet({}) /\ Cardinality({}) = 0
  BY FS_EmptySet

\* The test goes on as it was; its children do, or come to an end.
LEMMA ReapedKeep ==
  ASSUME Base, NEW i \in 1..MaxTests, Reaped(i), suite' = suite,
         state'[<<i, 0>>] = state[<<i, 0>>], at'[<<i, 0>>] = at[<<i, 0>>],
         Collected(i)' = Collected(i),
         state[<<i, 0>>] \in {"collecting", "exited"} =>
           \A k \in ChildNo : state[<<i, k>>] \in Ended \cup {"absent"} =>
             state'[<<i, k>>] = state[<<i, k>>],
         ~Sync(i) => \A k \in ChildNo : state'[<<i, k>>] = "killed" => state[<<i, k>>] = "killed"
  PROVE  Reaped(i)'
<1>1. Children(i)' = Children(i) /\ (Sync(i)' <=> Sync(i)) /\ (Lenient(i)' <=> Lenient(i))
  BY KindsKept
<1>2. \A k \in Collected(i) : state[<<i, k>>] \in Ended /\ k \in ChildNo BY CollectedEnded
<1>3. state[<<i, 0>>] \in {"collecting", "exited"} =>
        \A k \in Collected(i) : state'[<<i, k>>] = state[<<i, k>>]
  BY <1>2
<1>4. state[<<i, 0>>] \in {"collecting", "exited"} /\ Sync(i) /\ at[<<i, 0>>] > 0 =>
        state'[<<i, Children(i)>>] = state[<<i, Children(i)>>]
  <2> SUFFICES ASSUME state[<<i, 0>>] \in {"collecting", "exited"}, Sync(i), at[<<i, 0>>] > 0
               PROVE  state'[<<i, Children(i)>>] = state[<<i, Children(i)>>]
    OBVIOUS
  <2>1. state[<<i, Children(i)>>] \in Ended \cup {"absent"} BY DEF Reaped, Ended
  <2>2. Len(suite) \in Nat /\ ~(i > Len(suite))
    <3>1. Shape(i) /\ Len(suite) \in Nat BY DEF Base, Typed, TypeOK
    <3>2. QED BY <3>1 DEF Shape
  <2>3. Children(i) \in ChildNo BY <2>2, ChildrenType DEF ChildNo
  <2>4. QED BY <2>1, <2>3
<1>5. QED BY <1>1, <1>3, <1>4 DEF Reaped

\* A test that does not come to its end claims nothing.
LEMMA ReapedEnd ==
  ASSUME NEW i, state'[<<i, 0>>] \in {"failed", "crashed", "killed"}
  PROVE  Reaped(i)'
  BY DEF Reaped, BeforeRelease

LEMMA ReapedSame ==
  ASSUME Base, NEW i \in 1..MaxTests, Reaped(i), suite' = suite, Same(i)
  PROVE  Reaped(i)'
<1>1. \A k \in ChildNo : k \in 0..3 BY DEF ChildNo
<1>2. Collected(i)' = Collected(i) BY <1>1 DEF Same, Collected
<1>3. QED BY <1>1, <1>2, ReapedKeep DEF Same

LEMMA CollectedSame ==
  ASSUME NEW i, collected' = collected
  PROVE  Collected(i)' = Collected(i)
  BY DEF Collected

LEMMA ReapedNext ==
  ASSUME Base, \A i \in 1..MaxTests : Reaped(i), [Next]_vars, NEW j \in 1..MaxTests
  PROVE  Reaped(j)'
<1>1. Reaped(j) /\ Shape(j) BY DEF Base
<1>2. ASSUME NEW i \in 1..MaxTests, NEW k \in 0..3, NEW s, Turns(i, k, s), suite' = suite,
             at' = at \/ \E m \in 0..3, n \in Nat : Counts(i, m, n),
             collected' = collected \/ \E m \in 0..3 : collected' = collected \cup {<<i, m>>},
             j # i
      PROVE  Reaped(j)'
  <2>1. Same(j) BY <1>2, OthersSame
  <2>2. QED BY <1>1, <1>2, <2>1, ReapedSame
<1>3. 0 \in 0..3 /\ ChildNo \subseteq 0..3 /\ 0 \notin ChildNo /\ ChildNo \subseteq Nat
  BY DEF ChildNo
<1>4. CASE RunTest
  <2> DEFINE i == Len(verdict) + 1
  <2>1. RunsTest(i) BY <1>4, RunTestDoes
  <2> HIDE DEF i
  <2>2. i \in 1..MaxTests /\ UNCHANGED <<suite, verdict, at, collected>> /\ Turns(i, 0, "forking")
        /\ state[<<i, 0>>] = "unborn"
    BY <2>1 DEF RunsTest
  <2>3. CASE j # i BY <1>2, <1>3, <2>2, <2>3
  <2>4. CASE j = i
    <3>1. state'[<<j, 0>>] = "forking" /\ \A m \in ChildNo : state'[<<j, m>>] = state[<<j, m>>]
      BY <1>3, <2>2, <2>4 DEF Turns
    <3>2. \A m \in ChildNo : state[<<j, m>>] = "unborn" BY <1>1, <2>2, <2>4 DEF Shape
    <3>3. Collected(j)' = Collected(j) /\ Collected(j) = {}
      BY <1>1, <2>2, <2>4, CollectedSame DEF Reaped
    <3>4. QED BY <3>1, <3>2, <3>3 DEF Reaped
  <2>5. QED BY <2>3, <2>4
<1>5. CASE UNCHANGED <<suite, state, at, collected>>
  <2>1. Same(j) BY <1>5 DEF Same
  <2>2. QED BY <1>1, <1>5, <2>1, ReapedSame
<1>6. ASSUME NEW p \in Proc, ForkTask(p) PROVE Reaped(j)'
  <2> DEFINE i == p[1]
             k == at[p] + 1
  <2>1. ForksTask(i, k) BY <1>6, ForkTaskDoes
  <2> HIDE DEF i, k
  <2>2. /\ i \in 1..MaxTests /\ k \in ChildNo /\ k \in Nat
        /\ state[<<i, 0>>] = "forking" /\ suite' = suite /\ UNCHANGED collected
    BY <1>3, <2>1 DEF ForksTask, Kept
  <2>3. ASSUME NEW s \in {"setup", "absent"}, Turns(i, k, s), Counts(i, 0, k)
        PROVE  Reaped(j)'
    <3>1. CASE j # i BY <1>2, <1>3, <2>2, <2>3, <3>1
    <3>2. CASE j = i
      <4>1. state'[<<j, k>>] = s /\ state'[<<j, 0>>] = "forking"
            /\ \A m \in ChildNo : m # k => state'[<<j, m>>] = state[<<j, m>>]
        BY <1>3, <2>2, <2>3, <3>2 DEF Turns
      <4>2. ~Sync(j) => \A m \in ChildNo : state[<<j, m>>] # "killed"
        BY <1>1, <2>2, <3>2 DEF Reaped
      <4>3. Collected(j)' = Collected(j) /\ Collected(j) = {}
        BY <1>1, <2>2, <3>2, CollectedSame DEF Reaped, BeforeRelease
      <4>4. Sync(j)' <=> Sync(j) BY <2>2, KindsKept
      <4>5. \A m \in ChildNo : ~Sync(j) => state'[<<j, m>>] # "killed" BY <4>1, <4>2
      <4>6. QED BY <4>1, <4>3, <4>4, <4>5 DEF Reaped
    <3>3. QED BY <3>1, <3>2
  <2>4. CASE Turns(i, 0, "failed") /\ at' = at
    <3>1. CASE j # i BY <1>2, <1>3, <2>2, <2>4, <3>1
    <3>2. CASE j = i
      <4>1. state'[<<j, 0>>] = "failed" BY <2>4, <3>2 DEF Turns
      <4>2. QED BY <4>1, ReapedEnd
    <3>3. QED BY <3>1, <3>2
  <2>5. QED BY <2>1, <2>3, <2>4 DEF ForksTask
<1>7. ASSUME NEW i \in 1..MaxTests, state[<<i, 0>>] \in BeforeRelease, suite' = suite,
             collected' = collected, NEW s \in {"polling", "releasing", "collecting"},
             state'[<<i, 0>>] = s, s = "collecting" => at'[<<i, 0>>] = 0,
             Children(i) \in 0..3,
             \A k \in ChildNo : state'[<<i, k>>] = "killed" => state[<<i, k>>] = "killed"
      PROVE  Reaped(i)'
  <2>1. Collected(i)' = Collected(i) /\ Collected(i) = {}
    BY <1>7, CollectedSame DEF Reaped
  <2>2. ~Sync(i) => \A m \in ChildNo : state[<<i, m>>] # "killed"
    BY <1>7 DEF Reaped, BeforeRelease
  <2>3. Children(i)' = Children(i) /\ (Sync(i)' <=> Sync(i)) BY <1>7, KindsKept
  <2>4. Cardinality(Collected(i)') = 0 BY <2>1, CollectedNone
  <2>5. ~Sync(i) => \A m \in ChildNo : state'[<<i, m>>] # "killed" BY <1>7, <2>2
  <2>6. s \notin {"failed", "crashed", "killed", "exited"} OBVIOUS
  <2>7. s = "collecting" => at'[<<i, 0>>] \in 0..Children(i) /\ ~(at'[<<i, 0>>] > 0)
    BY <1>7
  <2>8. QED BY <1>7, <2>1, <2>3, <2>4, <2>5, <2>6, <2>7 DEF Reaped
<1>8. ASSUME NEW p \in Proc, Forked(p) PROVE Reaped(j)'
  <2> DEFINE i == p[1]
             s == IF Sync(i) THEN "polling" ELSE "collecting"
  <2>1. FinishesForking(i) BY <1>8, ForkedDoes
  <2>2. /\ i \in 1..MaxTests /\ state[<<i, 0>>] \in BeforeRelease
        /\ Turns(i, 0, s) /\ Counts(i, 0, 0) /\ suite' = suite /\ UNCHANGED collected
        /\ s \in {"polling", "releasing", "collecting"} /\ Children(i) \in 0..3
    BY <2>1 DEF FinishesForking, Kept, BeforeRelease
  <2> HIDE DEF i, s
  <2>3. CASE j # i BY <1>2, <1>3, <2>2, <2>3
  <2>4. CASE j = i
    <3>1. state'[<<i, 0>>] = s /\ at'[<<i, 0>>] = 0
          /\ \A k \in ChildNo : state'[<<i, k>>] = state[<<i, k>>]
      BY <1>3, <2>2 DEF Turns, Counts
    <3>2. QED BY <1>7, <2>2, <2>4, <3>1
  <2>5. QED BY <2>3, <2>4
<1>9. ASSUME NEW p \in Proc, Poll(p) PROVE Reaped(j)'
  <2> DEFINE i == p[1]
  <2>1. Polls(i) BY <1>9, PollDoes
  <2>2. /\ i \in 1..MaxTests /\ state[<<i, 0>>] \in BeforeRelease /\ Turns(i, 0, "releasing")
        /\ suite' = suite /\ UNCHANGED <<at, collected>> /\ Children(i) \in 0..3
    BY <2>1 DEF Polls, Kept, BeforeRelease
  <2> HIDE DEF i
  <2>3. CASE j # i BY <1>2, <1>3, <2>2, <2>3
  <2>4. CASE j = i
    <3>1. state'[<<i, 0>>] = "releasing"
          /\ \A k \in ChildNo : state'[<<i, k>>] = state[<<i, k>>]
      BY <1>3, <2>2 DEF Turns
    <3>2. QED BY <1>7, <2>2, <2>4, <3>1
  <2>5. QED BY <2>3, <2>4
<1>10. ASSUME NEW p \in Proc, ReleaseTs(p) PROVE Reaped(j)'
  <2> DEFINE i == p[1]
  <2>1. Releases(i) BY <1>10, ReleaseTsDoes
  <2> HIDE DEF i
  <2>2. /\ i \in 1..MaxTests /\ state[<<i, 0>>] = "releasing" /\ suite' = suite
        /\ UNCHANGED <<at, collected>>
    BY <2>1 DEF Releases, Kept
  <2>3. /\ state'[<<i, 0>>] = "collecting"
        /\ \A m \in 0..3 : j # i \/ m # 0 =>
             \/ state[<<j, m>>] = "waiting" /\ state'[<<j, m>>] = "released"
             \/ state'[<<j, m>>] = state[<<j, m>>]
    BY <2>1 DEF Releases, Turns
  <2>4. CASE j # i
    <3>1. state[<<j, 0>>] # "waiting" BY <1>1 DEF Shape, BeforeRelease, Ended
    <3>2. state'[<<j, 0>>] = state[<<j, 0>>] BY <1>3, <2>3, <2>4, <3>1
    <3>3. \A k \in ChildNo : state[<<j, k>>] \in Ended \cup {"absent"} => state'[<<j, k>>] = state[<<j, k>>]
      BY <1>3, <2>3, <2>4 DEF Ended
    <3>4. \A k \in ChildNo : state'[<<j, k>>] = "killed" => state[<<j, k>>] = "killed"
      BY <1>3, <2>3, <2>4
    <3>5. QED BY <1>1, <2>2, <3>2, <3>3, <3>4, CollectedSame, ReapedKeep
  <2>5. CASE j = i
    <3>1. at[<<i, 0>>] = 0 /\ ~(i > Len(suite)) BY <1>1, <2>2, <2>5 DEF Shape
    <3>2. Len(suite) \in Nat BY DEF Base, Typed, TypeOK
    <3>3. Children(i) \in 0..3 BY <2>2, <3>1, <3>2, ChildrenType
    <3>4. \A k \in ChildNo : state'[<<i, k>>] = "killed" => state[<<i, k>>] = "killed"
      BY <1>3, <2>3, <2>5
    <3>5. QED BY <1>7, <2>2, <2>3, <2>5, <3>1, <3>3, <3>4 DEF BeforeRelease
  <2>6. QED BY <2>4, <2>5
<1>11. ASSUME NEW p \in Proc, Waitpid(p) PROVE Reaped(j)'
  <2> DEFINE i == p[1]
  <2>1. Waits(i) BY <1>11, WaitpidDoes
  <2>2. i \in 1..MaxTests /\ state[<<i, 0>>] = "collecting" /\ suite' = suite /\ Children(i) \in 0..3
        /\ at[<<i, 0>>] \in 0..3 /\ at[<<i, 0>>] < Children(i)
    BY <2>1 DEF Waits, Kept
  <2> HIDE DEF i
  <2>3. ASSUME Turns(i, 0, "failed"), at' = at,
               collected' = collected \/ \E m \in 0..3 : collected' = collected \cup {<<i, m>>}
        PROVE  Reaped(j)'
    <3>1. CASE j # i BY <1>2, <1>3, <2>2, <2>3, <3>1
    <3>2. CASE j = i
      <4>1. state'[<<j, 0>>] = "failed" BY <2>3, <3>2 DEF Turns
      <4>2. QED BY <4>1, ReapedEnd
    <3>3. QED BY <3>1, <3>2
  <2>4. ASSUME NEW k \in 1..Children(i), state[<<i, k>>] \in Ended, <<i, k>> \notin collected,
               state[<<i, AwaitedNo(i)>>] # "absent" => k = AwaitedNo(i),
               collected' = collected \cup {<<i, k>>},
               Accepts(i, state[<<i, k>>]), state' = state, Counts(i, 0, at[<<i, 0>>] + 1)
        PROVE  Reaped(j)'
    <3>1. k \in ChildNo /\ at[<<i, 0>>] + 1 \in Nat BY <2>2 DEF ChildNo
    <3>2. CASE j # i
      <4>1. ASSUME NEW m \in 0..3
            PROVE  at'[<<j, m>>] = at[<<j, m>>] /\ (<<j, m>> \in collected' <=> <<j, m>> \in collected)
        <5>1. <<j, m>> # <<i, k>> BY <3>2
        <5>2. QED BY <2>4, <3>2, <5>1 DEF Counts
      <4>2. Same(j) BY <2>4, <4>1 DEF Same
      <4>3. QED BY <1>1, <2>2, <4>2, ReapedSame
    <3>3. CASE j = i
      <4>1. Collected(i)' = Collected(i) \cup {k} /\ k \notin Collected(i)
        <5>1. k \notin Collected(i) BY <2>4 DEF Collected
        <5>2. ASSUME NEW m \in ChildNo
              PROVE  m \in Collected(i)' <=> m \in Collected(i) \cup {k}
          <6>1. CASE m = k BY <2>4, <3>1, <6>1 DEF Collected
          <6>2. CASE m # k
            <7>1. <<i, m>> # <<i, k>> BY <6>2
            <7>2. QED BY <2>4, <6>2, <7>1 DEF Collected
          <6>3. QED BY <6>1, <6>2
        <5>3. Collected(i)' \subseteq ChildNo /\ Collected(i) \cup {k} \subseteq ChildNo
          BY <3>1 DEF Collected
        <5>4. QED BY <5>1, <5>2, <5>3
      <4>2. Cardinality(Collected(i)) = at[<<i, 0>>] BY <1>1, <2>2, <3>3 DEF Reaped
      <4>3. IsFiniteSet(Collected(i))
        <5>1. IsFiniteSet(ChildNo)
          <6>1. 1 \in Int /\ 3 \in Int OBVIOUS
          <6>2. IsFiniteSet(1..3) BY <6>1, FS_Interval
          <6>3. QED BY <6>2 DEF ChildNo
        <5>2. Collected(i) \in SUBSET ChildNo BY DEF Collected
        <5>3. QED BY <5>1, <5>2, FS_Subset
      <4>4. Cardinality(Collected(i)') = at[<<i, 0>>] + 1 BY <4>1, <4>2, <4>3, FS_AddElement
      <4>5. at'[<<i, 0>>] = at[<<i, 0>>] + 1 BY <2>4 DEF Counts
      <4>6. at'[<<i, 0>>] \in 0..Children(i) BY <2>2, <4>5
      <4>7. Children(i)' = Children(i) /\ (Sync(i)' <=> Sync(i)) /\ (Lenient(i)' <=> Lenient(i))
        BY <2>2, KindsKept
      <4>8. Sync(i) => ~Lenient(i) BY <2>1 DEF Waits
      <4>9. ~Sync(i) => state[<<i, k>>] # "killed"
        BY <1>1, <2>2, <3>1, <3>3 DEF Reaped
      <4>10. \/ state[<<i, k>>] = "exited"
             \/ Sync(i) /\ state[<<i, k>>] = "killed"
             \/ Lenient(i) /\ state[<<i, k>>] = "crashed"
        BY <2>4, <4>8, <4>9 DEF Accepts, Ended
      <4>11. \A m \in Collected(i)' :
            \/ state[<<i, m>>] = "exited"
            \/ Sync(i) /\ state[<<i, m>>] = "killed"
            \/ Lenient(i) /\ state[<<i, m>>] = "crashed"
        BY <1>1, <2>2, <3>3, <4>1, <4>10 DEF Reaped
      <4>12. Sync(i) => state[<<i, Children(i)>>] \in {"absent", "exited"}
        <5>1. CASE at[<<i, 0>>] > 0 BY <1>1, <2>2, <3>3, <5>1 DEF Reaped
        <5>2. CASE at[<<i, 0>>] = 0
          <6>1. Sync(i) => state[<<i, k>>] = "exited" BY <2>4, <4>8, <5>2 DEF Accepts
          <6>2. AwaitedNo(i) = Children(i) BY <5>2 DEF AwaitedNo
          <6>3. QED BY <2>4, <6>1, <6>2
        <5>3. QED BY <2>2, <5>1, <5>2
      <4>13. state'[<<i, 0>>] = "collecting"
             /\ (~Sync(i) => \A m \in ChildNo : state'[<<i, m>>] # "killed")
        BY <1>1, <2>2, <2>4, <3>3 DEF Reaped
      <4>14. QED
        BY <2>4, <3>3, <4>4, <4>5, <4>6, <4>7, <4>11, <4>12, <4>13 DEF Reaped, BeforeRelease
    <3>4. QED BY <3>2, <3>3
  <2>5. CASE UNCHANGED <<at, collected>> /\ Turns(i, 0, "failed") BY <2>3, <2>5
  <2>6. ASSUME NEW k \in 1..Children(i), collected' = collected \cup {<<i, k>>},
               Turns(i, 0, "failed"), at' = at
        PROVE  Reaped(j)'
    <3>1. k \in 0..3 BY <2>2
    <3>2. QED BY <2>3, <2>6, <3>1
  <2>7. QED BY <2>1, <2>4, <2>5, <2>6 DEF Waits
<1>12. ASSUME NEW p \in Proc, TestExits(p) PROVE Reaped(j)'
  <2> DEFINE i == p[1]
  <2>1. ExitsAsTest(i) BY <1>12, TestExitsDoes
  <2>2. /\ i \in 1..MaxTests /\ state[<<i, 0>>] = "collecting" /\ Turns(i, 0, "exited")
        /\ suite' = suite /\ UNCHANGED <<at, collected>> /\ at[<<i, 0>>] = Children(i)
    BY <2>1 DEF ExitsAsTest, Kept
  <2> HIDE DEF i
  <2>3. CASE j # i BY <1>2, <1>3, <2>2, <2>3
  <2>4. CASE j = i
    <3>1. state'[<<i, 0>>] = "exited" /\ \A m \in ChildNo : state'[<<i, m>>] = state[<<i, m>>]
      BY <1>3, <2>2 DEF Turns
    <3>2. Children(i)' = Children(i) /\ (Sync(i)' <=> Sync(i)) /\ (Lenient(i)' <=> Lenient(i))
          /\ Collected(i)' = Collected(i)
      BY <2>2, KindsKept, CollectedSame
    <3>3. \A m \in Collected(i) : m \in ChildNo BY DEF Collected
    <3>4. Sync(i) => Children(i) \in ChildNo
      <4>1. Len(suite) \in Nat /\ ~(i > Len(suite)) BY <1>1, <2>2, <2>4 DEF Base, Shape, Typed, TypeOK
      <4>2. QED BY <2>2, <4>1, ChildrenType DEF ChildNo
    <3>5. ~Sync(i) => \A m \in ChildNo : state[<<i, m>>] # "killed" BY <1>1, <2>2, <2>4 DEF Reaped
    <3>6. QED BY <1>1, <2>2, <2>4, <3>1, <3>2, <3>3, <3>4, <3>5 DEF Reaped, BeforeRelease
  <2>5. QED BY <2>3, <2>4
<1>13. ASSUME NEW i \in 1..MaxTests, NEW k \in ChildNo, NEW s, Turns(i, k, s), suite' = suite,
              ~Sync(i) => s # "killed",
              state[<<i, k>>] \notin Ended \cup {"absent"},
              at' = at \/ \E n \in Nat, m \in ChildNo : Counts(i, m, n), collected' = collected
       PROVE  Reaped(j)'
  <2>1. CASE j # i BY <1>2, <1>3, <1>13, <2>1
  <2>2. CASE j = i
    <3>1. at'[<<i, 0>>] = at[<<i, 0>>] /\ Collected(i)' = Collected(i)
      BY <1>3, <1>13, CollectedSame DEF Counts
    <3>2. state'[<<i, 0>>] = state[<<i, 0>>] /\ state'[<<i, k>>] = s
          /\ \A m \in ChildNo : m # k => state'[<<i, m>>] = state[<<i, m>>]
      BY <1>3, <1>13 DEF Turns
    <3>3. \A m \in ChildNo : state[<<i, m>>] \in Ended \cup {"absent"} =>
            state'[<<i, m>>] = state[<<i, m>>]
      BY <1>13, <3>2
    <3>4. ~Sync(i) => \A m \in ChildNo : state'[<<i, m>>] = "killed" => state[<<i, m>>] = "killed"
      BY <1>13, <3>2
    <3>5. QED BY <1>1, <1>13, <2>2, <3>1, <3>2, <3>3, <3>4, ReapedKeep
  <2>3. QED BY <2>1, <2>2
<1>14. ASSUME NEW p \in Proc, Arrive(p) PROVE Reaped(j)'
  <2> DEFINE s == IF Sync(p[1]) THEN "waiting" ELSE "exited"
  <2>1. Arrives(p[1], p[2]) BY <1>14, ArriveDoes
  <2>2. /\ p[1] \in 1..MaxTests /\ p[2] \in ChildNo /\ state[<<p[1], p[2]>>] = "setup"
        /\ Turns(p[1], p[2], s) /\ suite' = suite /\ UNCHANGED <<at, collected>>
        /\ s # "killed"
    BY <2>1 DEF Arrives, Kept
  <2>3. state[<<p[1], p[2]>>] \notin Ended \cup {"absent"} BY <2>2 DEF Ended
  <2> HIDE DEF s
  <2>4. QED BY <1>13, <2>2, <2>3
<1>15. ASSUME NEW p \in Proc, Signal(p) PROVE Reaped(j)'
  <2> DEFINE i == p[1]
             h == p[2]
             t == ToSignal(p)
  <2>1. Signals(i, h, t) BY <1>15, SignalDoes
  <2> HIDE DEF i, h, t
  <2>2. /\ i \in 1..MaxTests /\ h \in ChildNo /\ t \in ChildNo /\ Sync(i)
        /\ state[<<i, h>>] = "released" /\ suite' = suite /\ UNCHANGED collected
        /\ at[<<i, h>>] + 1 \in Nat
    BY <2>1 DEF Signals, Kept
  <2>3. CASE /\ Counts(i, h, at[<<i, h>>] + 1)
             /\ state'[<<i, h>>] = "released"
             /\ \A l \in 1..MaxTests, m \in 0..3 : l # i \/ m # h =>
                  state'[<<l, m>>] = IF state[<<l, m>>] \in Live THEN "killed" ELSE state[<<l, m>>]
    <3>1. CASE state[<<j, 0>>] \in Live
      <4>1. state'[<<j, 0>>] = "killed" BY <1>3, <2>2, <2>3, <3>1
      <4>2. QED BY <4>1, ReapedEnd
    <3>2. CASE state[<<j, 0>>] \in {"failed", "crashed", "killed"}
      <4>1. state'[<<j, 0>>] = state[<<j, 0>>] BY <1>3, <2>2, <2>3, <3>2 DEF Live
      <4>2. QED BY <3>2, <4>1, ReapedEnd
    <3>3. CASE state[<<j, 0>>] \in {"unborn", "exited"}
      <4>1. state'[<<j, 0>>] = state[<<j, 0>>] BY <1>3, <2>2, <2>3, <3>3 DEF Live
      <4>2. at'[<<j, 0>>] = at[<<j, 0>>] /\ Collected(j)' = Collected(j)
        BY <1>3, <2>2, <2>3, CollectedSame DEF Counts
      <4>3. \A k \in ChildNo : state[<<j, k>>] \in Ended \cup {"absent"} =>
              state'[<<j, k>>] = state[<<j, k>>]
        <5>1. SUFFICES ASSUME NEW k \in ChildNo, state[<<j, k>>] \in Ended \cup {"absent"}
                       PROVE  state'[<<j, k>>] = state[<<j, k>>]
          OBVIOUS
        <5>2. state[<<j, k>>] \notin Live /\ state[<<j, k>>] # "released" BY <5>1 DEF Ended, Live
        <5>3. ~(j = i /\ k = h) BY <2>2, <5>2
        <5>4. QED BY <1>3, <2>3, <5>2, <5>3
      <4>4. ~Sync(j) => \A k \in ChildNo : state[<<j, k>>] \notin Live
        <5>1. CASE state[<<j, 0>>] = "unborn" BY <1>1, <5>1 DEF Shape, Live
        <5>2. CASE state[<<j, 0>>] = "exited"
          <6>1. ~(j > Len(suite)) /\ Len(suite) \in Nat
            BY <1>1, <5>2 DEF Shape, Base, Typed, TypeOK
          <6>2. Children(j) \in 0..3 BY <6>1, ChildrenType
          <6>3. Cardinality(Collected(j)) = Children(j) BY <1>1, <5>2 DEF Reaped
          <6>4. Collected(j) = 1..Children(j) BY <6>2, <6>3, AllOfThem
          <6>5. SUFFICES ASSUME NEW k \in ChildNo, state[<<j, k>>] \in Live PROVE FALSE
            OBVIOUS
          <6>6. state[<<j, k>>] # "unborn" /\ state[<<j, k>>] \notin Ended BY <6>5 DEF Live, Ended
          <6>7. k <= Children(j) BY <1>1, <6>6 DEF Shape
          <6>8. k \in Collected(j) BY <6>2, <6>4, <6>7 DEF ChildNo
          <6>9. QED BY <6>6, <6>8, CollectedEnded
        <5>3. QED BY <3>3, <5>1, <5>2
      <4>5. ~Sync(j) => \A k \in ChildNo : state'[<<j, k>>] = "killed" => state[<<j, k>>] = "killed"
        <5>1. SUFFICES ASSUME ~Sync(j), NEW k \in ChildNo, state'[<<j, k>>] = "killed"
                       PROVE  state[<<j, k>>] = "killed"
          OBVIOUS
        <5>2. j # i BY <2>2, <5>1
        <5>3. QED BY <1>3, <2>3, <4>4, <5>1, <5>2
      <4>6. QED BY <1>1, <2>2, <4>1, <4>2, <4>3, <4>5, ReapedKeep
    <3>4. QED BY <1>1, <3>1, <3>2, <3>3 DEF Shape, BeforeRelease, Ended, Live
  <2>4. CASE /\ state[<<i, t>>] # "absent" /\ Counts(i, h, at[<<i, h>>] + 1)
             /\ Turns(i, t, IF state[<<i, t>>] \in Live THEN "killed" ELSE state[<<i, t>>])
    <3>1. CASE state[<<i, t>>] \in Live
      <4>1. Turns(i, t, "killed") BY <2>4, <3>1
      <4>2. state[<<i, t>>] \notin Ended \cup {"absent"} BY <3>1 DEF Live, Ended
      <4>3. QED BY <1>13, <2>2, <2>4, <4>1, <4>2
    <3>2. CASE state[<<i, t>>] \notin Live
      <4>1. \A m \in 0..3 : state'[<<j, m>>] = state[<<j, m>>] BY <1>3, <2>2, <2>4, <3>2 DEF Turns
      <4>2. at'[<<j, 0>>] = at[<<j, 0>>] BY <1>3, <2>2, <2>4 DEF Counts
      <4>3. QED BY <1>1, <1>3, <2>2, <4>1, <4>2, CollectedSame, ReapedKeep
    <3>3. QED BY <3>1, <3>2
  <2>5. CASE at' = at /\ Turns(i, h, "failed")
    <3>1. state[<<i, h>>] \notin Ended \cup {"absent"} BY <2>2 DEF Ended
    <3>2. QED BY <1>13, <2>2, <2>5, <3>1
  <2>6. QED BY <2>1, <2>3, <2>4, <2>5 DEF Signals
<1>16. ASSUME NEW p \in Proc, ChildExits(p) PROVE Reaped(j)'
  <2>1. ExitsAsChild(p[1], p[2]) BY <1>16, ChildExitsDoes
  <2>2. /\ p[1] \in 1..MaxTests /\ p[2] \in ChildNo /\ state[<<p[1], p[2]>>] = "released"
        /\ Turns(p[1], p[2], "exited") /\ suite' = suite /\ UNCHANGED <<at, collected>>
    BY <2>1 DEF ExitsAsChild, Kept
  <2>3. state[<<p[1], p[2]>>] \notin Ended \cup {"absent"} BY <2>2 DEF Ended
  <2>4. QED BY <1>13, <2>2, <2>3
<1>17. ASSUME NEW p \in Proc, Fault(p) PROVE Reaped(j)'
  <2> DEFINE i == p[1]
             k == p[2]
  <2>1. Faults(i, k) BY <1>17, FaultDoes
  <2> HIDE DEF i, k
  <2>2. /\ i \in 1..MaxTests /\ k \in 0..3 /\ state[<<i, k>>] \in Live
        /\ suite' = suite /\ UNCHANGED <<at, collected>>
    BY <2>1 DEF Faults, Kept
  <2>3. PICK how \in {"failed", "crashed"} : Turns(i, k, how) BY <2>1 DEF Faults
  <2>4. how # "killed" /\ state[<<i, k>>] \notin Ended \cup {"absent"}
    BY <2>2 DEF Ended, Live
  <2>5. CASE k \in ChildNo BY <1>13, <2>2, <2>3, <2>4, <2>5
  <2>6. CASE k = 0
    <3>1. CASE j # i BY <1>2, <2>2, <2>3, <3>1
    <3>2. CASE j = i
      <4>1. state'[<<j, 0>>] = how BY <2>3, <2>6, <3>2 DEF Turns
      <4>2. QED BY <4>1, ReapedEnd
    <3>3. QED BY <3>1, <3>2
  <2>7. QED BY <2>2, <2>5, <2>6 DEF ChildNo
<1>18. QED
  <2>1. RunnerCannotFork \/ Report \/ Result \/ UNCHANGED vars =>
          UNCHANGED <<suite, state, at, collected>>
    BY DEF RunnerCannotFork, Report, Result, vars
  <2>2. QED
    BY <2>1, <1>4, <1>5, <1>6, <1>8, <1>9, <1>10, <1>11, <1>12, <1>14, <1>15, <1>16, <1>17
    DEF Next, RunnerStep, ProcStep

\* What "ok" means, from what the test knew when it exited.
LEMMA OkFromReaped ==
  ASSUME Base, \A i \in 1..MaxTests : Reaped(i)
  PROVE  OkIsOk /\ NoLeftovers
<1>1. ASSUME NEW i \in 1..Len(verdict), verdict[i] = "ok"
      PROVE  /\ i \in 1..MaxTests /\ state[<<i, 0>>] = "exited" /\ Shape(i) /\ Reaped(i)
             /\ Children(i) \in 0..3 /\ Collected(i) = 1..Children(i)
             /\ Sync(i) => Children(i) >= 1 /\ ~Lenient(i)
  <2>1. Len(verdict) \in Nat /\ Len(suite) \in Nat /\ Len(verdict) <= Len(suite)
        /\ Len(suite) <= MaxTests /\ MaxTests \in Nat
    BY SuiteAssumption DEF Base, Typed, TypeOK
  <2>2. i \in 1..MaxTests /\ i <= Len(suite) /\ i <= Len(verdict) BY <1>1, <2>1
  <2>3. Shape(i) /\ Reaped(i) BY <2>2 DEF Base
  <2>4. state[<<i, 0>>] \in Ended /\ VerdictOn(state[<<i, 0>>]) = "ok" BY <1>1, <2>2, <2>3 DEF Shape
  <2>5. state[<<i, 0>>] = "exited" BY <2>4 DEF VerdictOn, Ended
  <2>6. Children(i) \in 0..3 /\ (Sync(i) => Children(i) >= 1 /\ ~Lenient(i)) BY <2>2, ChildrenType
  <2>7. Cardinality(Collected(i)) = Children(i) BY <2>3, <2>5 DEF Reaped
  <2>8. Collected(i) = 1..Children(i) BY <2>2, <2>6, <2>7, AllOfThem
  <2>9. QED BY <2>2, <2>3, <2>5, <2>6, <2>8
<1>2. NoLeftovers
  <2> SUFFICES ASSUME NEW i \in 1..Len(verdict), verdict[i] = "ok",
                      NEW k \in 1..Kind[suite[i]].children
               PROVE  <<i, k>> \in collected
    BY DEF NoLeftovers
  <2>1. k \in 1..Children(i) BY DEF Children
  <2>2. k \in Collected(i) BY <1>1, <2>1
  <2>3. QED BY <2>2 DEF Collected
<1>3. OkIsOk
  <2> SUFFICES ASSUME NEW i \in 1..Len(verdict), verdict[i] = "ok",
                      NEW k \in 0..Kind[suite[i]].children
               PROVE  \/ state[<<i, k>>] = "exited"
                      \/ state[<<i, k>>] = "killed" /\ k \in 1..Kind[suite[i]].children - 1
                      \/ state[<<i, k>>] = "crashed" /\ k > 0 /\ Kind[suite[i]].lenient
    BY DEF OkIsOk
  <2>1. k \in 0..Children(i) /\ Kind[suite[i]].children = Children(i)
        /\ (Kind[suite[i]].lenient <=> Lenient(i))
    BY DEF Children, Lenient
  <2>2. CASE k = 0 BY <1>1, <2>2
  <2>3. CASE k # 0
    <3>1. Children(i) \in 0..3 BY <1>1
    <3>2. k \in 1..Children(i) /\ Children(i) > 0 BY <2>1, <2>3, <3>1
    <3>3. k \in Collected(i) BY <1>1, <3>2
    <3>4. /\ state[<<i, 0>>] = "exited" /\ Reaped(i) /\ i \in 1..MaxTests BY <1>1
    <3>5. /\ \/ state[<<i, k>>] = "exited"
             \/ Sync(i) /\ state[<<i, k>>] = "killed"
             \/ Lenient(i) /\ state[<<i, k>>] = "crashed"
          /\ Sync(i) => state[<<i, Children(i)>>] \in {"absent", "exited"}
      BY <3>2, <3>3, <3>4 DEF Reaped
    <3>6. state[<<i, k>>] = "killed" => k # Children(i) BY <3>5
    <3>7. k # Children(i) => k \in 1..Children(i) - 1 BY <3>1, <3>2
    <3>8. QED BY <2>1, <3>2, <3>5, <3>6, <3>7
  <2>4. QED BY <2>2, <2>3
<1>4. QED BY <1>2, <1>3

LEMMA InitReaped ==
  ASSUME Init, NEW i \in 1..MaxTests
  PROVE  Reaped(i)
<1>1. \A k \in 0..3 : state[<<i, k>>] = "unborn" BY ProcFacts DEF Init
<1>2. state[<<i, 0>>] = "unborn" /\ \A k \in ChildNo : state[<<i, k>>] = "unborn"
  BY <1>1 DEF ChildNo
<1>3. Collected(i) = {} BY DEF Init, Collected
<1>4. QED BY <1>2, <1>3 DEF Reaped

Inv1 == Base /\ \A i \in 1..MaxTests : Reaped(i)

LEMMA Inv1Step ==
  ASSUME Inv1, [Next]_vars
  PROVE  Inv1'
<1>1. Base /\ \A i \in 1..MaxTests : Reaped(i) BY DEF Inv1
<1>2. Typed' BY <1>1, TypedNext DEF Base
<1>3. \A i \in 1..MaxTests : Shape(i)' BY <1>1, ShapesNext
<1>4. \A i \in 1..MaxTests : Reaped(i)' BY <1>1, ReapedNext
<1>5. QED BY <1>2, <1>3, <1>4 DEF Inv1, Base

\* Every state is of the types, with the shape of a run, and with what tests know
\* of the children they have waited for.
THEOREM RunsInShape == Spec => []Inv1
<1>1. Init => Inv1 BY InitTyped, InitReaped DEF Inv1, Base
<1>2. Inv1 /\ [Next]_vars => Inv1' BY Inv1Step
<1>3. QED BY <1>1, <1>2, PTL DEF Spec

\* The runner's report can be relied on: a test that run_test() reports as ok has
\* waited for each of its children, and each came to its end as the test wanted
\* (src/tests/runner.c:30-37, the ASSERTs on status of the synchronous tests).
THEOREM SuiteCorrect == Spec => []SuiteInv
<1>1. Inv1 => SuiteInv BY OkFromReaped DEF Inv1, Base, Typed, SuiteInv
<1>2. QED BY <1>1, RunsInShape, PTL

-----------------------------------------------------------------------------
(* Nothing is printed twice.                                               *)

\* What is printed by now, or will be when the runner empties its buffer.
Printed == out \o pending[Runner]

\* The line stands for something that has happened, and does not happen again.
Said(l) ==
  \/ l[1] = "suite"
  \/ l[1] = "test" /\ l[2] \in 1..MaxTests /\ (state[<<l[2], 0>>] # "unborn" \/ ~Running)
  \/ l[1] \in {"ok", "failed"} /\ l[2] \in 1..Len(verdict)
  \/ l[1] = "result" /\ ~Running

OneOfEach ==
  /\ \A a, b \in 1..Len(Printed) : a # b => Printed[a] # Printed[b]
  /\ \A a \in 1..Len(Printed) : Said(Printed[a])

\* No step takes back what was said.
GoesOn ==
  /\ Running' => Running
  /\ \A i \in 1..MaxTests : state[<<i, 0>>] # "unborn" => state'[<<i, 0>>] # "unborn"
  /\ Len(verdict) \in Nat /\ Len(verdict') \in Nat /\ Len(verdict) <= Len(verdict')

LEMMA StillSaid ==
  ASSUME GoesOn, NEW l, Said(l)
  PROVE  Said(l)'
<1>1. l[2] \in 1..Len(verdict) => l[2] \in 1..Len(verdict') BY DEF GoesOn
<1>2. QED BY <1>1 DEF GoesOn, Said

LEMMA OneMore ==
  ASSUME Typed, OneOfEach, GoesOn, NEW l \in Text,
         Printed' = Append(Printed, l), ~Said(l), Said(l)'
  PROVE  OneOfEach'
<1>1. Printed \in Seq(Text) BY LineTypes DEF Printed
<1>2. /\ Len(Printed') = Len(Printed) + 1 /\ Len(Printed) \in Nat
      /\ Printed'[Len(Printed) + 1] = l
      /\ \A a \in 1..Len(Printed) : Printed'[a] = Printed[a]
  BY <1>1
<1>3. \A a \in 1..Len(Printed) : Said(Printed[a]) /\ Printed[a] # l BY DEF OneOfEach
<1>4. \A a \in 1..Len(Printed') : a \in 1..Len(Printed) \/ a = Len(Printed) + 1 BY <1>2
<1>5. ASSUME NEW a \in 1..Len(Printed'), NEW b \in 1..Len(Printed'), a # b
      PROVE  Printed'[a] # Printed'[b]
  BY <1>2, <1>3, <1>4, <1>5 DEF OneOfEach
<1>6. ASSUME NEW a \in 1..Len(Printed')
      PROVE  Said(Printed[a])'
  <2>1. CASE a = Len(Printed) + 1
    <3>1. Printed[a]' = l BY <1>2, <2>1
    <3>2. QED BY <3>1 DEF Said
  <2>2. CASE a \in 1..Len(Printed)
    <3>1. Said(Printed[a])
      BY <2>2 DEF OneOfEach
    <3>2. PICK x : x = Printed[a] OBVIOUS
    <3>3. Said(x)' BY <3>1, <3>2, StillSaid
    <3>4. Printed[a]' = x BY <1>2, <2>2, <3>2
    <3>5. QED BY <3>3, <3>4 DEF Said
  <2>3. QED BY <1>4, <2>1, <2>2
<1>7. QED BY <1>5, <1>6 DEF OneOfEach

LEMMA NoMore ==
  ASSUME OneOfEach, GoesOn, Printed' = Printed
  PROVE  OneOfEach'
<1>1. ASSUME NEW a \in 1..Len(Printed) PROVE Said(Printed[a])'
  <2>1. Said(Printed[a]) BY DEF OneOfEach
  <2>2. PICK x : x = Printed[a] OBVIOUS
  <2>3. Said(x)' BY <2>1, <2>2, StillSaid
  <2>4. Printed[a]' = x BY <2>2
  <2>5. QED BY <2>3, <2>4 DEF Said
<1>2. QED BY <1>1 DEF OneOfEach

\* A process prints nothing.
LEMMA ProcGoesOn ==
  ASSUME Base, NEW p \in Proc, ProcStep(p) \/ Fault(p)
  PROVE  GoesOn /\ Kept
<1>1. Len(verdict) \in Nat BY DEF Base, Typed, TypeOK
<1>2. ASSUME NEW i \in 1..MaxTests, NEW k \in 0..3, NEW s, s # "unborn" \/ k # 0, Turns(i, k, s), Kept,
             runner' = runner
      PROVE  GoesOn /\ Kept
  <2>1. 0 \in 0..3 OBVIOUS
  <2>2. \A j \in 1..MaxTests : state'[<<j, 0>>] = state[<<j, 0>>] \/ state'[<<j, 0>>] # "unborn"
    BY <1>2, <2>1 DEF Turns
  <2>3. QED BY <1>1, <1>2, <2>2 DEF GoesOn, Kept, Running
<1>3. ChildNo \subseteq 0..3 /\ 0 \in 0..3 /\ 0 \notin ChildNo BY DEF ChildNo
<1>4. CASE ForkTask(p)
  <2>1. ForksTask(p[1], at[p] + 1) BY <1>4, ForkTaskDoes
  <2>2. QED BY <1>2, <1>3, <2>1 DEF ForksTask
<1>5. CASE Forked(p)
  <2>1. FinishesForking(p[1]) BY <1>5, ForkedDoes
  <2>2. QED BY <1>2, <1>3, <2>1 DEF FinishesForking
<1>6. CASE Poll(p)
  <2>1. Polls(p[1]) BY <1>6, PollDoes
  <2>2. QED BY <1>2, <1>3, <2>1 DEF Polls
<1>7. CASE ReleaseTs(p)
  <2>1. Releases(p[1]) BY <1>7, ReleaseTsDoes
  <2>2. \A j \in 1..MaxTests : state[<<j, 0>>] # "unborn" => state'[<<j, 0>>] # "unborn"
    BY <1>3, <2>1 DEF Releases, Turns
  <2>3. Kept /\ runner' = runner BY <2>1 DEF Releases
  <2>4. QED BY <1>1, <2>2, <2>3 DEF GoesOn, Kept, Running
<1>8. CASE Waitpid(p)
  <2>1. Waits(p[1]) BY <1>8, WaitpidDoes
  <2>2. \A j \in 1..MaxTests : state[<<j, 0>>] # "unborn" => state'[<<j, 0>>] # "unborn"
    BY <1>3, <2>1 DEF Waits, Turns
  <2>3. Kept /\ runner' = runner BY <2>1 DEF Waits
  <2>4. QED BY <1>1, <2>2, <2>3 DEF GoesOn, Kept, Running
<1>9. CASE TestExits(p)
  <2>1. ExitsAsTest(p[1]) BY <1>9, TestExitsDoes
  <2>2. QED BY <1>2, <1>3, <2>1 DEF ExitsAsTest
<1>10. CASE Arrive(p)
  <2>1. Arrives(p[1], p[2]) BY <1>10, ArriveDoes
  <2>2. QED BY <1>2, <1>3, <2>1 DEF Arrives
<1>11. CASE Signal(p)
  <2>1. Signals(p[1], p[2], ToSignal(p)) BY <1>11, SignalDoes
  <2>2. \A j \in 1..MaxTests : state[<<j, 0>>] # "unborn" => state'[<<j, 0>>] # "unborn"
    BY <1>3, <2>1 DEF Signals, Turns
  <2>3. Kept /\ (Running' => Running) BY <2>1 DEF Signals, Running
  <2>4. QED BY <1>1, <2>2, <2>3 DEF GoesOn, Kept
<1>12. CASE ChildExits(p)
  <2>1. ExitsAsChild(p[1], p[2]) BY <1>12, ChildExitsDoes
  <2>2. QED BY <1>2, <1>3, <2>1 DEF ExitsAsChild
<1>13. CASE Fault(p)
  <2>1. Faults(p[1], p[2]) BY <1>13, FaultDoes
  <2>2. QED BY <1>2, <2>1 DEF Faults
<1>14. QED
  BY <1>4, <1>5, <1>6, <1>7, <1>8, <1>9, <1>10, <1>11, <1>12, <1>13 DEF ProcStep

\* What the runner writes at once: its buffer and a line.
LEMMA WritesLine ==
  ASSUME Typed, NEW l \in Text, out' = out \o pending[Runner] \o <<l>>,
         pending' = [pending EXCEPT ![Runner] = <<>>]
  PROVE  Printed' = Append(Printed, l)
<1>1. pending'[Runner] = <<>> BY DEF Typed
<1>2. Printed \in Seq(Text) BY LineTypes DEF Printed
<1>3. out' = Append(Printed, l) BY <1>2 DEF Printed
<1>4. out' \in Seq(Text)
  <2>1. Append(Printed, l) \in Seq(Text) BY <1>2
  <2>2. QED BY <1>3, <2>1
<1>5. out' \o <<>> = out' BY <1>4, ConcatEmptySeq
<1>6. QED BY <1>1, <1>3, <1>5 DEF Printed

LEMMA OneOfEachNext ==
  ASSUME Base, OneOfEach, [Next]_vars
  PROVE  OneOfEach'
<1> DEFINE i == Len(verdict) + 1
<1>1. Typed /\ Len(verdict) \in Nat BY DEF Base, Typed, TypeOK
<1>2. i \in Nat /\ Line("test", i) \in Text /\ Line("result", 0) \in Text
      /\ Line("ok", i) \in Text /\ Line("failed", i) \in Text
  <2>1. i \in Nat /\ 0 \in Nat BY <1>1
  <2> HIDE DEF i
  <2>2. QED BY <1>1, <2>1, LineTypes
<1>3. \A t : Line(t, i)[1] = t /\ Line(t, i)[2] = i /\ Line(t, 0)[1] = t BY DEF Line
<1>4. CASE RunTest
  <2>1. RunsTest(i) BY <1>4, RunTestDoes
  <2>2. Current[1] = i /\ Running /\ runner' = runner BY <1>4 DEF RunTest, Current
  <2>3. i \in 1..MaxTests /\ state[<<i, 0>>] = "unborn" /\ Turns(i, 0, "forking") /\ verdict' = verdict
    BY <2>1 DEF RunsTest
  <2>4. out' = out \o pending[Runner] \o <<Line("test", i)>>
        /\ pending' = [pending EXCEPT ![Runner] = <<>>]
    BY <1>4, <2>2 DEF RunTest
  <2> HIDE DEF i
  <2>5. 0 \in 0..3 OBVIOUS
  <2>6. state'[<<i, 0>>] = "forking"
        /\ \A j \in 1..MaxTests : j # i => state'[<<j, 0>>] = state[<<j, 0>>]
    BY <2>3, <2>5 DEF Turns
  <2>7. GoesOn BY <1>1, <2>2, <2>3, <2>6 DEF GoesOn, Running
  <2>8. PICK l \in Text : l = Line("test", i) BY <1>2
  <2>9. l[1] = "test" /\ l[2] = i BY <1>3, <2>8
  <2>10. Printed' = Append(Printed, l) BY <1>1, <2>4, <2>8, WritesLine
  <2>11. ~Said(l) BY <2>2, <2>3, <2>9 DEF Said
  <2>12. Said(l)' BY <2>3, <2>6, <2>9 DEF Said
  <2>13. QED BY <1>1, <2>7, <2>10, <2>11, <2>12, OneMore
<1>5. CASE RunnerCannotFork
  <2>1. Current[1] = i /\ Running /\ ~Running' /\ UNCHANGED <<state, verdict, suite>>
        /\ state[<<i, 0>>] = "unborn" /\ Len(verdict) < Len(suite)
    BY <1>5 DEF RunnerCannotFork, Current, Running
  <2>2. i \in 1..MaxTests
    <3>1. Len(suite) \in Nat /\ Len(suite) <= MaxTests /\ MaxTests \in Nat
      BY <1>1, SuiteAssumption DEF Typed, TypeOK
    <3>2. QED BY <1>1, <2>1, <3>1
  <2>3. out' = out \o pending[Runner] \o <<Line("test", i)>>
        /\ pending' = [pending EXCEPT ![Runner] = <<>>]
    BY <1>5, <2>1 DEF RunnerCannotFork
  <2> HIDE DEF i
  <2>4. GoesOn BY <1>1, <2>1 DEF GoesOn
  <2>5. PICK l \in Text : l = Line("test", i) BY <1>2
  <2>6. l[1] = "test" /\ l[2] = i BY <1>3, <2>5
  <2>7. Printed' = Append(Printed, l) BY <1>1, <2>3, <2>5, WritesLine
  <2>8. ~Said(l) BY <2>1, <2>2, <2>6 DEF Said
  <2>9. Said(l)' BY <2>1, <2>2, <2>6 DEF Said
  <2>10. QED BY <1>1, <2>4, <2>7, <2>8, <2>9, OneMore
<1>6. CASE Report
  <2> DEFINE v == VerdictOn(state[Current])
  <2>1. Reports(i) BY <1>6, ReportDoes
  <2>2. /\ Current[1] = i /\ Current = <<i, 0>> BY DEF Current
  <2>3. /\ pending' = [pending EXCEPT ![Runner] = IF v = "silent" THEN @ ELSE Append(@, Line(v, i))]
        /\ UNCHANGED <<suite, runner, state, out>>
        /\ Len(verdict') = i
    BY <1>6, <2>1, <2>2 DEF Report, Reports
  <2>4. v \in {"ok", "failed", "silent"} BY DEF VerdictOn
  <2>5. Len(verdict') = Len(verdict) + 1 BY <2>3
  <2> HIDE DEF i, v
  <2>6. GoesOn BY <1>1, <2>3, <2>5 DEF GoesOn, Running
  <2>7. pending'[Runner] = IF v = "silent" THEN pending[Runner] ELSE Append(pending[Runner], Line(v, i))
    BY <1>1, <2>3 DEF Typed
  <2>8. CASE v = "silent"
    <3>1. Printed' = Printed BY <2>3, <2>7, <2>8 DEF Printed
    <3>2. QED BY <2>6, <3>1, NoMore
  <2>9. CASE v # "silent"
    <3>1. PICK l \in Text : l = Line(v, i) BY <1>2, <2>4, <2>9
    <3>2. l[1] = v /\ l[2] = i BY <1>3, <3>1
    <3>3. out \in Seq(Text) /\ pending[Runner] \in Seq(Text) BY <1>1 DEF Typed
    <3>4. out \o Append(pending[Runner], l) = Append(out \o pending[Runner], l) BY <3>3
    <3>5. Printed' = Append(Printed, l) BY <2>3, <2>7, <2>9, <3>1, <3>4 DEF Printed
    <3>6. ~Said(l)
      <4>1. i \notin 1..Len(verdict) BY <1>1 DEF i
      <4>2. QED BY <2>4, <2>9, <3>2, <4>1 DEF Said
    <3>7. Said(l)'
      <4>1. i \in 1..Len(verdict') BY <1>1, <2>3, <2>5
      <4>2. QED BY <2>4, <2>9, <3>2, <4>1 DEF Said
    <3>8. QED BY <1>1, <2>6, <3>5, <3>6, <3>7, OneMore
  <2>10. QED BY <2>8, <2>9
<1>7. CASE Result
  <2>1. Running /\ ~Running' /\ UNCHANGED <<state, verdict>> BY <1>7 DEF Result, Running
  <2>2. GoesOn BY <1>1, <2>1 DEF GoesOn
  <2>3. PICK l \in Text : l = Line("result", 0) BY <1>2
  <2>4. l[1] = "result" BY <1>3, <2>3
  <2>5. out' = out \o pending[Runner] \o <<l>> /\ pending' = [pending EXCEPT ![Runner] = <<>>]
    BY <1>7, <2>3 DEF Result
  <2>6. Printed' = Append(Printed, l) BY <1>1, <2>5, WritesLine
  <2>7. ~Said(l) /\ Said(l)' BY <2>1, <2>4 DEF Said
  <2>8. QED BY <1>1, <2>2, <2>6, <2>7, OneMore
<1>8. ASSUME NEW p \in Proc, ProcStep(p) \/ Fault(p) PROVE OneOfEach'
  <2>1. GoesOn /\ Kept BY <1>8, ProcGoesOn
  <2>2. Printed' = Printed BY <2>1 DEF Kept, Printed
  <2>3. QED BY <2>1, <2>2, NoMore
<1>9. CASE UNCHANGED vars
  <2>1. UNCHANGED <<runner, state, verdict, out, pending>> BY <1>9 DEF vars
  <2>2. GoesOn /\ Printed' = Printed BY <1>1, <2>1 DEF GoesOn, Printed, Running
  <2>3. QED BY <2>2, NoMore
<1>10. QED BY <1>4, <1>5, <1>6, <1>7, <1>8, <1>9 DEF Next, RunnerStep

LEMMA InitOneOfEach ==
  ASSUME Init
  PROVE  OneOfEach
<1>1. pending[Runner] = <<Line("suite", 0)>> /\ out = <<>> BY DEF Init
<1>2. PICK l \in Text : l = Line("suite", 0) BY DEF Line, Text
<1>3. l[1] = "suite" BY <1>2 DEF Line
<1>4. <<>> \o <<l>> = <<l>> OBVIOUS
<1>5. Printed = <<l>> BY <1>1, <1>2, <1>4 DEF Printed
<1>6. Len(Printed) = 1 /\ Printed[1] = l BY <1>5
<1>7. Said(l) BY <1>3 DEF Said
<1>8. QED BY <1>6, <1>7 DEF OneOfEach

\* fflush() in run_test() (src/tests/runner.c:21) keeps what the runner has in its
\* buffer from being written again by the test that it forks, and by its children.
THEOREM PrintsOnce == Spec => []PrintedOnce
<1>1. Init => OneOfEach BY InitOneOfEach
<1>2. Inv1 /\ OneOfEach /\ [Next]_vars => OneOfEach' BY OneOfEachNext DEF Inv1
<1>3. Inv1 /\ OneOfEach => PrintedOnce
  <2> SUFFICES ASSUME Inv1, OneOfEach, NEW a \in 1..Len(out), NEW b \in 1..Len(out), a # b
               PROVE  out[a] # out[b]
    BY DEF PrintedOnce
  <2>1. out \in Seq(Text) /\ pending[Runner] \in Seq(Text) BY LineTypes DEF Inv1, Base
  <2>2. Printed[a] = out[a] /\ Printed[b] = out[b] /\ a \in 1..Len(Printed) /\ b \in 1..Len(Printed)
    BY <2>1 DEF Printed
  <2>3. QED BY <2>2 DEF OneOfEach
<1>4. QED BY <1>1, <1>2, <1>3, RunsInShape, PTL DEF Spec

-----------------------------------------------------------------------------
(* Children that are left behind, and whose release they take.             *)

\* A fork of test i failed; something else went wrong before a release, in test i
\* or in one before it.
Lost(i) == \E f \in faults : f.test = i /\ f.what = "fork" /\ f.early
Misled(i) == \E f \in faults : f.test \in 1..i /\ f.what # "fork" /\ f.early

\* The children of a synchronous test wait for the release of their own test, all
\* of them, unless something goes wrong before it.
Orphans(i) ==
  Sync(i) =>
    /\ state[<<i, 0>>] \in BeforeRelease => \A k \in ChildNo : state[<<i, k>>] # "released"
    /\ (\E k \in ChildNo : state[<<i, k>>] = "absent") => Lost(i)
    /\ state[<<i, 0>>] \in {"collecting"} \cup Ended
         /\ (\E k \in ChildNo : state[<<i, k>>] \in {"setup", "waiting"}) => Misled(i)
    /\ state[<<i, 0>>] = "releasing"
         /\ (\E k \in ChildNo : state[<<i, k>>] \in {"setup", "absent"}) => Misled(i)
    /\ (\E k \in ChildNo : state[<<i, k>>] = "absent")
         /\ (\E k \in ChildNo : state[<<i, k>>] = "released") => Misled(i)

LEMMA BlameStays ==
  ASSUME faults \subseteq faults', NEW i
  PROVE  (Lost(i) => Lost(i)') /\ (Misled(i) => Misled(i)')
  BY DEF Lost, Misled

LEMMA BlameEarly ==
  ASSUME NEW i \in 1..MaxTests, NEW what, Faulted(i, what), Sync(i), state[<<i, 0>>] \in BeforeRelease
  PROVE  (what = "fork" => Lost(i)') /\ (what # "fork" => Misled(i)')
<1>1. PICK f \in faults' : f.test = i /\ f.what = what /\ f.early BY DEF Faulted
<1>2. i \in 1..i OBVIOUS
<1>3. QED BY <1>1, <1>2 DEF Lost, Misled

LEMMA MisledLater ==
  ASSUME NEW i \in 1..MaxTests, NEW j \in 1..MaxTests, i <= j, Misled(i)
  PROVE  Misled(j)
<1>1. 1..i \subseteq 1..j OBVIOUS
<1>2. QED BY <1>1 DEF Misled

\* There is one test at a time.
LEMMA OneAtATime ==
  ASSUME Base, NEW i \in 1..MaxTests, NEW j \in 1..MaxTests, i # j,
         state[<<i, 0>>] \in BeforeRelease \cup {"collecting"}
  PROVE  /\ j < i => state[<<j, 0>>] \in Ended
         /\ i < j => state[<<j, 0>>] = "unborn" /\ \A k \in ChildNo : state[<<j, k>>] = "unborn"
         /\ state[<<j, 0>>] \notin BeforeRelease \cup {"collecting"}
<1>1. Shape(i) /\ Shape(j) /\ Len(verdict) \in Nat BY DEF Base, Typed, TypeOK
<1>2. ~(i > Len(verdict) + 1) /\ ~(i <= Len(verdict)) BY <1>1 DEF Shape, BeforeRelease, Ended
<1>3. i = Len(verdict) + 1 BY <1>1, <1>2
<1>4. CASE j < i
  <2>1. j <= Len(verdict) BY <1>1, <1>3, <1>4
  <2>2. state[<<j, 0>>] \in Ended BY <1>1, <2>1 DEF Shape
  <2>3. ~(i < j) BY <1>4
  <2>4. QED BY <2>2, <2>3 DEF Ended, BeforeRelease
<1>5. CASE i < j
  <2>1. j > Len(verdict) + 1 BY <1>1, <1>3, <1>5
  <2>2. state[<<j, 0>>] = "unborn" /\ \A k \in ChildNo : state[<<j, k>>] = "unborn"
    BY <1>1, <2>1 DEF Shape
  <2>3. ~(j < i) BY <1>5
  <2>4. QED BY <2>2, <2>3 DEF BeforeRelease
<1>6. QED BY <1>4, <1>5

\* Who waits when the count is right: all children of the test that polls, or
\* somebody else.
LEMMA WhoWaits ==
  ASSUME Base, NEW i \in 1..MaxTests, Children(i) \in 0..3, Cardinality(Waiters) = Children(i),
         NEW k \in ChildNo, k <= Children(i), state[<<i, k>>] # "waiting"
  PROVE  \E j \in 1..MaxTests, m \in ChildNo : j # i /\ state[<<j, m>>] = "waiting"
<1>1. SUFFICES ASSUME \A j \in 1..MaxTests, m \in ChildNo : state[<<j, m>>] = "waiting" => j = i
               PROVE  FALSE
  OBVIOUS
<1> DEFINE C == 1..Children(i)
           Own == {<<i, m>> : m \in C}
           f == [m \in C |-> <<i, m>>]
           x == <<i, k>>
<1>2. Waiters \subseteq Own \ {x}
  <2> SUFFICES ASSUME NEW q \in Waiters PROVE q \in Own \ {x}
    OBVIOUS
  <2>1. q \in Proc /\ state[q] = "waiting" BY DEF Waiters
  <2>2. /\ q[1] \in 1..MaxTests /\ q = <<q[1], q[2]>> /\ q[2] \in 0..3 BY <2>1, ProcFacts
  <2>3. Shape(q[1]) BY <2>2 DEF Base
  <2>4. q[2] # 0
    <3>1. state[<<q[1], 0>>] # "waiting" BY <2>3 DEF Shape, BeforeRelease, Ended
    <3>2. QED BY <2>1, <2>2, <3>1
  <2>5. q[2] \in ChildNo BY <2>2, <2>4 DEF ChildNo
  <2>6. q[1] = i BY <1>1, <2>1, <2>2, <2>5
  <2>7. q[2] <= Children(i) BY <2>1, <2>2, <2>3, <2>5, <2>6 DEF Shape
  <2>8. q[2] \in C BY <2>5, <2>7 DEF ChildNo
  <2>9. q \in Own BY <2>2, <2>6, <2>8
  <2>10. q # x BY <2>1
  <2>11. QED BY <2>9, <2>10
<1>3. IsFiniteSet(C) /\ Cardinality(C) = Children(i) BY FS_Interval
<1>4. f \in Surjection(C, Own) BY DEF Surjection
<1>5. x \in Own
  <2>1. k \in C BY DEF ChildNo
  <2>2. QED BY <2>1
<1> HIDE DEF C, Own, f, x
<1>6. IsFiniteSet(Own) /\ Cardinality(Own) <= Children(i) BY <1>3, <1>4, FS_Surjection
<1>7. IsFiniteSet(Own \ {x}) /\ Cardinality(Own \ {x}) = Cardinality(Own) - 1
  BY <1>5, <1>6, FS_RemoveElement
<1>8. Cardinality(Own) \in Nat /\ Cardinality(Own \ {x}) \in Nat
  BY <1>6, <1>7, FS_CardinalityType
<1>9. Waiters \in SUBSET (Own \ {x}) BY <1>2
<1>10. IsFiniteSet(Waiters) /\ Cardinality(Waiters) <= Cardinality(Own \ {x})
  BY <1>7, <1>9, FS_Subset
<1>11. QED BY <1>6, <1>7, <1>8, <1>10

LEMMA OrphansSame ==
  ASSUME NEW i \in 1..MaxTests, Orphans(i), suite' = suite, faults \subseteq faults',
         \A k \in 0..3 : state'[<<i, k>>] = state[<<i, k>>]
  PROVE  Orphans(i)'
<1>1. Sync(i)' <=> Sync(i) BY KindsKept
<1>2. (Lost(i) => Lost(i)') /\ (Misled(i) => Misled(i)') BY BlameStays
<1>3. state'[<<i, 0>>] = state[<<i, 0>>] /\ \A k \in ChildNo : state'[<<i, k>>] = state[<<i, k>>]
  BY DEF ChildNo
<1>4. QED BY <1>1, <1>2, <1>3 DEF Orphans

\* The children of a test come to an end, or, if they set up, wait.
LEMMA OrphansChildren ==
  ASSUME NEW i \in 1..MaxTests, Orphans(i), suite' = suite, faults \subseteq faults',
         state'[<<i, 0>>] = state[<<i, 0>>],
         \A k \in ChildNo : \/ state'[<<i, k>>] = state[<<i, k>>]
                            \/ state'[<<i, k>>] \in Ended
                            \/ state[<<i, k>>] = "setup" /\ state'[<<i, k>>] = "waiting"
  PROVE  Orphans(i)'
<1>1. Sync(i)' <=> Sync(i) BY KindsKept
<1>2. (Lost(i) => Lost(i)') /\ (Misled(i) => Misled(i)') BY BlameStays
<1>3. \A k \in ChildNo :
        /\ state'[<<i, k>>] = "absent" => state[<<i, k>>] = "absent"
        /\ state'[<<i, k>>] = "released" => state[<<i, k>>] = "released"
        /\ state'[<<i, k>>] = "setup" => state[<<i, k>>] = "setup"
        /\ state'[<<i, k>>] = "waiting" => state[<<i, k>>] \in {"setup", "waiting"}
  BY DEF Ended
<1>4. QED BY <1>1, <1>2, <1>3 DEF Orphans

LEMMA OrphansNext ==
  ASSUME Base, \A i \in 1..MaxTests : Orphans(i), [Next]_vars, NEW j \in 1..MaxTests
  PROVE  Orphans(j)' /\ faults \subseteq faults'
<1>1. Orphans(j) /\ Shape(j) BY DEF Base
<1>2. ASSUME NEW i \in 1..MaxTests, NEW k \in 0..3, NEW s, Turns(i, k, s), suite' = suite,
             faults \subseteq faults', j # i
      PROVE  Orphans(j)' /\ faults \subseteq faults'
  BY <1>1, <1>2, OrphansSame DEF Turns
<1>3. 0 \in 0..3 /\ ChildNo \subseteq 0..3 /\ 0 \notin ChildNo /\ ChildNo \subseteq Nat
  BY DEF ChildNo
<1>4. ASSUME NEW i \in 1..MaxTests, NEW k \in ChildNo, NEW s, Turns(i, k, s), suite' = suite,
             faults \subseteq faults',
             s \in Ended \/ (s = "waiting" /\ state[<<i, k>>] = "setup") \/ s = state[<<i, k>>]
      PROVE  Orphans(j)' /\ faults \subseteq faults'
  <2>1. CASE j # i BY <1>2, <1>3, <1>4, <2>1
  <2>2. CASE j = i
    <3>1. state'[<<i, 0>>] = state[<<i, 0>>] /\ state'[<<i, k>>] = s
          /\ \A m \in ChildNo : m # k => state'[<<i, m>>] = state[<<i, m>>]
      BY <1>3, <1>4 DEF Turns
    <3>2. QED BY <1>1, <1>4, <2>2, <3>1, OrphansChildren
  <2>3. QED BY <2>1, <2>2
<1>5. CASE RunTest
  <2> DEFINE i == Len(verdict) + 1
  <2>1. RunsTest(i) BY <1>5, RunTestDoes
  <2> HIDE DEF i
  <2>2. i \in 1..MaxTests /\ suite' = suite /\ faults' = faults /\ Turns(i, 0, "forking")
        /\ state[<<i, 0>>] = "unborn"
    BY <2>1 DEF RunsTest
  <2>3. CASE j # i BY <1>2, <1>3, <2>2, <2>3
  <2>4. CASE j = i
    <3>1. state'[<<j, 0>>] = "forking" /\ \A m \in ChildNo : state'[<<j, m>>] = "unborn"
      BY <1>1, <1>3, <2>2, <2>4 DEF Turns, Shape
    <3>2. QED BY <2>2, <3>1 DEF Orphans, Ended
  <2>5. QED BY <2>3, <2>4
<1>6. CASE UNCHANGED <<suite, state>> /\ faults \subseteq faults' BY <1>1, <1>6, OrphansSame
<1>7. ASSUME NEW p \in Proc, ForkTask(p) PROVE Orphans(j)' /\ faults \subseteq faults'
  <2> DEFINE i == p[1]
             k == at[p] + 1
  <2>1. ForksTask(i, k) BY <1>7, ForkTaskDoes
  <2> HIDE DEF i, k
  <2>2. /\ i \in 1..MaxTests /\ k \in ChildNo /\ suite' = suite /\ faults \subseteq faults'
        /\ state[<<i, 0>>] = "forking" /\ state[<<i, k>>] = "unborn"
    BY <2>1 DEF ForksTask, Kept
  <2>3. CASE j # i BY <1>2, <1>3, <2>1, <2>2, <2>3 DEF ForksTask
  <2>4. CASE j = i
    <3>1. Sync(j)' <=> Sync(j) BY <2>2, KindsKept
    <3>2. (Lost(j) => Lost(j)') /\ (Misled(j) => Misled(j)') BY <2>2, BlameStays
    <3>3. CASE ~Sync(j) BY <2>2, <3>1, <3>3 DEF Orphans
    <3>4. ASSUME Sync(j), NEW s \in {"setup", "absent"}, Turns(i, k, s), s = "absent" => Lost(j)'
          PROVE  Orphans(j)'
      <4>1. state'[<<j, 0>>] = "forking" /\ state'[<<j, k>>] = s
            /\ \A m \in ChildNo : m # k => state'[<<j, m>>] = state[<<j, m>>]
        BY <1>3, <2>2, <2>4, <3>4 DEF Turns
      <4>2. \A m \in ChildNo : state[<<j, m>>] # "released"
        BY <1>1, <2>2, <2>4, <3>4 DEF Orphans, BeforeRelease
      <4>3. \A m \in ChildNo : state'[<<j, m>>] # "released" BY <4>1, <4>2
      <4>4. (\E m \in ChildNo : state'[<<j, m>>] = "absent") => Lost(j)'
        BY <1>1, <3>2, <3>4, <4>1 DEF Orphans
      <4>5. QED BY <4>1, <4>3, <4>4 DEF Orphans, Ended
    <3>5. CASE Sync(j)
      <4>1. CASE Turns(i, k, "setup") BY <2>2, <3>4, <3>5, <4>1
      <4>2. CASE Turns(i, k, "absent") /\ Faulted(i, "fork")
        <5>1. Lost(j)' BY <2>2, <2>4, <3>5, <4>2, BlameEarly DEF BeforeRelease
        <5>2. QED BY <2>2, <3>4, <3>5, <4>2, <5>1
      <4>3. QED BY <2>1, <2>4, <3>5, <4>1, <4>2 DEF ForksTask
    <3>6. QED BY <2>2, <3>3, <3>5
  <2>5. QED BY <2>3, <2>4
<1>8. ASSUME NEW p \in Proc, Forked(p) PROVE Orphans(j)' /\ faults \subseteq faults'
  <2> DEFINE i == p[1]
             s == IF Sync(i) THEN "polling" ELSE "collecting"
  <2>1. FinishesForking(i) BY <1>8, ForkedDoes
  <2>2. /\ i \in 1..MaxTests /\ state[<<i, 0>>] = "forking" /\ Turns(i, 0, s) /\ suite' = suite
        /\ faults' = faults /\ (Sync(i) => s = "polling")
    BY <2>1 DEF FinishesForking, Kept
  <2> HIDE DEF i, s
  <2>3. CASE j # i BY <1>2, <1>3, <2>2, <2>3
  <2>4. CASE j = i
    <3>1. state'[<<j, 0>>] = s /\ \A m \in ChildNo : state'[<<j, m>>] = state[<<j, m>>]
      BY <1>3, <2>2, <2>4 DEF Turns
    <3>2. Sync(j)' <=> Sync(j) BY <2>2, KindsKept
    <3>3. (Lost(j) => Lost(j)') /\ (Misled(j) => Misled(j)') BY <2>2, BlameStays
    <3>4. QED BY <1>1, <2>2, <2>4, <3>1, <3>2, <3>3 DEF Orphans, BeforeRelease, Ended
  <2>5. QED BY <2>3, <2>4
<1>9. ASSUME NEW p \in Proc, Poll(p) PROVE Orphans(j)' /\ faults \subseteq faults'
  <2> DEFINE i == p[1]
  <2>1. Polls(i) BY <1>9, PollDoes
  <2>2. /\ i \in 1..MaxTests /\ state[<<i, 0>>] = "polling" /\ Turns(i, 0, "releasing")
        /\ suite' = suite /\ faults' = faults
        /\ Children(i) \in 0..3 /\ Cardinality(Waiters) = Children(i)
    BY <2>1 DEF Polls, Kept
  <2> HIDE DEF i
  <2>3. CASE j # i BY <1>2, <1>3, <2>2, <2>3
  <2>4. CASE j = i
    <3>1. state'[<<j, 0>>] = "releasing" /\ \A m \in ChildNo : state'[<<j, m>>] = state[<<j, m>>]
      BY <1>3, <2>2, <2>4 DEF Turns
    <3>2. Sync(j)' <=> Sync(j) BY <2>2, KindsKept
    <3>3. (Lost(j) => Lost(j)') /\ (Misled(j) => Misled(j)') BY <2>2, BlameStays
    <3>4. ASSUME NEW k \in ChildNo, state[<<j, k>>] \in {"setup", "absent"}
          PROVE  Misled(j)
      <4>1. k <= Children(i) BY <1>1, <2>4, <3>4 DEF Shape
      <4>2. PICK l \in 1..MaxTests, m \in ChildNo : l # i /\ state[<<l, m>>] = "waiting"
        BY <2>2, <2>4, <3>4, <4>1, WhoWaits
      <4>3. l < i
        <5>3. i # l /\ i \in Nat /\ l \in Nat /\ (i < l \/ l < i) BY <2>2, <4>2
        <5>1. i < l => state[<<l, m>>] = "unborn"
          BY <2>2, <4>2, <5>3, OneAtATime DEF BeforeRelease
        <5>2. QED BY <4>2, <5>1, <5>3
      <4>4. state[<<l, 0>>] \in Ended BY <2>2, <4>2, <4>3, OneAtATime DEF BeforeRelease
      <4>5. Sync(l) /\ Orphans(l) BY <4>2 DEF Base, Shape
      <4>6. Misled(l) BY <4>2, <4>4, <4>5 DEF Orphans
      <4>7. QED BY <2>2, <2>4, <4>3, <4>6, MisledLater
    <3>5. QED BY <1>1, <2>2, <2>4, <3>1, <3>2, <3>3, <3>4 DEF Orphans, BeforeRelease, Ended
  <2>5. QED BY <2>3, <2>4
<1>10. ASSUME NEW p \in Proc, ReleaseTs(p) PROVE Orphans(j)' /\ faults \subseteq faults'
  <2> DEFINE i == p[1]
  <2>1. Releases(i) BY <1>10, ReleaseTsDoes
  <2> HIDE DEF i
  <2>2. /\ i \in 1..MaxTests /\ state[<<i, 0>>] = "releasing" /\ suite' = suite
        /\ faults \subseteq faults'
    BY <2>1 DEF Releases, Kept
  <2>3. Sync(j)' <=> Sync(j) BY <2>2, KindsKept
  <2>4. (Lost(j) => Lost(j)') /\ (Misled(j) => Misled(j)') BY <2>2, BlameStays
  <2>5. CASE Turns(i, 0, "collecting") /\ Faulted(i, "release")
    <3>1. CASE j # i BY <1>2, <1>3, <2>2, <2>5, <3>1
    <3>2. CASE j = i
      <4>1. state'[<<j, 0>>] = "collecting" /\ \A m \in ChildNo : state'[<<j, m>>] = state[<<j, m>>]
        BY <1>3, <2>2, <2>5, <3>2 DEF Turns
      <4>2. Sync(j) => Misled(j)' BY <2>2, <2>5, <3>2, BlameEarly DEF BeforeRelease
      <4>3. QED BY <1>1, <2>2, <2>3, <2>4, <4>1, <4>2 DEF Orphans, BeforeRelease
    <3>3. QED BY <3>1, <3>2
  <2>6. CASE /\ state'[<<i, 0>>] = "collecting" /\ faults' = faults
             /\ \A l \in 1..MaxTests, m \in 0..3 : l # i \/ m # 0 =>
                  state'[<<l, m>>] = IF state[<<l, m>>] = "waiting" THEN "released" ELSE state[<<l, m>>]
    <3>1. \A m \in ChildNo : state'[<<j, m>>] = IF state[<<j, m>>] = "waiting" THEN "released"
                                                ELSE state[<<j, m>>]
      BY <1>3, <2>6
    <3>2. CASE j = i
      <4>1. (\E k \in ChildNo : state[<<j, k>>] \in {"setup", "absent"}) /\ Sync(j) => Misled(j)
        BY <1>1, <2>2, <3>2 DEF Orphans
      <4>2. \A m \in ChildNo : state'[<<j, m>>] # "waiting"
            /\ (state'[<<j, m>>] = "setup" => state[<<j, m>>] = "setup")
            /\ (state'[<<j, m>>] = "absent" => state[<<j, m>>] = "absent")
        BY <3>1
      <4>3. QED BY <1>1, <2>2, <2>3, <2>4, <2>6, <3>2, <4>1, <4>2 DEF Orphans, BeforeRelease
    <3>3. CASE j < i
      <4>1. state[<<j, 0>>] \in Ended BY <2>2, <3>3, OneAtATime DEF BeforeRelease
      <4>5. j # i BY <2>2, <3>3
      <4>2. state'[<<j, 0>>] = state[<<j, 0>>] BY <1>3, <2>2, <2>6, <4>1, <4>5 DEF Ended
      <4>3. \A m \in ChildNo :
              /\ state'[<<j, m>>] = "released" => state[<<j, m>>] \in {"waiting", "released"}
              /\ state'[<<j, m>>] \in {"setup", "waiting"} => state[<<j, m>>] \in {"setup", "waiting"}
              /\ state'[<<j, m>>] = "absent" => state[<<j, m>>] = "absent"
        BY <3>1
      <4>4. QED BY <1>1, <2>2, <2>3, <2>4, <4>1, <4>2, <4>3 DEF Orphans, BeforeRelease, Ended
    <3>4. CASE i < j
      <4>1. state[<<j, 0>>] = "unborn" /\ \A k \in ChildNo : state[<<j, k>>] = "unborn"
        BY <2>2, <3>4, OneAtATime DEF BeforeRelease
      <4>2. state'[<<j, 0>>] = "unborn" /\ \A k \in ChildNo : state'[<<j, k>>] = "unborn"
        <5>1. j # i BY <2>2, <3>4
        <5>2. QED BY <1>3, <2>2, <2>6, <4>1, <5>1
      <4>3. QED BY <2>2, <4>2 DEF Orphans, BeforeRelease, Ended
    <3>5. QED BY <2>2, <3>2, <3>3, <3>4
  <2>7. QED BY <2>1, <2>5, <2>6 DEF Releases
<1>11. ASSUME NEW i \in 1..MaxTests, NEW s \in Ended, Turns(i, 0, s), suite' = suite,
              faults \subseteq faults',
              state[<<i, 0>>] = "collecting" \/ (Sync(i) => Misled(i)')
       PROVE  Orphans(j)' /\ faults \subseteq faults'
  <2>1. CASE j # i BY <1>2, <1>3, <1>11, <2>1
  <2>2. CASE j = i
    <3>1. state'[<<j, 0>>] = s /\ \A m \in ChildNo : state'[<<j, m>>] = state[<<j, m>>]
      BY <1>3, <1>11, <2>2 DEF Turns
    <3>2. Sync(j)' <=> Sync(j) BY <1>11, KindsKept
    <3>3. (Lost(j) => Lost(j)') /\ (Misled(j) => Misled(j)') BY <1>11, BlameStays
    <3>4. s \notin BeforeRelease BY DEF Ended, BeforeRelease
    <3>5. (\E k \in ChildNo : state[<<j, k>>] \in {"setup", "waiting"}) /\ Sync(j) => Misled(j)'
      BY <1>1, <1>11, <2>2, <3>3 DEF Orphans
    <3>6. QED BY <1>1, <1>11, <3>1, <3>2, <3>3, <3>4, <3>5 DEF Orphans, BeforeRelease
  <2>3. QED BY <2>1, <2>2
<1>12. ASSUME NEW p \in Proc, Waitpid(p) PROVE Orphans(j)' /\ faults \subseteq faults'
  <2> DEFINE i == p[1]
  <2>1. Waits(i) BY <1>12, WaitpidDoes
  <2>2. i \in 1..MaxTests /\ state[<<i, 0>>] = "collecting" /\ suite' = suite /\ faults' = faults
    BY <2>1 DEF Waits, Kept
  <2>3. state' = state \/ Turns(i, 0, "failed") BY <2>1 DEF Waits
  <2> HIDE DEF i
  <2>4. CASE state' = state BY <1>6, <2>2, <2>4
  <2>5. CASE Turns(i, 0, "failed") BY <1>11, <2>2, <2>5 DEF Ended
  <2>6. QED BY <2>3, <2>4, <2>5
<1>13. ASSUME NEW p \in Proc, TestExits(p) PROVE Orphans(j)' /\ faults \subseteq faults'
  <2> DEFINE i == p[1]
  <2>1. ExitsAsTest(i) BY <1>13, TestExitsDoes
  <2>2. /\ i \in 1..MaxTests /\ state[<<i, 0>>] = "collecting" /\ Turns(i, 0, "exited")
        /\ suite' = suite /\ faults' = faults
    BY <2>1 DEF ExitsAsTest, Kept
  <2> HIDE DEF i
  <2>3. QED BY <1>11, <2>2 DEF Ended
<1>14. ASSUME NEW p \in Proc, Arrive(p) PROVE Orphans(j)' /\ faults \subseteq faults'
  <2> DEFINE s == IF Sync(p[1]) THEN "waiting" ELSE "exited"
  <2>1. Arrives(p[1], p[2]) BY <1>14, ArriveDoes
  <2>2. /\ p[1] \in 1..MaxTests /\ p[2] \in ChildNo /\ state[<<p[1], p[2]>>] = "setup"
        /\ Turns(p[1], p[2], s) /\ suite' = suite /\ faults' = faults
        /\ s \in {"waiting", "exited"}
    BY <2>1 DEF Arrives, Kept
  <2> HIDE DEF s
  <2>3. s \in Ended \/ s = "waiting" BY <2>2 DEF Ended
  <2>4. QED BY <1>4, <2>2, <2>3
<1>15. ASSUME NEW p \in Proc, Signal(p) PROVE Orphans(j)' /\ faults \subseteq faults'
  <2> DEFINE i == p[1]
             h == p[2]
             t == ToSignal(p)
  <2>1. Signals(i, h, t) BY <1>15, SignalDoes
  <2> HIDE DEF i, h, t
  <2>2. /\ i \in 1..MaxTests /\ h \in ChildNo /\ t \in ChildNo
        /\ state[<<i, h>>] = "released" /\ suite' = suite /\ faults' = faults
    BY <2>1 DEF Signals, Kept
  <2>3. CASE /\ state[<<i, t>>] = "absent"
             /\ state'[<<i, h>>] = "released"
             /\ \A l \in 1..MaxTests, m \in 0..3 : l # i \/ m # h =>
                  state'[<<l, m>>] = IF state[<<l, m>>] \in Live THEN "killed" ELSE state[<<l, m>>]
    <3>1. state'[<<j, 0>>] = state[<<j, 0>>] \/ state'[<<j, 0>>] = "killed"
      BY <1>3, <2>2, <2>3
    <3>2. state'[<<j, 0>>] \notin BeforeRelease \cup {"collecting"}
      <4>1. BeforeRelease \cup {"collecting"} \subseteq Live BY DEF BeforeRelease, Live
      <4>2. "killed" \notin BeforeRelease \cup {"collecting"} BY DEF BeforeRelease
      <4>3. QED BY <1>3, <2>2, <2>3, <4>1, <4>2
    <3>3. \A k \in ChildNo :
            /\ state'[<<j, k>>] \notin {"setup", "waiting"}
            /\ state'[<<j, k>>] = "absent" => state[<<j, k>>] = "absent"
            /\ state'[<<j, k>>] = "released" => state[<<j, k>>] = "released"
      <4> SUFFICES ASSUME NEW k \in ChildNo
                   PROVE /\ state'[<<j, k>>] \notin {"setup", "waiting"}
                         /\ state'[<<j, k>>] = "absent" => state[<<j, k>>] = "absent"
                         /\ state'[<<j, k>>] = "released" => state[<<j, k>>] = "released"
        OBVIOUS
      <4>1. CASE j = i /\ k = h BY <2>2, <2>3, <4>1
      <4>2. CASE ~(j = i /\ k = h) BY <1>3, <2>3, <4>2 DEF Live
      <4>3. QED BY <4>1, <4>2
    <3>4. Sync(j)' <=> Sync(j) BY <2>2, KindsKept
    <3>5. (Lost(j) => Lost(j)') /\ (Misled(j) => Misled(j)') BY <2>2, BlameStays
    <3>6. QED BY <1>1, <2>2, <3>2, <3>3, <3>4, <3>5 DEF Orphans, BeforeRelease
  <2>4. CASE Turns(i, t, IF state[<<i, t>>] \in Live THEN "killed" ELSE state[<<i, t>>])
    <3> DEFINE s == IF state[<<i, t>>] \in Live THEN "killed" ELSE state[<<i, t>>]
    <3>1. s \in Ended \/ s = state[<<i, t>>] BY DEF Ended
    <3>2. Turns(i, t, s) BY <2>4
    <3> HIDE DEF s
    <3>3. QED BY <1>4, <2>2, <3>1, <3>2
  <2>5. CASE Turns(i, h, "failed") BY <1>4, <2>2, <2>5 DEF Ended
  <2>6. QED BY <2>1, <2>3, <2>4, <2>5 DEF Signals
<1>16. ASSUME NEW p \in Proc, ChildExits(p) PROVE Orphans(j)' /\ faults \subseteq faults'
  <2>1. ExitsAsChild(p[1], p[2]) BY <1>16, ChildExitsDoes
  <2>2. /\ p[1] \in 1..MaxTests /\ p[2] \in ChildNo
        /\ Turns(p[1], p[2], "exited") /\ suite' = suite /\ faults' = faults
    BY <2>1 DEF ExitsAsChild, Kept
  <2>3. QED BY <1>4, <2>2 DEF Ended
<1>17. ASSUME NEW p \in Proc, Fault(p) PROVE Orphans(j)' /\ faults \subseteq faults'
  <2> DEFINE i == p[1]
             k == p[2]
  <2>1. Faults(i, k) BY <1>17, FaultDoes
  <2> HIDE DEF i, k
  <2>2. /\ i \in 1..MaxTests /\ k \in 0..3 /\ state[<<i, k>>] \in Live
        /\ suite' = suite /\ faults \subseteq faults'
    BY <2>1 DEF Faults, Kept
  <2>3. PICK how \in {"failed", "crashed"} : Turns(i, k, how) /\ Faulted(i, how)
    BY <2>1 DEF Faults
  <2>4. how \in Ended /\ how # "fork" BY DEF Ended
  <2>5. CASE k \in ChildNo BY <1>4, <2>2, <2>3, <2>4, <2>5
  <2>6. CASE k = 0
    <3>1. state[<<i, 0>>] \in BeforeRelease \cup {"collecting"}
      BY <2>2, <2>6 DEF Base, Shape, Live, Ended
    <3>2. state[<<i, 0>>] = "collecting" \/ (Sync(i) => Misled(i)')
      BY <2>2, <2>3, <2>4, <3>1, BlameEarly
    <3>3. QED BY <1>11, <2>2, <2>3, <2>4, <2>6, <3>2
  <2>7. QED BY <2>2, <2>5, <2>6 DEF ChildNo
<1>18. QED
  <2>1. RunnerCannotFork \/ Report \/ Result \/ UNCHANGED vars =>
          UNCHANGED <<suite, state>> /\ faults \subseteq faults'
    BY DEF RunnerCannotFork, Report, Result, vars, Faulty
  <2>2. QED
    BY <2>1, <1>5, <1>6, <1>7, <1>8, <1>9, <1>10, <1>12, <1>13, <1>14, <1>15, <1>16, <1>17
    DEF Next, RunnerStep, ProcStep

LEMMA InitOrphans ==
  ASSUME Init, NEW i \in 1..MaxTests
  PROVE  Orphans(i)
<1>1. \A k \in 0..3 : state[<<i, k>>] = "unborn" BY ProcFacts DEF Init
<1>2. state[<<i, 0>>] = "unborn" /\ \A k \in ChildNo : state[<<i, k>>] = "unborn"
  BY <1>1 DEF ChildNo
<1>3. QED BY <1>2 DEF Orphans, Ended, BeforeRelease

\* Whoever calls kill(-1) has a brother that was never born, and was released
\* for all that.
LEMMA BroadcastBlames ==
  ASSUME Base, \A i \in 1..MaxTests : Orphans(i), [Next]_vars, broadcast' # broadcast
  PROVE  \E i \in 1..MaxTests, h, t \in ChildNo :
           /\ state[<<i, h>>] = "released" /\ state[<<i, t>>] = "absent" /\ Sync(i)
           /\ Lost(i) /\ Misled(i)
<1>1. PICK p \in Proc : Signal(p)
  BY DEF Next, RunnerStep, ProcStep, vars, RunTest, RunnerCannotFork, Report, Result, ForkTask,
         Forked, Poll, ReleaseTs, Waitpid, TestExits, Arrive, ChildExits, Fault
<1> DEFINE i == p[1]
           h == p[2]
           t == ToSignal(p)
<1>2. Signals(i, h, t) BY <1>1, SignalDoes
<1> HIDE DEF i, h, t
<1>3. i \in 1..MaxTests /\ h \in ChildNo /\ t \in ChildNo /\ Sync(i) /\ state[<<i, h>>] = "released"
      /\ state[<<i, t>>] = "absent"
  BY <1>2 DEF Signals
<1>4. Lost(i) /\ Misled(i) BY <1>3 DEF Orphans
<1>5. QED BY <1>3, <1>4

\* kill(-1, SIGUSR2) takes two faults before a release: the fork that failed, so
\* that FORK_TASK leaves -1 in child_middle or child_lo (src/tests/pcp.c:126), and
\* one that lets the release come while the child is missing.
THEOREM SignalsItsOwn == Spec => []SignalsOnlyItsOwn
<1> DEFINE I == Inv1 /\ (\A i \in 1..MaxTests : Orphans(i)) /\ SignalsOnlyItsOwn
<1>1. Init => I
  <2>1. SUFFICES ASSUME Init PROVE I OBVIOUS
  <2>2. Inv1 BY <2>1, InitTyped, InitReaped DEF Inv1, Base
  <2>3. \A i \in 1..MaxTests : Orphans(i) BY <2>1, InitOrphans
  <2>4. SignalsOnlyItsOwn BY <2>1 DEF Init, SignalsOnlyItsOwn
  <2>5. QED BY <2>2, <2>3, <2>4
<1>2. I /\ [Next]_vars => I'
  <2>1. SUFFICES ASSUME I, [Next]_vars PROVE I' OBVIOUS
  <2>2. Inv1' BY <2>1, Inv1Step
  <2>3. Base BY <2>1 DEF Inv1
  <2>4. \A i \in 1..MaxTests : Orphans(i)' BY <2>1, <2>3, OrphansNext
  <2>5. ASSUME broadcast' = broadcast PROVE SignalsOnlyItsOwn'
    <3>1. CASE MaxTests = 0
      <4>1. Proc = {} BY <3>1 DEF Proc
      <4>2. faults \subseteq faults'
        BY <2>1, <4>1 DEF Next, RunnerStep, vars, RunTest, RunnerCannotFork, Report, Result, Faulty
      <4>3. QED BY <2>1, <2>5, <4>2 DEF SignalsOnlyItsOwn
    <3>2. CASE MaxTests # 0
      <4>1. 1 \in 1..MaxTests BY <3>2, SuiteAssumption
      <4>2. faults \subseteq faults' BY <2>1, <2>3, <4>1, OrphansNext
      <4>3. QED BY <2>1, <2>5, <4>2 DEF SignalsOnlyItsOwn
    <3>3. QED BY <3>1, <3>2
  <2>6. ASSUME broadcast' # broadcast PROVE SignalsOnlyItsOwn'
    <3>1. PICK i \in 1..MaxTests : Lost(i) /\ Misled(i) BY <2>1, <2>3, <2>6, BroadcastBlames
    <3>2. faults \subseteq faults' BY <2>1, <2>3, OrphansNext, <3>1
    <3>3. PICK f \in faults : f.what = "fork" /\ f.early BY <3>1 DEF Lost
    <3>4. PICK g \in faults : g.what # "fork" /\ g.early BY <3>1 DEF Misled
    <3>5. f # g BY <3>3, <3>4
    <3>6. QED BY <3>2, <3>3, <3>4, <3>5 DEF SignalsOnlyItsOwn
  <2>7. SignalsOnlyItsOwn' BY <2>5, <2>6
  <2>8. QED BY <2>2, <2>4, <2>7
<1>3. I => SignalsOnlyItsOwn OBVIOUS
<1>4. QED BY <1>1, <1>2, <1>3, PTL DEF Spec

-----------------------------------------------------------------------------
(* Tests that nothing happens to.                                          *)

Clean(i) == \A f \in faults : f.test # i /\ ~(f.test \in 1..(i - 1) /\ f.early)

\* The child with the highest priority signals its brothers one by one, and exits
\* when it has signalled them all.
Signalled(i) ==
  /\ state[<<i, Children(i)>>] \in {"released", "exited"}
  /\ state[<<i, Children(i)>>] = "released" =>
       at[<<i, Children(i)>>] \in 0..(Children(i) - 1)
  /\ \A k \in ChildNo : k < Children(i) =>
       state[<<i, k>>] = IF \/ state[<<i, Children(i)>>] = "exited"
                            \/ k > Children(i) - 1 - at[<<i, Children(i)>>]
                         THEN "killed" ELSE "released"

\* What the test has collected of its children: first the one with the highest
\* priority, then the others in the order of their birth.
InTheirOrder(i) ==
  /\ at[<<i, 0>>] > 0 => state[<<i, Children(i)>>] = "exited"
  /\ \A k \in ChildNo : k <= Children(i) =>
       (k \in Collected(i) <=> at[<<i, 0>>] > 0 /\ (k = Children(i) \/ k < at[<<i, 0>>]))

\* The course of a test that nothing happens to.
AsPlanned(i) ==
  /\ state[<<i, 0>>] \notin {"failed", "crashed", "killed"}
  /\ \A k \in ChildNo :
       state[<<i, k>>] \in {"unborn", "setup", "waiting"} => at[<<i, k>>] = 0
  /\ Sync(i) =>
       /\ state[<<i, 0>>] \in {"forking", "polling"} =>
            \A k \in ChildNo : state[<<i, k>>] \in {"unborn", "setup", "waiting"}
       /\ state[<<i, 0>>] = "releasing" =>
            \A k \in ChildNo : k <= Children(i) => state[<<i, k>>] = "waiting"
       /\ state[<<i, 0>>] \in {"collecting", "exited"} => Signalled(i) /\ InTheirOrder(i)
  /\ ~Sync(i) => \A k \in ChildNo : state[<<i, k>>] \in {"unborn", "setup", "exited"}

LEMMA CleanBefore ==
  ASSUME faults \subseteq faults', NEW i, Clean(i)'
  PROVE  Clean(i)
  BY DEF Clean

LEMMA NotClean ==
  ASSUME NEW i, NEW what, Faulted(i, what)
  PROVE  ~Clean(i)'
  BY DEF Faulted, Clean

\* A test that is as planned is not among those that leave anything behind, nor
\* comes after one.
LEMMA CleanNotBlamed ==
  ASSUME NEW i \in 1..MaxTests, Clean(i), NEW j \in 1..MaxTests, j <= i
  PROVE  ~Misled(j) /\ ~Lost(j)
<1>1. \A f \in faults : f.test \in 1..j /\ f.early => f.test = i \/ f.test \in 1..(i - 1)
  OBVIOUS
<1>2. j \in 1..j OBVIOUS
<1>3. QED BY <1>1, <1>2 DEF Clean, Misled, Lost

LEMMA PlannedType ==
  ASSUME Base, NEW i \in 1..MaxTests, state[<<i, 0>>] # "unborn"
  PROVE  /\ Children(i) \in 0..3 /\ (Sync(i) => Children(i) \in ChildNo /\ ~Lenient(i))
         /\ ~Sync(i) => Children(i) <= 1
<1>1. Shape(i) /\ Len(suite) \in Nat BY DEF Base, Typed, TypeOK
<1>2. i <= Len(suite) BY <1>1 DEF Shape
<1>3. QED BY <1>2, ChildrenType DEF ChildNo

LEMMA AtType ==
  ASSUME Base, NEW i \in 1..MaxTests, NEW k \in 0..3
  PROVE  at[<<i, k>>] \in 0..3
<1>1. <<i, k>> \in Proc BY ProcFacts
<1>2. QED BY <1>1 DEF Base, Typed, TypeOK, MaxChildren

LEMMA PlannedSame ==
  ASSUME Base, NEW i \in 1..MaxTests, AsPlanned(i), suite' = suite,
         \A k \in 0..3 : state'[<<i, k>>] = state[<<i, k>>] /\ at'[<<i, k>>] = at[<<i, k>>],
         Collected(i)' = Collected(i)
  PROVE  AsPlanned(i)'
<1>1. Children(i)' = Children(i) /\ (Sync(i)' <=> Sync(i)) BY KindsKept
<1>2. state'[<<i, 0>>] = state[<<i, 0>>] /\ at'[<<i, 0>>] = at[<<i, 0>>]
      /\ \A k \in ChildNo : state'[<<i, k>>] = state[<<i, k>>] /\ at'[<<i, k>>] = at[<<i, k>>]
  BY DEF ChildNo
<1>3. state[<<i, 0>>] # "unborn" /\ Sync(i) => Children(i) \in ChildNo BY PlannedType
<1>4. state[<<i, 0>>] \in {"collecting", "exited"} /\ Sync(i) => Signalled(i)' /\ InTheirOrder(i)'
  BY <1>1, <1>2, <1>3 DEF AsPlanned, Signalled, InTheirOrder
<1>5. QED BY <1>1, <1>2, <1>4 DEF AsPlanned

LEMMA PlannedOther ==
  ASSUME Base, NEW i \in 1..MaxTests, AsPlanned(i), suite' = suite, Same(i)
  PROVE  AsPlanned(i)'
<1>1. \A k \in ChildNo : k \in 0..3 BY DEF ChildNo
<1>2. Collected(i)' = Collected(i) BY <1>1 DEF Same, Collected
<1>3. QED BY <1>2, PlannedSame DEF Same

\* A test that has ended as planned has no process left.
LEMMA NobodyLeft ==
  ASSUME Base, NEW i \in 1..MaxTests, AsPlanned(i), Reaped(i), state[<<i, 0>>] = "exited"
  PROVE  \A k \in ChildNo : state[<<i, k>>] \notin Live
<1>1. Shape(i) BY DEF Base
<1>2. Children(i) \in 0..3 BY PlannedType
<1>3. Cardinality(Collected(i)) = Children(i) BY DEF Reaped
<1>4. Collected(i) = 1..Children(i) BY <1>2, <1>3, AllOfThem
<1>5. SUFFICES ASSUME NEW k \in ChildNo, state[<<i, k>>] \in Live PROVE FALSE
  OBVIOUS
<1>6. state[<<i, k>>] # "unborn" /\ state[<<i, k>>] \notin Ended BY <1>5 DEF Live, Ended
<1>7. k <= Children(i) BY <1>1, <1>6 DEF Shape
<1>8. k \in Collected(i) BY <1>2, <1>4, <1>7 DEF ChildNo
<1>9. QED BY <1>6, <1>8, CollectedEnded

\* The children of a test that runs as planned, when none of them has anything
\* before it but its release: what they do.
LEMMA PlannedChild ==
  ASSUME Base, NEW i \in 1..MaxTests, NEW k \in ChildNo, AsPlanned(i), suite' = suite,
         Turns(i, k, IF Sync(i) THEN "waiting" ELSE "exited"), state[<<i, k>>] = "setup",
         UNCHANGED <<at, collected>>
  PROVE  AsPlanned(i)'
<1>1. Children(i)' = Children(i) /\ (Sync(i)' <=> Sync(i)) BY KindsKept
<1> DEFINE s == IF Sync(i) THEN "waiting" ELSE "exited"
<1>2. state'[<<i, 0>>] = state[<<i, 0>>] /\ state'[<<i, k>>] = s
      /\ \A m \in ChildNo : m # k => state'[<<i, m>>] = state[<<i, m>>]
  BY DEF Turns, ChildNo
<1>3. (Sync(i) => s = "waiting") /\ (~Sync(i) => s = "exited") OBVIOUS
<1> HIDE DEF s
<1>4. Shape(i) BY DEF Base
<1>5. state[<<i, 0>>] # "unborn" BY <1>4 DEF Shape
<1>6. Children(i) \in 0..3 /\ (Sync(i) => Children(i) \in ChildNo) BY <1>5, PlannedType
<1>7. k <= Children(i) BY <1>4 DEF Shape
<1>8. Sync(i) => state[<<i, 0>>] \notin {"releasing", "collecting", "exited"}
  <2>1. SUFFICES ASSUME Sync(i), state[<<i, 0>>] \in {"releasing", "collecting", "exited"}
                 PROVE  FALSE
    OBVIOUS
  <2>2. CASE state[<<i, 0>>] = "releasing" BY <1>7, <2>1, <2>2 DEF AsPlanned
  <2>3. CASE state[<<i, 0>>] \in {"collecting", "exited"}
    <3>1. Signalled(i) BY <2>1, <2>3 DEF AsPlanned
    <3>2. CASE k = Children(i) BY <3>1, <3>2 DEF Signalled
    <3>3. CASE k # Children(i)
      <4>1. k < Children(i) BY <1>6, <1>7, <3>3 DEF ChildNo
      <4>2. QED BY <3>1, <4>1 DEF Signalled
    <3>4. QED BY <3>2, <3>3
  <2>4. QED BY <2>1, <2>2, <2>3
<1>9. \A m \in ChildNo :
        state'[<<i, m>>] \in {"unborn", "setup", "waiting"} => at[<<i, m>>] = 0
  BY <1>2 DEF AsPlanned
<1>10. QED BY <1>1, <1>2, <1>3, <1>8, <1>9 DEF AsPlanned

\* The end of a child that was released.
LEMMA PlannedExit ==
  ASSUME Base, NEW i \in 1..MaxTests, NEW k \in ChildNo, AsPlanned(i), suite' = suite,
         ExitsAsChild(i, k)
  PROVE  AsPlanned(i)'
<1>1. Shape(i) BY DEF Base
<1>2. Sync(i) /\ state[<<i, k>>] = "released" /\ Children(i) \in ChildNo BY DEF ExitsAsChild
<1>3. state[<<i, 0>>] # "unborn" BY <1>1, <1>2 DEF Shape
<1>4. k <= Children(i) BY <1>1, <1>2 DEF Shape
<1>5. state[<<i, 0>>] \in {"collecting", "exited"}
  BY <1>1, <1>2, <1>3, <1>4 DEF AsPlanned, Shape, BeforeRelease, Ended
<1>6. Signalled(i) /\ InTheirOrder(i) BY <1>2, <1>5 DEF AsPlanned
<1>7. k = Children(i)
  <2>1. SUFFICES ASSUME k # Children(i) PROVE FALSE OBVIOUS
  <2>2. k < Children(i) BY <1>2, <1>4, <2>1 DEF ChildNo
  <2>3. state[<<i, Children(i)>>] = "exited" BY <1>6, <2>1 DEF ExitsAsChild, Signalled, Live
  <2>4. QED BY <1>2, <1>6, <2>2, <2>3 DEF Signalled
<1>8. at[<<i, Children(i)>>] = Children(i) - 1 BY <1>7 DEF ExitsAsChild
<1>9. \A m \in ChildNo : m < Children(i) => state[<<i, m>>] = "killed"
  <2>1. \A m \in ChildNo : m > Children(i) - 1 - (Children(i) - 1) BY <1>2 DEF ChildNo
  <2>2. QED BY <1>6, <1>8, <2>1 DEF Signalled
<1>10. Children(i)' = Children(i) /\ (Sync(i)' <=> Sync(i)) /\ Collected(i)' = Collected(i)
  BY KindsKept, CollectedSame DEF ExitsAsChild
<1>11. state'[<<i, 0>>] = state[<<i, 0>>] /\ state'[<<i, Children(i)>>] = "exited" /\ at' = at
       /\ \A m \in ChildNo : m # Children(i) => state'[<<i, m>>] = state[<<i, m>>]
  BY <1>7 DEF ExitsAsChild, Turns, ChildNo
<1>12. \A m \in ChildNo : m < Children(i) => state'[<<i, m>>] = "killed"
  BY <1>2, <1>9, <1>11 DEF ChildNo
<1>13. Signalled(i)' BY <1>10, <1>11, <1>12 DEF Signalled
<1>14. InTheirOrder(i)' BY <1>6, <1>10, <1>11 DEF InTheirOrder
<1>15. \A m \in ChildNo :
        state'[<<i, m>>] \in {"unborn", "setup", "waiting"} => at'[<<i, m>>] = 0
  BY <1>11 DEF AsPlanned
<1>16. QED BY <1>2, <1>5, <1>10, <1>11, <1>13, <1>14, <1>15 DEF AsPlanned

\* The child with the highest priority signals one that is still there.
LEMMA PlannedSignal ==
  ASSUME Base, NEW i \in 1..MaxTests, NEW h, NEW t, AsPlanned(i), Signals(i, h, t)
  PROVE  AsPlanned(i)'
<1>1. Shape(i) BY DEF Base
<1>2. /\ Sync(i) /\ state[<<i, h>>] = "released" /\ h = Children(i) /\ h \in ChildNo /\ t \in ChildNo
      /\ at[<<i, h>>] \in 0..3 /\ t = h - 1 - at[<<i, h>>] /\ suite' = suite /\ collected' = collected
  BY DEF Signals, Kept
<1>3. state[<<i, 0>>] # "unborn" BY <1>1, <1>2 DEF Shape
<1>4. h <= Children(i) BY <1>2 DEF ChildNo
<1>5. state[<<i, 0>>] \in {"collecting", "exited"}
  BY <1>1, <1>2, <1>3, <1>4 DEF AsPlanned, Shape, BeforeRelease, Ended
<1>6. Signalled(i) /\ InTheirOrder(i) BY <1>2, <1>5 DEF AsPlanned
<1>7. t < h /\ t # h /\ ~(t > h - 1 - at[<<i, h>>]) BY <1>2 DEF ChildNo
<1>8. state[<<i, t>>] = "released" BY <1>2, <1>6, <1>7 DEF Signalled
<1>9. t \notin Collected(i)
  <2>1. t \in Collected(i) => at[<<i, 0>>] > 0 BY <1>2, <1>6, <1>7 DEF InTheirOrder, ChildNo
  <2>2. ~(at[<<i, 0>>] > 0) BY <1>2, <1>6 DEF InTheirOrder
  <2>3. QED BY <2>1, <2>2
<1>10. Counts(i, h, at[<<i, h>>] + 1) /\ Turns(i, t, "killed")
  <2>1. <<i, t>> \notin collected BY <1>2, <1>9 DEF Collected
  <2>2. state[<<i, t>>] \in Live /\ state[<<i, t>>] \notin Ended BY <1>8 DEF Live, Ended
  <2>3. QED BY <1>8, <2>1, <2>2 DEF Signals
<1>11. Children(i)' = Children(i) /\ (Sync(i)' <=> Sync(i)) /\ Collected(i)' = Collected(i)
  BY <1>2, KindsKept, CollectedSame
<1>12. state'[<<i, 0>>] = state[<<i, 0>>] /\ state'[<<i, t>>] = "killed"
       /\ \A m \in ChildNo : m # t => state'[<<i, m>>] = state[<<i, m>>]
  BY <1>2, <1>10 DEF Turns, ChildNo
<1>13. at'[<<i, 0>>] = at[<<i, 0>>] /\ at'[<<i, h>>] = at[<<i, h>>] + 1
       /\ \A m \in ChildNo : m # h => at'[<<i, m>>] = at[<<i, m>>]
  BY <1>2, <1>10 DEF Counts, ChildNo
<1>14. state'[<<i, h>>] = "released" BY <1>2, <1>7, <1>12
<1>15. at'[<<i, h>>] \in 0..(h - 1) BY <1>2, <1>13 DEF ChildNo
<1>16. ASSUME NEW m \in ChildNo, m < h
       PROVE  state'[<<i, m>>] = IF m > h - 1 - at'[<<i, h>>] THEN "killed" ELSE "released"
  <2>1. state[<<i, m>>] = IF m > h - 1 - at[<<i, h>>] THEN "killed" ELSE "released"
    BY <1>2, <1>6, <1>16 DEF Signalled
  <2>2. CASE m = t
    <3>1. m > h - 1 - at'[<<i, h>>] BY <1>2, <1>13, <2>2 DEF ChildNo
    <3>2. QED BY <1>12, <2>2, <3>1
  <2>3. CASE m # t
    <3>1. m > h - 1 - at'[<<i, h>>] <=> m > h - 1 - at[<<i, h>>]
      BY <1>2, <1>13, <2>3 DEF ChildNo
    <3>2. QED BY <1>12, <2>1, <2>3, <3>1
  <2>4. QED BY <2>2, <2>3
<1>17. Signalled(i)' BY <1>2, <1>11, <1>14, <1>15, <1>16 DEF Signalled
<1>18. InTheirOrder(i)' BY <1>2, <1>6, <1>11, <1>13 DEF InTheirOrder
<1>19. \A m \in ChildNo :
        state'[<<i, m>>] \in {"unborn", "setup", "waiting"} => at'[<<i, m>>] = 0
  BY <1>12, <1>13, <1>14 DEF AsPlanned
<1>20. QED BY <1>2, <1>5, <1>11, <1>12, <1>17, <1>18, <1>19 DEF AsPlanned

\* The test waits for its next child, and finds what it asserts.
LEMMA PlannedWait ==
  ASSUME Base, NEW i \in 1..MaxTests, AsPlanned(i), Reaped(i), Waits(i)
  PROVE  AsPlanned(i)'
<1> DEFINE a == AwaitedNo(i)
<1>1. Shape(i) BY DEF Base
<1>2. /\ state[<<i, 0>>] = "collecting" /\ at[<<i, 0>>] \in 0..3 /\ at[<<i, 0>>] < Children(i)
      /\ Children(i) \in 0..3 /\ suite' = suite
      /\ Sync(i) => ~Lenient(i)
      /\ ~Sync(i) => Children(i) <= 1
  BY DEF Waits, Kept
<1>3. a \in ChildNo /\ a <= Children(i) BY <1>2 DEF AwaitedNo, ChildNo
<1>4. (Sync(i) => Signalled(i) /\ InTheirOrder(i))
      /\ (~Sync(i) => \A k \in ChildNo : state[<<i, k>>] \in {"unborn", "setup", "exited"})
  BY <1>2 DEF AsPlanned
<1>5. state[<<i, a>>] # "absent"
  <2>1. CASE Sync(i)
    <3>1. CASE a = Children(i) BY <1>4, <2>1, <3>1 DEF Signalled
    <3>2. CASE a # Children(i)
      <4>1. a < Children(i) BY <1>2, <1>3, <3>2 DEF ChildNo
      <4>2. QED BY <1>3, <1>4, <2>1, <4>1 DEF Signalled
    <3>3. QED BY <3>1, <3>2
  <2>2. CASE ~Sync(i) BY <1>3, <1>4, <2>2
  <2>3. QED BY <2>1, <2>2
<1>6. a \notin Collected(i)
  <2>1. CASE Sync(i)
    <3>1. a \in Collected(i) => at[<<i, 0>>] > 0 /\ (a = Children(i) \/ a < at[<<i, 0>>])
      BY <1>3, <1>4, <2>1 DEF InTheirOrder
    <3>2. at[<<i, 0>>] > 0 => a = at[<<i, 0>>] BY <1>2 DEF AwaitedNo
    <3>3. QED BY <1>2, <3>1, <3>2
  <2>2. CASE ~Sync(i)
    <3>1. at[<<i, 0>>] = 0 BY <1>2, <2>2
    <3>2. Cardinality(Collected(i)) = 0 BY <1>2, <3>1 DEF Reaped
    <3>3. IsFiniteSet(Collected(i))
      <4>1. 1 \in Int /\ 3 \in Int OBVIOUS
      <4>2. IsFiniteSet(1..3) BY <4>1, FS_Interval
      <4>3. Collected(i) \in SUBSET (1..3) BY DEF Collected, ChildNo
      <4>4. QED BY <4>2, <4>3, FS_Subset
    <3>4. Collected(i) = {} BY <3>2, <3>3, FS_EmptySet
    <3>5. QED BY <3>4
  <2>3. QED BY <2>1, <2>2
<1>7. <<i, a>> \notin collected BY <1>3, <1>6 DEF Collected
<1> HIDE DEF a
<1>8. /\ state[<<i, a>>] \in Ended /\ collected' = collected \cup {<<i, a>>}
      /\ \/ Accepts(i, state[<<i, a>>]) /\ state' = state /\ Counts(i, 0, at[<<i, 0>>] + 1)
         \/ ~Accepts(i, state[<<i, a>>]) /\ Turns(i, 0, "failed") /\ at' = at
  BY <1>5, <1>7 DEF Waits, a
<1>9. Accepts(i, state[<<i, a>>])
  <2>1. CASE Sync(i)
    <3>1. CASE at[<<i, 0>>] = 0
      <4>1. a = Children(i) BY <3>1 DEF AwaitedNo, a
      <4>2. state[<<i, a>>] = "exited" BY <1>4, <1>8, <2>1, <4>1 DEF Signalled, Ended
      <4>3. QED BY <1>2, <2>1, <3>1, <4>2 DEF Accepts
    <3>2. CASE at[<<i, 0>>] > 0
      <4>1. a = at[<<i, 0>>] BY <1>2, <3>2 DEF AwaitedNo, a
      <4>2. a < Children(i) /\ state[<<i, Children(i)>>] = "exited"
        BY <1>2, <1>4, <2>1, <3>2, <4>1 DEF InTheirOrder
      <4>3. state[<<i, a>>] = "killed" BY <1>3, <1>4, <2>1, <4>2 DEF Signalled
      <4>4. QED BY <1>2, <2>1, <3>2, <4>3 DEF Accepts
    <3>3. QED BY <1>2, <3>1, <3>2
  <2>2. CASE ~Sync(i)
    <3>1. state[<<i, a>>] = "exited" BY <1>3, <1>4, <1>8, <2>2 DEF Ended
    <3>2. QED BY <2>2, <3>1 DEF Accepts
  <2>3. QED BY <2>1, <2>2
<1>10. state' = state /\ Counts(i, 0, at[<<i, 0>>] + 1) BY <1>8, <1>9
<1>11. Children(i)' = Children(i) /\ (Sync(i)' <=> Sync(i)) BY <1>2, KindsKept
<1>12. at'[<<i, 0>>] = at[<<i, 0>>] + 1 /\ \A m \in ChildNo : at'[<<i, m>>] = at[<<i, m>>]
  BY <1>10 DEF Counts, ChildNo
<1>13. \A k \in ChildNo : k \in Collected(i)' <=> k \in Collected(i) \/ k = a
  <2> SUFFICES ASSUME NEW k \in ChildNo
               PROVE  k \in Collected(i)' <=> k \in Collected(i) \/ k = a
    OBVIOUS
  <2>1. CASE k = a BY <1>8, <2>1 DEF Collected
  <2>2. CASE k # a
    <3>1. <<i, k>> # <<i, a>> BY <2>2
    <3>2. QED BY <1>8, <2>2, <3>1 DEF Collected
  <2>3. QED BY <2>1, <2>2
<1>14. Sync(i) => InTheirOrder(i)'
  <2>1. SUFFICES ASSUME Sync(i) PROVE InTheirOrder(i)' OBVIOUS
  <2>2. state[<<i, Children(i)>>] = "exited"
    <3>1. CASE at[<<i, 0>>] = 0
      <4>1. a = Children(i) BY <3>1 DEF AwaitedNo, a
      <4>2. QED BY <1>4, <1>8, <2>1, <4>1 DEF Signalled, Ended
    <3>2. CASE at[<<i, 0>>] > 0 BY <1>4, <2>1, <3>2 DEF InTheirOrder
    <3>3. QED BY <1>2, <3>1, <3>2
  <2>3. ASSUME NEW k \in ChildNo, k <= Children(i)
        PROVE  k \in Collected(i)' <=> k = Children(i) \/ k < at[<<i, 0>>] + 1
    <3>1. CASE at[<<i, 0>>] = 0
      <4>1. a = Children(i) BY <3>1 DEF AwaitedNo, a
      <4>2. k \notin Collected(i) BY <1>4, <2>1, <2>3, <3>1 DEF InTheirOrder
      <4>3. ~(k < at[<<i, 0>>] + 1) BY <3>1 DEF ChildNo
      <4>4. QED BY <1>13, <4>1, <4>2, <4>3
    <3>2. CASE at[<<i, 0>>] > 0
      <4>1. a = at[<<i, 0>>] BY <1>2, <3>2 DEF AwaitedNo, a
      <4>2. k \in Collected(i) <=> (k = Children(i) \/ k < at[<<i, 0>>])
        BY <1>4, <2>1, <2>3, <3>2 DEF InTheirOrder
      <4>3. k < at[<<i, 0>>] + 1 <=> k < at[<<i, 0>>] \/ k = a BY <1>2, <4>1 DEF ChildNo
      <4>4. QED BY <1>13, <4>2, <4>3
    <3>3. QED BY <1>2, <3>1, <3>2
  <2>4. at[<<i, 0>>] + 1 > 0 BY <1>2
  <2>5. QED BY <1>10, <1>11, <1>12, <2>2, <2>3, <2>4 DEF InTheirOrder
<1>15. Sync(i) => Signalled(i)'
  <2>1. SUFFICES ASSUME Sync(i) PROVE Signalled(i)' OBVIOUS
  <2>2. Children(i) \in ChildNo BY <1>2, <2>1 DEF ChildNo
  <2>3. at'[<<i, Children(i)>>] = at[<<i, Children(i)>>] BY <1>12, <2>2
  <2>4. QED BY <1>4, <1>10, <1>11, <2>1, <2>3 DEF Signalled
<1>16. QED BY <1>2, <1>10, <1>11, <1>12, <1>14, <1>15 DEF AsPlanned

\* The count is right when the children of the test wait, since nobody else does.
LEMMA PlannedPoll ==
  ASSUME Base, \A l \in 1..MaxTests : Orphans(l), NEW i \in 1..MaxTests, Clean(i), AsPlanned(i),
         Polls(i)
  PROVE  AsPlanned(i)'
<1>1. /\ state[<<i, 0>>] = "polling" /\ Children(i) \in 0..3 /\ Cardinality(Waiters) = Children(i)
      /\ Turns(i, 0, "releasing") /\ suite' = suite /\ UNCHANGED <<at, collected>>
  BY DEF Polls, Kept
<1>2. ASSUME NEW k \in ChildNo, k <= Children(i), state[<<i, k>>] # "waiting"
      PROVE  FALSE
  <2>1. PICK j \in 1..MaxTests, m \in ChildNo : j # i /\ state[<<j, m>>] = "waiting"
    BY <1>1, <1>2, WhoWaits
  <2>2. Sync(j) /\ Orphans(j) BY <2>1 DEF Base, Shape
  <2>3. i # j /\ i \in Nat /\ j \in Nat /\ (i < j \/ j < i) BY <2>1
  <2>4. ~(i < j) BY <1>1, <2>1, <2>3, OneAtATime DEF BeforeRelease
  <2>5. j < i /\ j <= i BY <2>3, <2>4
  <2>6. state[<<j, 0>>] \in Ended BY <1>1, <2>3, <2>5, OneAtATime DEF BeforeRelease
  <2>7. Misled(j) BY <2>1, <2>2, <2>6 DEF Orphans
  <2>8. QED BY <2>5, <2>7, CleanNotBlamed
<1>3. Children(i)' = Children(i) /\ (Sync(i)' <=> Sync(i)) BY <1>1, KindsKept
<1>4. state'[<<i, 0>>] = "releasing" /\ \A m \in ChildNo : state'[<<i, m>>] = state[<<i, m>>]
  BY <1>1 DEF Turns, ChildNo
<1>5. QED BY <1>1, <1>2, <1>3, <1>4 DEF AsPlanned

\* The test releases its children, who all wait.
LEMMA PlannedRelease ==
  ASSUME Base, NEW i \in 1..MaxTests, AsPlanned(i), Reaped(i), suite' = suite,
         UNCHANGED <<at, collected>>,
         state[<<i, 0>>] = "releasing", state'[<<i, 0>>] = "collecting",
         \A m \in ChildNo :
           state'[<<i, m>>] = IF state[<<i, m>>] = "waiting" THEN "released" ELSE state[<<i, m>>]
  PROVE  AsPlanned(i)'
<1>1. Shape(i) /\ state[<<i, 0>>] # "unborn" BY DEF Base
<1>2. Sync(i) /\ at[<<i, 0>>] = 0 BY <1>1 DEF Shape
<1>3. Children(i) \in ChildNo BY <1>1, <1>2, PlannedType
<1>4. \A k \in ChildNo : k <= Children(i) => state[<<i, k>>] = "waiting" /\ at[<<i, k>>] = 0
  BY <1>2 DEF AsPlanned
<1>5. Children(i)' = Children(i) /\ (Sync(i)' <=> Sync(i)) /\ Collected(i)' = Collected(i)
  BY KindsKept, CollectedSame
<1>6. Collected(i) = {} BY DEF Reaped, BeforeRelease
<1>7. Children(i) <= Children(i) BY <1>3 DEF ChildNo
<1>8. state'[<<i, Children(i)>>] = "released" /\ at[<<i, Children(i)>>] = 0
  BY <1>3, <1>4, <1>7
<1>9. \A k \in ChildNo : k < Children(i) =>
        state'[<<i, k>>] = "released" /\ ~(k > Children(i) - 1 - 0)
  BY <1>3, <1>4 DEF ChildNo
<1>10. 0 \in 0..(Children(i) - 1) BY <1>3 DEF ChildNo
<1>11. Signalled(i)' BY <1>5, <1>8, <1>9, <1>10 DEF Signalled
<1>12. InTheirOrder(i)' BY <1>2, <1>5, <1>6 DEF InTheirOrder
<1>13. \A m \in ChildNo :
        state'[<<i, m>>] \in {"unborn", "setup", "waiting"} => at[<<i, m>>] = 0
  BY DEF AsPlanned
<1>14. QED BY <1>2, <1>5, <1>11, <1>12, <1>13 DEF AsPlanned

Inv2 ==
  /\ Inv1
  /\ \A i \in 1..MaxTests : Orphans(i)
  /\ \A i \in 1..MaxTests : Clean(i) => AsPlanned(i)

LEMMA PlannedNext ==
  ASSUME Inv2, [Next]_vars, NEW j \in 1..MaxTests, Clean(j)'
  PROVE  AsPlanned(j)'
<1>1. Base /\ Reaped(j) /\ Orphans(j) /\ Shape(j) BY DEF Inv2, Inv1, Base
<1>2. faults \subseteq faults' BY <1>1, OrphansNext DEF Inv2
<1>3. Clean(j) /\ AsPlanned(j) BY <1>2, CleanBefore DEF Inv2
<1>4. 0 \in 0..3 /\ ChildNo \subseteq 0..3 /\ 0 \notin ChildNo /\ ChildNo \subseteq Nat
  BY DEF ChildNo
<1>5. ASSUME NEW i \in 1..MaxTests, NEW k \in 0..3, NEW s, Turns(i, k, s), suite' = suite,
             at' = at \/ \E m \in 0..3, n \in Nat : Counts(i, m, n),
             collected' = collected \/ \E m \in 0..3 : collected' = collected \cup {<<i, m>>},
             j # i
      PROVE  AsPlanned(j)'
  <2>1. Same(j) BY <1>5, OthersSame
  <2>2. QED BY <1>1, <1>3, <1>5, <2>1, PlannedOther
<1>6. ASSUME NEW what, Faulted(j, what) PROVE FALSE BY <1>6, NotClean
<1>7. CASE RunTest
  <2> DEFINE i == Len(verdict) + 1
  <2>1. RunsTest(i) BY <1>1, <1>7, RunTestDoes
  <2> HIDE DEF i
  <2>2. i \in 1..MaxTests /\ suite' = suite /\ Turns(i, 0, "forking")
        /\ state[<<i, 0>>] = "unborn" /\ UNCHANGED <<at, collected>>
    BY <2>1 DEF RunsTest
  <2>3. CASE j # i BY <1>4, <1>5, <2>2, <2>3
  <2>4. CASE j = i
    <3>1. state'[<<j, 0>>] = "forking"
          /\ \A m \in ChildNo : state'[<<j, m>>] = "unborn" /\ state[<<j, m>>] = "unborn"
      BY <1>1, <1>4, <2>2, <2>4 DEF Turns, Shape
    <3>2. \A m \in ChildNo : at'[<<j, m>>] = 0 BY <1>3, <2>2, <3>1 DEF AsPlanned
    <3>3. QED BY <3>1, <3>2 DEF AsPlanned
  <2>5. QED BY <2>3, <2>4
<1>8. CASE UNCHANGED <<suite, state, at, collected>>
  <2>1. Same(j) BY <1>8 DEF Same
  <2>2. QED BY <1>1, <1>3, <1>8, <2>1, PlannedOther
<1>9. ASSUME NEW p \in Proc, ForkTask(p) PROVE AsPlanned(j)'
  <2> DEFINE i == p[1]
             k == at[p] + 1
  <2>1. ForksTask(i, k) BY <1>1, <1>9, ForkTaskDoes
  <2> HIDE DEF i, k
  <2>2. /\ i \in 1..MaxTests /\ k \in ChildNo /\ k \in Nat /\ suite' = suite /\ collected' = collected
        /\ state[<<i, 0>>] = "forking" /\ state[<<i, k>>] = "unborn"
    BY <1>4, <2>1 DEF ForksTask, Kept
  <2>3. CASE j # i
    <3>1. at' = at \/ Counts(i, 0, k) BY <2>1 DEF ForksTask
    <3>2. QED BY <1>4, <1>5, <2>1, <2>2, <2>3, <3>1 DEF ForksTask
  <2>4. CASE j = i
    <3>1. Turns(i, k, "setup") /\ Counts(i, 0, k) BY <1>6, <2>1, <2>4 DEF ForksTask
    <3>2. state'[<<j, 0>>] = "forking" /\ state'[<<j, k>>] = "setup"
          /\ \A m \in ChildNo : m # k => state'[<<j, m>>] = state[<<j, m>>]
      BY <1>4, <2>2, <2>4, <3>1 DEF Turns
    <3>3. \A m \in ChildNo : at'[<<j, m>>] = at[<<j, m>>] BY <1>4, <2>2, <2>4, <3>1 DEF Counts
    <3>4. Sync(j)' <=> Sync(j) BY <2>2, KindsKept
    <3>5. \A m \in ChildNo :
            state'[<<j, m>>] \in {"unborn", "setup", "waiting"} => at'[<<j, m>>] = 0
      BY <1>3, <2>2, <2>4, <3>2, <3>3 DEF AsPlanned
    <3>6. QED BY <1>3, <2>2, <2>4, <3>2, <3>4, <3>5 DEF AsPlanned
  <2>5. QED BY <2>3, <2>4
<1>10. ASSUME NEW p \in Proc, Forked(p) PROVE AsPlanned(j)'
  <2> DEFINE i == p[1]
             s == IF Sync(i) THEN "polling" ELSE "collecting"
  <2>1. FinishesForking(i) BY <1>1, <1>10, ForkedDoes
  <2>2. /\ i \in 1..MaxTests /\ state[<<i, 0>>] = "forking" /\ Turns(i, 0, s) /\ Counts(i, 0, 0)
        /\ suite' = suite /\ collected' = collected /\ (Sync(i) => s = "polling")
        /\ s \in {"polling", "collecting"}
    BY <2>1 DEF FinishesForking, Kept
  <2> HIDE DEF i, s
  <2>3. CASE j # i BY <1>4, <1>5, <2>2, <2>3
  <2>4. CASE j = i
    <3>1. state'[<<j, 0>>] = s /\ \A m \in ChildNo : state'[<<j, m>>] = state[<<j, m>>]
      BY <1>4, <2>2, <2>4 DEF Turns
    <3>2. \A m \in ChildNo : at'[<<j, m>>] = at[<<j, m>>] BY <1>4, <2>2, <2>4 DEF Counts
    <3>3. Sync(j)' <=> Sync(j) BY <2>2, KindsKept
    <3>4. QED BY <1>3, <2>2, <2>4, <3>1, <3>2, <3>3 DEF AsPlanned
  <2>5. QED BY <2>3, <2>4
<1>11. ASSUME NEW p \in Proc, Poll(p) PROVE AsPlanned(j)'
  <2> DEFINE i == p[1]
  <2>1. Polls(i) BY <1>1, <1>11, PollDoes
  <2>2. /\ i \in 1..MaxTests /\ Turns(i, 0, "releasing") /\ suite' = suite /\ UNCHANGED <<at, collected>>
    BY <2>1 DEF Polls, Kept
  <2> HIDE DEF i
  <2>3. CASE j # i BY <1>4, <1>5, <2>2, <2>3
  <2>4. CASE j = i BY <1>1, <1>3, <2>1, <2>4, PlannedPoll DEF Inv2
  <2>5. QED BY <2>3, <2>4
<1>12. ASSUME NEW p \in Proc, ReleaseTs(p) PROVE AsPlanned(j)'
  <2> DEFINE i == p[1]
  <2>1. Releases(i) BY <1>1, <1>12, ReleaseTsDoes
  <2> HIDE DEF i
  <2>2. /\ i \in 1..MaxTests /\ state[<<i, 0>>] = "releasing" /\ suite' = suite
        /\ UNCHANGED <<at, collected>>
    BY <2>1 DEF Releases, Kept
  <2>3. CASE Turns(i, 0, "collecting") /\ Faulted(i, "release")
    <3>1. j # i BY <1>6, <2>3
    <3>2. QED BY <1>4, <1>5, <2>2, <2>3, <3>1
  <2>4. CASE /\ state'[<<i, 0>>] = "collecting"
             /\ \A l \in 1..MaxTests, m \in 0..3 : l # i \/ m # 0 =>
                  state'[<<l, m>>] = IF state[<<l, m>>] = "waiting" THEN "released" ELSE state[<<l, m>>]
    <3>1. CASE j = i
      <4>1. \A m \in ChildNo : state'[<<j, m>>] = IF state[<<j, m>>] = "waiting" THEN "released"
                                                  ELSE state[<<j, m>>]
        BY <1>4, <2>4
      <4>2. QED BY <1>1, <1>3, <2>2, <2>4, <3>1, <4>1, PlannedRelease
    <3>2. CASE j # i
      <4>1. \A m \in 0..3 : state[<<j, m>>] # "waiting"
        <5>1. i # j /\ i \in Nat /\ j \in Nat /\ (i < j \/ j < i) BY <2>2, <3>2
        <5>2. CASE i < j
          <6>1. state[<<j, 0>>] = "unborn" /\ \A k \in ChildNo : state[<<j, k>>] = "unborn"
            BY <1>1, <2>2, <5>1, <5>2, OneAtATime DEF BeforeRelease
          <6>2. QED BY <6>1 DEF ChildNo
        <5>3. CASE j < i
          <6>1. state[<<j, 0>>] \in Ended BY <1>1, <2>2, <5>1, <5>3, OneAtATime DEF BeforeRelease
          <6>2. state[<<j, 0>>] = "exited" BY <1>3, <6>1 DEF AsPlanned, Ended
          <6>3. \A k \in ChildNo : state[<<j, k>>] \notin Live BY <1>1, <1>3, <6>2, NobodyLeft
          <6>4. \A k \in ChildNo : state[<<j, k>>] # "waiting" BY <6>3 DEF Live
          <6>5. QED BY <6>2, <6>4 DEF ChildNo
        <5>4. QED BY <5>1, <5>2, <5>3
      <4>2. \A m \in 0..3 : state'[<<j, m>>] = state[<<j, m>>] BY <2>4, <3>2, <4>1
      <4>3. QED BY <1>1, <1>3, <2>2, <4>2, CollectedSame, PlannedSame
    <3>3. QED BY <3>1, <3>2
  <2>5. QED BY <2>1, <2>3, <2>4 DEF Releases
<1>13. ASSUME NEW p \in Proc, Waitpid(p) PROVE AsPlanned(j)'
  <2> DEFINE i == p[1]
  <2>1. Waits(i) BY <1>1, <1>13, WaitpidDoes
  <2>2. i \in 1..MaxTests /\ suite' = suite /\ at[<<i, 0>>] + 1 \in Nat /\ Children(i) \in 0..3
    BY <2>1 DEF Waits, Kept
  <2> HIDE DEF i
  <2>3. CASE j = i BY <1>1, <1>3, <2>1, <2>3, PlannedWait
  <2>4. CASE j # i
    <3>1. CASE UNCHANGED <<at, collected>> /\ Turns(i, 0, "failed")
      BY <1>4, <1>5, <2>2, <2>4, <3>1
    <3>2. ASSUME NEW k \in 1..Children(i), collected' = collected \cup {<<i, k>>},
                 \/ state' = state /\ Counts(i, 0, at[<<i, 0>>] + 1)
                 \/ Turns(i, 0, "failed") /\ at' = at
          PROVE  AsPlanned(j)'
      <4>1. k \in 0..3 BY <2>2
      <4>2. CASE Turns(i, 0, "failed") /\ at' = at BY <1>4, <1>5, <2>2, <2>4, <3>2, <4>1, <4>2
      <4>3. CASE state' = state /\ Counts(i, 0, at[<<i, 0>>] + 1)
        <5>1. ASSUME NEW m \in 0..3
              PROVE  at'[<<j, m>>] = at[<<j, m>>] /\ (<<j, m>> \in collected' <=> <<j, m>> \in collected)
          <6>1. <<j, m>> # <<i, k>> BY <2>4
          <6>2. QED BY <2>4, <3>2, <4>3, <6>1 DEF Counts
        <5>2. Same(j) BY <4>3, <5>1 DEF Same
        <5>3. QED BY <1>1, <1>3, <2>2, <5>2, PlannedOther
      <4>4. QED BY <3>2, <4>2, <4>3
    <3>3. QED BY <2>1, <3>1, <3>2 DEF Waits
  <2>5. QED BY <2>3, <2>4
<1>14. ASSUME NEW p \in Proc, TestExits(p) PROVE AsPlanned(j)'
  <2> DEFINE i == p[1]
  <2>1. ExitsAsTest(i) BY <1>1, <1>14, TestExitsDoes
  <2>2. /\ i \in 1..MaxTests /\ state[<<i, 0>>] = "collecting" /\ Turns(i, 0, "exited")
        /\ suite' = suite /\ UNCHANGED <<at, collected>>
    BY <2>1 DEF ExitsAsTest, Kept
  <2> HIDE DEF i
  <2>3. CASE j # i BY <1>4, <1>5, <2>2, <2>3
  <2>4. CASE j = i
    <3>1. state'[<<j, 0>>] = "exited" /\ \A m \in ChildNo : state'[<<j, m>>] = state[<<j, m>>]
      BY <1>4, <2>2, <2>4 DEF Turns
    <3>2. Sync(j)' = Sync(j) /\ Children(j)' = Children(j) /\ Collected(j)' = Collected(j)
      BY <2>2, KindsKept, CollectedSame
    <3>3. Sync(j) => Signalled(j) /\ InTheirOrder(j) /\ Children(j) \in ChildNo
      BY <1>1, <1>3, <2>2, <2>4, PlannedType DEF AsPlanned
    <3>4. Sync(j) => Signalled(j)' /\ InTheirOrder(j)'
      BY <2>2, <3>1, <3>2, <3>3 DEF Signalled, InTheirOrder
    <3>5. \A m \in ChildNo :
            state'[<<j, m>>] \in {"unborn", "setup", "waiting"} => at'[<<j, m>>] = 0
      BY <1>3, <2>2, <3>1 DEF AsPlanned
    <3>6. ~Sync(j) => \A k \in ChildNo : state'[<<j, k>>] \in {"unborn", "setup", "exited"}
      BY <1>3, <3>1 DEF AsPlanned
    <3>7. QED BY <3>1, <3>2, <3>4, <3>5, <3>6 DEF AsPlanned
  <2>5. QED BY <2>3, <2>4
<1>15. ASSUME NEW p \in Proc, Arrive(p) PROVE AsPlanned(j)'
  <2> DEFINE i == p[1]
             k == p[2]
             s == IF Sync(i) THEN "waiting" ELSE "exited"
  <2>1. Arrives(i, k) BY <1>1, <1>15, ArriveDoes
  <2>2. /\ i \in 1..MaxTests /\ k \in ChildNo /\ k \in 0..3 /\ state[<<i, k>>] = "setup"
        /\ Turns(i, k, s) /\ suite' = suite /\ UNCHANGED <<at, collected>>
    BY <1>4, <2>1 DEF Arrives, Kept
  <2> HIDE DEF i, k
  <2>3. CASE j = i BY <1>1, <1>3, <2>2, <2>3, PlannedChild
  <2>4. CASE j # i
    <3> HIDE DEF s
    <3>1. QED BY <1>5, <2>2, <2>4
  <2>5. QED BY <2>3, <2>4
<1>16. ASSUME NEW p \in Proc, Signal(p) PROVE AsPlanned(j)'
  <2> DEFINE i == p[1]
             h == p[2]
             t == ToSignal(p)
  <2>1. Signals(i, h, t) BY <1>1, <1>16, SignalDoes
  <2> HIDE DEF i, h, t
  <2>2. /\ i \in 1..MaxTests /\ h \in ChildNo /\ t \in ChildNo /\ Sync(i)
        /\ h \in 0..3 /\ t \in 0..3
        /\ state[<<i, h>>] = "released" /\ suite' = suite /\ collected' = collected
        /\ at[<<i, h>>] + 1 \in Nat
    BY <1>4, <2>1 DEF Signals, Kept
  <2>3. CASE j = i BY <1>1, <1>3, <2>1, <2>3, PlannedSignal
  <2>4. CASE j # i
    <3>1. CASE /\ state[<<i, t>>] = "absent" /\ Counts(i, h, at[<<i, h>>] + 1)
               /\ \A l \in 1..MaxTests, m \in 0..3 : l # i \/ m # h =>
                    state'[<<l, m>>] = IF state[<<l, m>>] \in Live THEN "killed" ELSE state[<<l, m>>]
      <4>1. Shape(i) /\ Orphans(i) BY <1>1, <2>2 DEF Inv2, Base
      <4>2. Misled(i) BY <2>2, <3>1, <4>1 DEF Orphans
      <4>3. ~(i <= j) BY <1>3, <2>2, <4>2, CleanNotBlamed
      <4>4. j < i BY <2>2, <4>3
      <4>5. state[<<i, 0>>] # "unborn" BY <2>2, <4>1 DEF Shape
      <4>6. Len(verdict) \in Nat BY <1>1 DEF Base, Typed, TypeOK
      <4>7. ~(i > Len(verdict) + 1) BY <4>1, <4>5 DEF Shape
      <4>8. j <= Len(verdict) BY <2>2, <4>4, <4>6, <4>7
      <4>9. state[<<j, 0>>] \in Ended BY <1>1, <4>8 DEF Shape
      <4>10. state[<<j, 0>>] = "exited" BY <1>3, <4>9 DEF AsPlanned, Ended
      <4>11. \A k \in ChildNo : state[<<j, k>>] \notin Live BY <1>1, <1>3, <4>10, NobodyLeft
      <4>12. \A m \in 0..3 : state[<<j, m>>] \notin Live BY <4>10, <4>11 DEF ChildNo, Live
      <4>13. \A m \in 0..3 : state'[<<j, m>>] = state[<<j, m>>] BY <2>4, <3>1, <4>12
      <4>14. \A m \in 0..3 : at'[<<j, m>>] = at[<<j, m>>] BY <2>4, <3>1 DEF Counts
      <4>15. QED BY <1>1, <1>3, <2>2, <4>13, <4>14, CollectedSame, PlannedSame
    <3>2. CASE /\ Counts(i, h, at[<<i, h>>] + 1)
               /\ Turns(i, t, IF state[<<i, t>>] \in Live THEN "killed" ELSE state[<<i, t>>])
      <4> DEFINE s == IF state[<<i, t>>] \in Live THEN "killed" ELSE state[<<i, t>>]
      <4>1. Turns(i, t, s) BY <3>2
      <4> HIDE DEF s
      <4>2. QED BY <1>5, <2>2, <2>4, <3>2, <4>1
    <3>3. CASE at' = at /\ Turns(i, h, "failed") BY <1>5, <2>2, <2>4, <3>3
    <3>4. QED BY <2>1, <3>1, <3>2, <3>3 DEF Signals
  <2>5. QED BY <2>3, <2>4
<1>17. ASSUME NEW p \in Proc, ChildExits(p) PROVE AsPlanned(j)'
  <2> DEFINE i == p[1]
             k == p[2]
  <2>1. ExitsAsChild(i, k) BY <1>1, <1>17, ChildExitsDoes
  <2> HIDE DEF i, k
  <2>2. /\ i \in 1..MaxTests /\ k \in ChildNo /\ k \in 0..3
        /\ Turns(i, k, "exited") /\ suite' = suite /\ UNCHANGED <<at, collected>>
    BY <1>4, <2>1 DEF ExitsAsChild, Kept
  <2>3. CASE j = i BY <1>1, <1>3, <2>1, <2>2, <2>3, PlannedExit
  <2>4. CASE j # i BY <1>5, <2>2, <2>4
  <2>5. QED BY <2>3, <2>4
<1>18. ASSUME NEW p \in Proc, Fault(p) PROVE AsPlanned(j)'
  <2> DEFINE i == p[1]
             k == p[2]
  <2>1. Faults(i, k) BY <1>1, <1>18, FaultDoes
  <2> HIDE DEF i, k
  <2>2. /\ i \in 1..MaxTests /\ k \in 0..3 /\ suite' = suite /\ UNCHANGED <<at, collected>>
    BY <2>1 DEF Faults, Kept
  <2>3. PICK how \in {"failed", "crashed"} : Turns(i, k, how) /\ Faulted(i, how)
    BY <2>1 DEF Faults
  <2>4. j # i BY <1>6, <2>3
  <2>5. QED BY <1>5, <2>2, <2>3, <2>4
<1>19. QED
  <2>1. RunnerCannotFork \/ Report \/ Result \/ UNCHANGED vars =>
          UNCHANGED <<suite, state, at, collected>>
    BY DEF RunnerCannotFork, Report, Result, vars
  <2>2. QED
    BY <2>1, <1>7, <1>8, <1>9, <1>10, <1>11, <1>12, <1>13, <1>14, <1>15, <1>16, <1>17, <1>18
    DEF Next, RunnerStep, ProcStep

LEMMA InitPlanned ==
  ASSUME Init, NEW i \in 1..MaxTests
  PROVE  AsPlanned(i)
<1>1. \A k \in 0..3 : state[<<i, k>>] = "unborn" /\ at[<<i, k>>] = 0 BY ProcFacts DEF Init
<1>2. state[<<i, 0>>] = "unborn"
      /\ \A k \in ChildNo : state[<<i, k>>] = "unborn" /\ at[<<i, k>>] = 0
  BY <1>1 DEF ChildNo
<1>3. QED BY <1>2 DEF AsPlanned

\* A test that is not reported as ok has something wrong in it, or comes after one
\* that was ended before its release (src/tests/pcp.c and src/tests/sched.c poll
\* get_nr_ts_release_waiters(), which counts those it left waiting).
THEOREM TestsFailAlone == Spec => []FailsAlone
<1>1. Init => Inv2 BY InitTyped, InitReaped, InitOrphans, InitPlanned DEF Inv2, Inv1, Base
<1>2. Inv2 /\ [Next]_vars => Inv2'
  <2>1. SUFFICES ASSUME Inv2, [Next]_vars PROVE Inv2' OBVIOUS
  <2>2. Inv1' BY <2>1, Inv1Step DEF Inv2
  <2>3. \A i \in 1..MaxTests : Orphans(i)' BY <2>1, OrphansNext DEF Inv2, Inv1
  <2>4. \A i \in 1..MaxTests : Clean(i)' => AsPlanned(i)' BY <2>1, PlannedNext
  <2>5. QED BY <2>2, <2>3, <2>4 DEF Inv2
<1>3. Inv2 => FailsAlone
  <2>1. SUFFICES ASSUME Inv2, NEW i \in 1..Len(verdict), verdict[i] # "ok"
                 PROVE  \E f \in faults : f.test = i \/ (f.test < i /\ f.early)
    BY DEF FailsAlone
  <2>2. Len(verdict) \in Nat /\ Len(suite) \in Nat /\ Len(verdict) <= Len(suite)
        /\ Len(suite) <= MaxTests /\ MaxTests \in Nat
    BY <2>1, SuiteAssumption DEF Inv2, Inv1, Base, Typed, TypeOK
  <2>3. i \in 1..MaxTests /\ i <= Len(verdict) BY <2>2
  <2>4. Shape(i) BY <2>1, <2>3 DEF Inv2, Inv1, Base
  <2>5. state[<<i, 0>>] \in Ended /\ verdict[i] = VerdictOn(state[<<i, 0>>]) BY <2>3, <2>4 DEF Shape
  <2>6. state[<<i, 0>>] # "exited" BY <2>1, <2>5 DEF VerdictOn
  <2>7. ~AsPlanned(i) BY <2>5, <2>6 DEF AsPlanned, Ended
  <2>8. ~Clean(i) BY <2>1, <2>3, <2>7 DEF Inv2
  <2>9. PICK f \in faults : f.test = i \/ (f.test \in 1..(i - 1) /\ f.early) BY <2>8 DEF Clean
  <2>10. f.test \in 1..(i - 1) => f.test < i BY <2>3
  <2>11. QED BY <2>9, <2>10
<1>4. QED BY <1>1, <1>2, <1>3, PTL DEF Spec

=============================================================================
