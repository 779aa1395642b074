-------------------------- MODULE CacheArena_proofs --------------------------
(***************************************************************************)
(* Proofs about CacheArena, for arenas of any size up to the square root   *)
(* of RAND_MAX (46340 lines with glibc's): randrange stays in its range,   *)
(* neither init_arena nor a walk leaves the arena, and a walk of as many   *)
(* steps as there are lines reads every line once, because init_arena      *)
(* leaves no set of lines that is closed under the arena's pointers        *)
(* except none of them and all.                                            *)
(***************************************************************************)
EXTENDS CacheArena, FiniteSetTheorems, TLAPS

\* A quotient is bounded by what it is a quotient of.
LEMMA DivBounds ==
  ASSUME NEW n \in Nat, NEW d \in Nat \ {0}
  PROVE  /\ n \div d \in Nat
         /\ d * (n \div d) <= n
         /\ n < d * (n \div d) + d
  BY Z3

\* Products are monotonic.
LEMMA MulMono ==
  ASSUME NEW a \in Nat, NEW b \in Nat, NEW c \in Nat, a <= b
  PROVE  c * a <= c * b
  BY Z3

\* randrange(0, limit) returns a number below limit when the square of limit
\* is at most RAND_MAX.  Beyond that the remainder of RAND_MAX / limit may
\* reach the divisor, and the retry on retval = limit lets larger numbers
\* through.
THEOREM RandRangeInRange ==
  ASSUME NEW limit \in Nat \ {0}, limit * limit <= RAND_MAX
  PROVE  RandRange(limit) \subseteq 0..limit - 1
<1> DEFINE d == RAND_MAX \div limit
<1>1. RAND_MAX \in Nat BY ArenaAssumption
<1>2. d \in Nat /\ limit * d <= RAND_MAX /\ RAND_MAX < limit * d + limit
  BY <1>1, DivBounds
<1>3. limit <= d
  <2>1. SUFFICES ASSUME d + 1 <= limit PROVE FALSE BY <1>2
  <2>2. limit * (d + 1) <= limit * limit BY <1>2, <2>1, MulMono
  <2>3. limit * (d + 1) = limit * d + limit BY <1>2, Z3
  <2>4. QED BY <1>1, <1>2, <2>2, <2>3, limit * limit \in Nat
<1>4. SUFFICES ASSUME NEW r \in 0..RAND_MAX, r \div d # limit
               PROVE  r \div d \in 0..limit - 1
  BY DEF RandRange
<1>5. d \in Nat \ {0} BY <1>2, <1>3
<1>6. r \div d \in Nat /\ d * (r \div d) <= r
  BY <1>1, <1>4, <1>5, DivBounds
<1>7. r \div d <= limit
  <2>1. SUFFICES ASSUME limit + 1 <= r \div d PROVE FALSE BY <1>6
  <2>2. d * (limit + 1) <= d * (r \div d) BY <1>2, <1>6, <2>1, MulMono
  <2>3. d * (limit + 1) = limit * d + d BY <1>2, Z3
  <2>4. QED
    BY <1>1, <1>2, <1>3, <1>4, <1>6, <2>2, <2>3, limit * d \in Nat, d * (r \div d) \in Nat
<1>8. QED BY <1>4, <1>6, <1>7

-----------------------------------------------------------------------------
(* The invariant.                                                          *)

\* Once init_arena has filled the arena, its links lead to lines of it; in an
\* unshuffled arena only those of the hot lines do, in order.
Linked ==
  phase # "fill" =>
    /\ line0 \in [Elem -> Elem]
    /\ shuffle => line1 \in [Elem -> Elem]
    /\ ~shuffle => \A e \in Hot : line1[e] = (e + 1) % NumArenaElem

\* Where a walk is.
Walking ==
  /\ phase \in {"shuffle", "shuffle_hot"} => shuffle
  /\ phase \in {"walk", "walk_hot"} => next \in Elem
  /\ phase = "walk_hot" => i <= NumHotElem /\ (shuffle \/ next = i % NumArenaElem)

IInv == TypeOK /\ NoOverrun /\ Linked /\ Walking

\* Remainders of numbers below the divisor, and their range.
LEMMA ModElem ==
  /\ \A n \in Nat : n % NumArenaElem \in Elem
  /\ \A n \in Elem : n % NumArenaElem = n
  BY ArenaAssumption, Z3 DEF Elem

\* What randrange returns for the limits that occur is in the arena.
LEMMA DrawsInArena ==
  ASSUME NumArenaElem * NumArenaElem <= RAND_MAX, NEW limit \in 1..NumArenaElem
  PROVE  RandRange(limit) \subseteq Elem
<1>1. NumArenaElem \in Nat /\ limit \in Nat \ {0} BY ArenaAssumption
<1>2. limit * limit <= limit * NumArenaElem BY <1>1, MulMono
<1>3. NumArenaElem * limit <= NumArenaElem * NumArenaElem BY <1>1, MulMono
<1>4. limit * NumArenaElem = NumArenaElem * limit BY <1>1, Z3
<1>5. limit * limit \in Nat /\ limit * NumArenaElem \in Nat
      /\ NumArenaElem * NumArenaElem \in Nat /\ RAND_MAX \in Nat
  BY <1>1, ArenaAssumption
<1>6. limit * limit <= RAND_MAX BY <1>2, <1>3, <1>4, <1>5
<1>7. RandRange(limit) \subseteq 0..limit - 1 BY <1>1, <1>6, RandRangeInRange
<1>8. 0..limit - 1 \subseteq Elem BY <1>1 DEF Elem
<1>9. QED BY <1>7, <1>8

\* Exchanging links keeps them inside the arena.
LEMMA SwappedType ==
  ASSUME NEW line \in [Elem -> Elem], NEW j \in Elem, NEW k \in Elem
  PROVE  Swapped(line, j, k) \in [Elem -> Elem]
  BY DEF Swapped

LEMMA InitInv == Init => IInv
<1>1. 0 \in Elem /\ 0 \in 0..NumArenaElem BY ArenaAssumption DEF Elem
<1>2. QED BY <1>1 DEF Init, IInv, TypeOK, Phase, NoOverrun, Linked, Walking

LEMMA NextInv ==
  ASSUME IInv, [Next]_vars, NumArenaElem * NumArenaElem <= RAND_MAX
  PROVE  IInv'
<1> USE DEF IInv
<1>1. NumArenaElem \in Nat \ {0} /\ NumHotElem \in 0..NumArenaElem /\ RAND_MAX \in Nat
  BY ArenaAssumption
<1>2. CASE FillInOrder
  <2>1. \A e \in Elem : (e + 1) % NumArenaElem \in Elem BY <1>1, ModElem DEF Elem
  <2>2. line0' \in [Elem -> Elem] /\ line1' \in [Elem -> Elem \cup {Garbage}]
    BY <1>2, <2>1 DEF FillInOrder
  <2>3. \A e \in Hot : line1'[e] = (e + 1) % NumArenaElem
    BY <1>1, <1>2 DEF FillInOrder, Hot, Elem
  <2>4. QED BY <1>2, <2>2, <2>3 DEF FillInOrder, TypeOK, Phase, NoOverrun, Linked, Walking
<1>3. CASE FillShuffled
  BY <1>1, <1>3 DEF FillShuffled, TypeOK, Phase, NoOverrun, Linked, Walking
<1>4. CASE ShuffleStep
  <2>1. PICK j \in RandRange(i - 1) :
          /\ phase' = IF j \in Elem THEN phase ELSE "overrun"
          /\ line0' = Swapped(line0, j, i - 1)
    BY <1>4 DEF ShuffleStep
  <2>2. i - 1 \in 1..NumArenaElem /\ i - 1 \in Elem /\ i' = i - 1 /\ phase = "shuffle"
        /\ UNCHANGED <<shuffle, line1, next, reads>>
    BY <1>1, <1>4 DEF ShuffleStep, TypeOK, Elem
  <2>3. j \in Elem BY <2>2, DrawsInArena
  <2>4. line0' \in [Elem -> Elem] BY <2>1, <2>2, <2>3, SwappedType DEF Linked
  <2>5. phase' = phase BY <2>1, <2>3
  <2>6. i' \in 0..NumArenaElem BY <2>2
  <2>7. QED BY <2>2, <2>4, <2>5, <2>6 DEF TypeOK, NoOverrun, Linked, Walking
<1>5. CASE ShuffleEnd
  BY <1>1, <1>5 DEF ShuffleEnd, TypeOK, Phase, NoOverrun, Linked, Walking
<1>6. CASE HotShuffleStep
  <2>1. PICK j \in RandRange(i - 1) :
          /\ phase' = IF j \in Elem THEN phase ELSE "overrun"
          /\ line1' = Swapped(line1, j, i - 1)
    BY <1>6 DEF HotShuffleStep
  <2>2. i - 1 \in 1..NumArenaElem /\ i - 1 \in Elem /\ i' = i - 1 /\ phase = "shuffle_hot"
        /\ UNCHANGED <<shuffle, line0, next, reads>>
    BY <1>1, <1>6 DEF HotShuffleStep, TypeOK, Elem
  <2>3. j \in Elem BY <2>2, DrawsInArena
  <2>4. line1' \in [Elem -> Elem] BY <2>1, <2>2, <2>3, SwappedType DEF Linked, Walking
  <2>5. phase' = phase BY <2>1, <2>3
  <2>6. i' \in 0..NumArenaElem BY <2>2
  <2>7. shuffle BY <2>2 DEF Walking
  <2>8. QED BY <2>2, <2>4, <2>5, <2>6, <2>7 DEF TypeOK, NoOverrun, Linked, Walking
<1>7. CASE HotShuffleEnd
  BY <1>7 DEF HotShuffleEnd, TypeOK, Phase, NoOverrun, Linked, Walking
<1>8. ASSUME NEW start \in {0} \cup CachelineStart, StartWalk("walk", start)
      PROVE  IInv'
  <2>1. start \in Elem
    BY <1>1, DrawsInArena DEF CachelineStart, Elem
  <2>2. next' = start /\ phase' = "walk" /\ i' = 0 /\ reads' \in [Elem -> Nat]
        /\ UNCHANGED <<shuffle, line0, line1>> /\ phase = "idle"
    BY <1>8 DEF StartWalk
  <2>3. QED BY <1>1, <2>1, <2>2 DEF TypeOK, Phase, NoOverrun, Linked, Walking
<1>9. CASE StartWalk("walk_hot", 0)
  <2>1. next' = 0 /\ phase' = "walk_hot" /\ i' = 0 /\ reads' \in [Elem -> Nat]
        /\ UNCHANGED <<shuffle, line0, line1>> /\ phase = "idle"
    BY <1>9 DEF StartWalk
  <2>2. 0 \in Elem /\ 0 % NumArenaElem = 0 BY <1>1, ModElem DEF Elem
  <2>3. Walking' BY <1>1, <2>1, <2>2 DEF Walking
  <2>4. QED BY <1>1, <2>1, <2>2, <2>3 DEF TypeOK, Phase, NoOverrun, Linked
<1>10. CASE Walk
  <2>1. next \in Elem /\ line0 \in [Elem -> Elem] /\ phase = "walk" /\ i < NumArenaElem
    BY <1>10 DEF Walk, Walking, Linked
  <2>2. phase' = phase /\ next' = line0[next] /\ i' = i + 1
        /\ UNCHANGED <<shuffle, line0, line1>>
    BY <1>10, <2>1 DEF Walk
  <2>3. reads' \in [Elem -> Nat] BY <1>10 DEF Walk, TypeOK
  <2>4. i' \in 0..NumArenaElem BY <1>1, <2>1, <2>2 DEF TypeOK
  <2>5. QED BY <2>1, <2>2, <2>3, <2>4 DEF TypeOK, NoOverrun, Linked, Walking
<1>11. CASE WalkHot
  <2>1. next \in Elem /\ phase = "walk_hot" /\ i < NumHotElem
    BY <1>11 DEF WalkHot, Walking
  <2>2. phase' = phase /\ next' = line1[next] /\ i' = i + 1
        /\ UNCHANGED <<shuffle, line0, line1>>
    BY <1>11, <2>1 DEF WalkHot
  <2>3. reads' \in [Elem -> Nat] BY <1>11 DEF WalkHot, TypeOK
  <2>4. i' \in 0..NumArenaElem /\ i' <= NumHotElem
    BY <1>1, <2>1, <2>2 DEF TypeOK
  <2>5. next' \in Elem /\ (shuffle \/ next' = i' % NumArenaElem)
    <3>1. CASE shuffle BY <2>1, <2>2, <3>1 DEF Linked
    <3>2. CASE ~shuffle
      <4>1. i \in Hot /\ i \in Elem BY <1>1, <2>1 DEF TypeOK, Hot, Elem
      <4>2. next = i BY <2>1, <3>2, <4>1, ModElem DEF Walking
      <4>3. next' = i' % NumArenaElem BY <2>1, <2>2, <3>2, <4>1, <4>2 DEF Linked
      <4>4. QED BY <2>4, <4>3, ModElem
    <3>3. QED BY <3>1, <3>2
  <2>6. QED BY <2>1, <2>2, <2>3, <2>4, <2>5 DEF TypeOK, NoOverrun, Linked, Walking
<1>12. CASE EndWalk
  BY <1>12 DEF EndWalk, TypeOK, Phase, NoOverrun, Linked, Walking
<1>13. CASE UNCHANGED vars
  BY <1>13 DEF vars, TypeOK, NoOverrun, Linked, Walking
<1>14. QED
  BY <1>2, <1>3, <1>4, <1>5, <1>6, <1>7, <1>8, <1>9, <1>10, <1>11, <1>12, <1>13 DEF Next

-----------------------------------------------------------------------------
(* Theorems.                                                               *)

\* Shuffling and walking stay inside an arena of at most sqrt(RAND_MAX) lines.
THEOREM StaysInArena ==
  ASSUME NumArenaElem * NumArenaElem <= RAND_MAX
  PROVE  Spec => []NoOverrun
<1>1. Init => IInv BY InitInv
<1>2. IInv /\ [Next]_vars => IInv' BY NextInv
<1>3. IInv => NoOverrun BY DEF IInv
<1>4. QED BY <1>1, <1>2, <1>3, PTL DEF Spec

\* The variables keep their types in such an arena.
THEOREM TypeCorrect ==
  ASSUME NumArenaElem * NumArenaElem <= RAND_MAX
  PROVE  Spec => []TypeOK
<1>1. Init => IInv BY InitInv
<1>2. IInv /\ [Next]_vars => IInv' BY NextInv
<1>3. IInv => TypeOK BY DEF IInv
<1>4. QED BY <1>1, <1>2, <1>3, PTL DEF Spec

-----------------------------------------------------------------------------
(* The links form one cycle.  What "one cycle" means is said with closed   *)
(* sets, which need no induction along the links: a set is closed when no  *)
(* link leads out of it, and a permutation is one cycle when nothing       *)
(* smaller than the whole, and not empty, is closed.                       *)

Closed(line, S) == \A e \in S : line[e] \in S

OneCycle(line, S) ==
  /\ Closed(line, S)
  /\ \A T \in SUBSET S : T # {} /\ Closed(line, T) => T = S

\* The state of a shuffle (Sattolo's) of the first n lines before the
\* iteration that takes line m - 1: the links are a permutation, each line
\* below m is on a cycle of its own among the lines below m, and every cycle
\* has a line below m.
Shuffling(line, n, m) ==
  /\ \A e \in 0..n - 1 : line[e] \in 0..n - 1
  /\ \A e, f \in 0..n - 1 : line[e] = line[f] => e = f
  /\ \A k \in 0..m - 1 :
       \E C \in SUBSET (0..n - 1) : Closed(line, C) /\ C \cap (0..m - 1) = {k}
  /\ \A S \in SUBSET (0..n - 1) :
       S # {} /\ Closed(line, S) => S \cap (0..m - 1) # {}

\* A shuffle starts with each line leading to itself.
LEMMA ShuffleStarts ==
  ASSUME NEW n \in 0..NumArenaElem
  PROVE  Shuffling([e \in Elem |-> e], n, n)
<1> DEFINE id == [e \in Elem |-> e]
<1>1. \A e \in 0..n - 1 : id[e] = e BY ArenaAssumption DEF Elem
<1> HIDE DEF id
<1>2. ASSUME NEW k \in 0..n - 1
      PROVE  \E C \in SUBSET (0..n - 1) : Closed(id, C) /\ C \cap (0..n - 1) = {k}
  <2>1. {k} \in SUBSET (0..n - 1) /\ Closed(id, {k}) /\ {k} \cap (0..n - 1) = {k}
    BY <1>1 DEF Closed
  <2>2. QED BY <2>1
<1>3. Shuffling(id, n, n) BY <1>1, <1>2 DEF Shuffling
<1>4. QED BY <1>3 DEF id

\* An iteration that exchanges the links of two lines on different cycles
\* joins these cycles, and the line it takes needs no cycle of its own any
\* more.  (That j is below m - 1 is what makes the shuffle a Sattolo shuffle:
\* a line exchanged with itself would stay a cycle of its own.)
LEMMA ShuffleContinues ==
  ASSUME NEW line \in [Elem -> Elem], NEW n \in 0..NumArenaElem, NEW m \in 2..n,
         NEW j \in 0..m - 2, Shuffling(line, n, m)
  PROVE  Shuffling(Swapped(line, j, m - 1), n, m - 1)
<1> DEFINE D == 0..n - 1
           k == m - 1
           new == Swapped(line, j, k)
<1>1. /\ j \in Elem /\ k \in Elem /\ j \in D /\ k \in D /\ j # k
      /\ D \subseteq Elem
      /\ j \in 0..m - 1 /\ k \in 0..m - 1
      /\ 0..m - 1 = (0..m - 2) \cup {k} /\ k \notin 0..m - 2
      /\ m - 1 - 1 = m - 2
  <2>1. m \in Int /\ n \in Int /\ j \in Int /\ 2 <= m /\ m <= n /\ 0 <= j /\ j <= m - 2
        /\ n <= NumArenaElem /\ NumArenaElem \in Int
    BY ArenaAssumption
  <2>2. D \subseteq Elem BY <2>1 DEF Elem
  <2>3. j \in D /\ k \in D /\ j # k BY <2>1
  <2>4. 0..m - 1 = (0..m - 2) \cup {k} BY <2>1
  <2>5. QED BY <2>1, <2>2, <2>3, <2>4
<1>2. /\ new[j] = line[k] /\ new[k] = line[j]
      /\ \A e \in D : e # j /\ e # k => new[e] = line[e]
  BY <1>1 DEF Swapped
<1>3. /\ \A e \in D : line[e] \in D
      /\ \A e, f \in D : line[e] = line[f] => e = f
      /\ \A c \in 0..m - 1 :
           \E C \in SUBSET D : Closed(line, C) /\ C \cap (0..m - 1) = {c}
      /\ \A S \in SUBSET D : S # {} /\ Closed(line, S) => S \cap (0..m - 1) # {}
  BY DEF Shuffling
<1>4. PICK Cj \in SUBSET D : Closed(line, Cj) /\ Cj \cap (0..m - 1) = {j}
  BY <1>1, <1>3
<1>5. PICK Ck \in SUBSET D : Closed(line, Ck) /\ Ck \cap (0..m - 1) = {k}
  BY <1>1, <1>3
<1> HIDE DEF new, D, k
<1>6. \A e \in D : new[e] \in D BY <1>1, <1>2, <1>3
<1>7. \A e, f \in D : new[e] = new[f] => e = f
  <2>1. SUFFICES ASSUME NEW e \in D, NEW f \in D, new[e] = new[f] PROVE e = f
    OBVIOUS
  <2>2. CASE e = j BY <1>1, <1>2, <1>3, <2>1, <2>2
  <2>3. CASE e = k BY <1>1, <1>2, <1>3, <2>1, <2>3
  <2>4. CASE e # j /\ e # k BY <1>1, <1>2, <1>3, <2>1, <2>4
  <2>5. QED BY <2>2, <2>3, <2>4
<1>8. ASSUME NEW c \in 0..m - 2
      PROVE  \E C \in SUBSET D : Closed(new, C) /\ C \cap (0..m - 2) = {c}
  <2>1. CASE c = j
    <3>1. Closed(new, Cj \cup Ck)
      <4>1. SUFFICES ASSUME NEW e \in Cj \cup Ck PROVE new[e] \in Cj \cup Ck
        BY DEF Closed
      <4>2. j \in Cj /\ k \in Ck /\ line[j] \in Cj /\ line[k] \in Ck
        BY <1>4, <1>5 DEF Closed
      <4>3. line[e] \in Cj \cup Ck BY <1>4, <1>5, <4>1 DEF Closed
      <4>4. QED BY <1>2, <4>1, <4>2, <4>3
    <3>2. (Cj \cup Ck) \cap (0..m - 2) = {j} BY <1>1, <1>4, <1>5
    <3>3. QED BY <2>1, <3>1, <3>2
  <2>2. CASE c # j
    <3>1. PICK C \in SUBSET D : Closed(line, C) /\ C \cap (0..m - 1) = {c}
      BY <1>1, <1>3, <1>8
    <3>2. j \notin C /\ k \notin C BY <1>1, <1>8, <2>2, <3>1
    <3>3. Closed(new, C) BY <1>2, <3>1, <3>2 DEF Closed
    <3>4. C \cap (0..m - 2) = {c} BY <1>1, <1>8, <3>1
    <3>5. QED BY <3>3, <3>4
  <2>3. QED BY <2>1, <2>2
<1>9. ASSUME NEW S \in SUBSET D, S # {}, Closed(new, S)
      PROVE  S \cap (0..m - 2) # {}
  <2>1. SUFFICES ASSUME S \cap (0..m - 2) = {} PROVE FALSE OBVIOUS
  <2>2. j \notin S BY <1>1, <2>1
  <2>3. k \in S
    <3>1. SUFFICES ASSUME k \notin S PROVE FALSE OBVIOUS
    <3>2. Closed(line, S) BY <1>2, <1>9, <2>2, <3>1 DEF Closed
    <3>3. S \cap (0..m - 1) = {} BY <1>1, <2>1, <3>1
    <3>4. QED BY <1>3, <1>9, <3>2, <3>3
  <2> DEFINE T == Cj \cap S
  <2>4. line[j] \in T BY <1>2, <1>4, <1>9, <2>3 DEF Closed
  <2>5. k \notin T BY <1>1, <1>4
  <2>6. Closed(line, T)
    <3>1. SUFFICES ASSUME NEW e \in T PROVE line[e] \in T BY DEF Closed
    <3>2. line[e] \in Cj BY <1>4, <3>1 DEF Closed
    <3>3. new[e] \in S BY <1>9, <3>1 DEF Closed
    <3>4. new[e] = line[e] BY <1>2, <2>2, <2>5, <3>1
    <3>5. QED BY <3>2, <3>3, <3>4
  <2>7. T \cap (0..m - 1) = {} BY <1>1, <2>1, <2>5
  <2>8. T \in SUBSET D /\ T # {} BY <2>4
  <2>9. QED BY <1>3, <2>6, <2>7, <2>8
<1>10. Shuffling(new, n, m - 1) BY <1>1, <1>6, <1>7, <1>8, <1>9 DEF Shuffling, D
<1>11. QED BY <1>10 DEF new, k

\* A permutation of a finite set takes a closed set onto itself, so what is
\* outside it stays outside.
LEMMA ComplementClosed ==
  ASSUME NEW line, NEW D, NEW S \in SUBSET D, IsFiniteSet(D),
         Closed(line, D), \A e, f \in D : line[e] = line[f] => e = f,
         Closed(line, S)
  PROVE  Closed(line, D \ S)
<1> DEFINE f == [e \in S |-> line[e]]
<1>1. IsFiniteSet(S) BY FS_Subset
<1>2. f \in [S -> S] BY DEF Closed
<1>3. f \in Injection(S, S) BY <1>2 DEF Injection, IsInjective
<1>4. f \in Surjection(S, S) BY <1>1, <1>3, FS_Injection
<1>5. SUFFICES ASSUME NEW e \in D \ S, line[e] \in S PROVE FALSE BY DEF Closed
<1>6. PICK s \in S : f[s] = line[e] BY <1>4, <1>5 DEF Surjection
<1>7. line[s] = line[e] BY <1>6
<1>8. QED BY <1>5, <1>7

\* When at most one line is left, the links are one cycle.
LEMMA ShuffleEnds ==
  ASSUME NEW line, NEW n \in Nat, NEW m \in 0..1, Shuffling(line, n, m)
  PROVE  OneCycle(line, 0..n - 1)
<1> DEFINE D == 0..n - 1
<1>1. IsFiniteSet(D) BY FS_Interval
<1>2. /\ Closed(line, D)
      /\ \A e, f \in D : line[e] = line[f] => e = f
      /\ \A S \in SUBSET D : S # {} /\ Closed(line, S) => S \cap (0..m - 1) # {}
  BY DEF Shuffling, Closed
<1> HIDE DEF D
<1>3. 0..m - 1 \subseteq {0} OBVIOUS
<1>4. ASSUME NEW T \in SUBSET D, T # {}, Closed(line, T) PROVE T = D
  <2>1. 0 \in T BY <1>2, <1>3, <1>4
  <2>2. Closed(line, D \ T) BY <1>1, <1>2, <1>4, ComplementClosed
  <2>3. D \ T = {}
    <3>1. SUFFICES ASSUME D \ T # {} PROVE FALSE OBVIOUS
    <3>2. (D \ T) \cap (0..m - 1) # {} BY <1>2, <2>2, <3>1
    <3>3. QED BY <1>3, <2>1, <3>2
  <2>4. QED BY <2>3
<1>5. OneCycle(line, D) BY <1>2, <1>4 DEF OneCycle
<1>6. QED BY <1>5 DEF D

-----------------------------------------------------------------------------
(* A walk reads every line of its part of the arena once.                  *)

\* What init_arena has drawn so far, and has drawn when it is done.
Drawn ==
  /\ phase = "shuffle" =>
       /\ Shuffling(line0, NumArenaElem, i)
       /\ line1 = [e \in Elem |-> e]
  /\ phase = "shuffle_hot" =>
       /\ OneCycle(line0, Elem)
       /\ Shuffling(line1, NumHotElem, i)
       /\ i <= NumHotElem
  /\ phase \in {"idle", "walk", "walk_hot"} =>
       IF shuffle
       THEN OneCycle(line0, Elem) /\ OneCycle(line1, Hot)
       ELSE line0 = [e \in Elem |-> (e + 1) % NumArenaElem]

\* The lines the walk has read.
ReadLines == {e \in Elem : reads[e] # 0}

\* A walk along a cycle: it has read i lines once, and the link of each leads
\* to another of them or to the one it reads next.
Following(line) ==
  /\ \A e \in Elem : reads[e] \in {0, 1}
  /\ Cardinality(ReadLines) = i
  /\ \A e \in ReadLines : line[e] \in ReadLines \cup {next}

\* A walk through an unshuffled arena has read the first i lines.
InOrder == \A e \in Elem : reads[e] = IF e < i THEN 1 ELSE 0

Underway ==
  /\ phase = "walk" =>
       IF shuffle THEN Following(line0) ELSE InOrder /\ next = i % NumArenaElem
  /\ phase = "walk_hot" =>
       IF shuffle
       THEN Following(line1) /\ ReadLines \subseteq Hot /\ (Hot # {} => next \in Hot)
       ELSE InOrder

\* Before the end of its cycle the walk comes to a line it has not read:
\* otherwise the lines it has read would be closed.
LEMMA WalkContinues ==
  ASSUME NEW line, NEW S \in SUBSET Elem, OneCycle(line, S),
         TypeOK, Following(line), ReadLines \subseteq S, next \in S,
         i < Cardinality(S), next' = line[next], i' = i + 1,
         reads' = [e \in Elem |-> IF e = next THEN reads[e] + 1 ELSE reads[e]]
  PROVE  Following(line)' /\ ReadLines' \subseteq S /\ next' \in S
<1>1. IsFiniteSet(Elem) /\ IsFiniteSet(S) /\ IsFiniteSet(ReadLines)
  <2>1. NumArenaElem \in Int BY ArenaAssumption
  <2>2. IsFiniteSet(Elem) BY <2>1, FS_Interval DEF Elem
  <2>3. QED BY <2>2, FS_Subset DEF ReadLines
<1>2. ReadLines # S BY DEF Following, TypeOK
<1>3. next \notin ReadLines
  <2>1. SUFFICES ASSUME next \in ReadLines PROVE FALSE OBVIOUS
  <2>2. Closed(line, ReadLines) BY <2>1 DEF Following, Closed
  <2>3. QED BY <1>2, <2>1, <2>2 DEF OneCycle
<1>4. reads[next] = 0 /\ reads'[next] = 1 BY <1>3 DEF ReadLines
<1>5. \A e \in Elem : reads'[e] = IF e = next THEN 1 ELSE reads[e] BY <1>4
<1>6. ReadLines' = ReadLines \cup {next} BY <1>5 DEF ReadLines
<1>7. Cardinality(ReadLines') = i'
  BY <1>1, <1>3, <1>6, FS_AddElement DEF Following
<1>8. \A e \in ReadLines' : line[e] \in ReadLines' \cup {next'}
  BY <1>6 DEF Following
<1>9. next' \in S BY DEF OneCycle, Closed
<1>10. QED BY <1>5, <1>6, <1>7, <1>8, <1>9 DEF Following

\* A walk that has read nothing yet.
LEMMA WalkStarts ==
  ASSUME TypeOK, reads' = [e \in Elem |-> 0], i' = 0
  PROVE  /\ \A line : Following(line)'
         /\ ReadLines' = {}
         /\ InOrder'
<1>1. ReadLines' = {} BY DEF ReadLines
<1>2. \A e \in Elem : reads'[e] = 0 /\ ~(e < 0) BY ArenaAssumption DEF Elem
<1>3. QED BY <1>1, <1>2, FS_EmptySet DEF Following, InOrder

\* A step of an in-order walk.
LEMMA InOrderContinues ==
  ASSUME TypeOK, InOrder, next = i % NumArenaElem, i < NumArenaElem, i' = i + 1,
         reads' = [e \in Elem |-> IF e = next THEN reads[e] + 1 ELSE reads[e]]
  PROVE  InOrder'
<1>1. i \in Elem BY ArenaAssumption DEF TypeOK, Elem
<1>2. next = i BY <1>1, ModElem
<1>3. \A e \in Elem : e \in Int BY DEF Elem
<1>4. QED BY <1>1, <1>2, <1>3 DEF InOrder, TypeOK

\* randrange(0, i - 1) for the limits of the shuffle: a line below i - 1.
LEMMA DrawsBelow ==
  ASSUME NumArenaElem * NumArenaElem <= RAND_MAX, NEW m \in 2..NumArenaElem
  PROVE  RandRange(m - 1) \subseteq 0..m - 2
<1>1. NumArenaElem \in Nat /\ m - 1 \in Nat \ {0} /\ m - 1 <= NumArenaElem
      /\ m - 1 - 1 = m - 2
  BY ArenaAssumption
<1>2. (m - 1) * (m - 1) <= (m - 1) * NumArenaElem BY <1>1, MulMono
<1>3. NumArenaElem * (m - 1) <= NumArenaElem * NumArenaElem BY <1>1, MulMono
<1>4. (m - 1) * NumArenaElem = NumArenaElem * (m - 1) BY <1>1, Z3
<1>5. (m - 1) * (m - 1) \in Nat /\ (m - 1) * NumArenaElem \in Nat
      /\ NumArenaElem * NumArenaElem \in Nat /\ RAND_MAX \in Nat
  BY <1>1, ArenaAssumption
<1>6. (m - 1) * (m - 1) <= RAND_MAX BY <1>2, <1>3, <1>4, <1>5
<1>7. QED BY <1>1, <1>6, RandRangeInRange

LEMMA DrawnNext ==
  ASSUME IInv, Drawn, [Next]_vars, NumArenaElem * NumArenaElem <= RAND_MAX
  PROVE  Drawn'
<1>1. NumArenaElem \in Nat \ {0} /\ NumHotElem \in 0..NumArenaElem /\ RAND_MAX \in Nat
  BY ArenaAssumption
<1>2. CASE FillInOrder BY <1>2 DEF FillInOrder, Drawn
<1>3. CASE FillShuffled
  <2>1. Shuffling(line0', NumArenaElem, NumArenaElem)
    BY <1>1, <1>3, ShuffleStarts DEF FillShuffled
  <2>2. QED BY <1>3, <2>1 DEF FillShuffled, Drawn
<1>4. CASE ShuffleStep
  <2>1. PICK j \in RandRange(i - 1) :
          /\ phase' = IF j \in Elem THEN phase ELSE "overrun"
          /\ line0' = Swapped(line0, j, i - 1)
    BY <1>4 DEF ShuffleStep
  <2>2. i \in 2..NumArenaElem /\ i' = i - 1 /\ phase = "shuffle"
        /\ UNCHANGED <<shuffle, line1, next, reads>>
    BY <1>1, <1>4 DEF ShuffleStep, IInv, TypeOK
  <2>3. j \in 0..i - 2 BY <1>1, <2>2, DrawsBelow
  <2>4. j \in Elem BY <1>1, <2>2, <2>3 DEF Elem
  <2>5. line0 \in [Elem -> Elem] BY <2>2 DEF IInv, Linked
  <2>6. Shuffling(line0', NumArenaElem, i')
    BY <1>1, <2>1, <2>2, <2>3, <2>5, ShuffleContinues DEF Drawn
  <2>7. QED BY <2>1, <2>2, <2>4, <2>6 DEF Drawn
<1>5. CASE ShuffleEnd
  <2>1. i \in 0..1 /\ phase = "shuffle" /\ phase' = "shuffle_hot" /\ i' = NumHotElem
        /\ UNCHANGED <<shuffle, line0, line1>>
    BY <1>1, <1>5 DEF ShuffleEnd, IInv, TypeOK
  <2>2. OneCycle(line0, Elem) BY <1>1, <2>1, ShuffleEnds DEF Drawn, Elem
  <2>3. Shuffling(line1, NumHotElem, NumHotElem)
    BY <1>1, <2>1, ShuffleStarts DEF Drawn
  <2>4. QED BY <1>1, <2>1, <2>2, <2>3 DEF Drawn
<1>6. CASE HotShuffleStep
  <2>1. PICK j \in RandRange(i - 1) :
          /\ phase' = IF j \in Elem THEN phase ELSE "overrun"
          /\ line1' = Swapped(line1, j, i - 1)
    BY <1>6 DEF HotShuffleStep
  <2>2. i \in 2..NumHotElem /\ i' = i - 1 /\ phase = "shuffle_hot"
        /\ UNCHANGED <<shuffle, line0, next, reads>>
    BY <1>1, <1>6 DEF HotShuffleStep, IInv, TypeOK, Drawn
  <2>3. j \in 0..i - 2 BY <1>1, <2>2, DrawsBelow
  <2>4. j \in Elem BY <1>1, <2>2, <2>3 DEF Elem
  <2>5. line1 \in [Elem -> Elem] BY <2>2 DEF IInv, Linked, Walking
  <2>6. Shuffling(line1', NumHotElem, i')
    BY <1>1, <2>1, <2>2, <2>3, <2>5, ShuffleContinues DEF Drawn
  <2>7. i' <= NumHotElem BY <1>1, <2>2
  <2>8. QED BY <2>1, <2>2, <2>4, <2>6, <2>7 DEF Drawn
<1>7. CASE HotShuffleEnd
  <2>1. i \in 0..1 /\ phase = "shuffle_hot" /\ phase' = "idle" /\ shuffle
        /\ UNCHANGED <<shuffle, line0, line1>>
    BY <1>1, <1>7 DEF HotShuffleEnd, IInv, TypeOK, Walking
  <2>2. OneCycle(line1, Hot) BY <1>1, <2>1, ShuffleEnds DEF Drawn, Hot
  <2>3. QED BY <2>1, <2>2 DEF Drawn
<1>8. ASSUME NEW start \in {0} \cup CachelineStart, StartWalk("walk", start)
      PROVE  Drawn'
  BY <1>8 DEF StartWalk, Drawn
<1>9. CASE StartWalk("walk_hot", 0) BY <1>9 DEF StartWalk, Drawn
<1>10. CASE Walk BY <1>10 DEF Walk, Drawn, IInv, Walking
<1>11. CASE WalkHot BY <1>11 DEF WalkHot, Drawn, IInv, Walking
<1>12. CASE EndWalk BY <1>12 DEF EndWalk, Drawn
<1>13. CASE UNCHANGED vars BY <1>13 DEF vars, Drawn
<1>14. QED
  BY <1>2, <1>3, <1>4, <1>5, <1>6, <1>7, <1>8, <1>9, <1>10, <1>11, <1>12, <1>13 DEF Next

LEMMA UnderwayNext ==
  ASSUME IInv, Drawn, Underway, [Next]_vars, NumArenaElem * NumArenaElem <= RAND_MAX
  PROVE  Underway'
<1>1. NumArenaElem \in Nat \ {0} /\ NumHotElem \in 0..NumArenaElem /\ RAND_MAX \in Nat
      /\ TypeOK
  BY ArenaAssumption DEF IInv
<1>2. CASE \/ FillInOrder \/ FillShuffled \/ ShuffleStep \/ ShuffleEnd
           \/ HotShuffleStep \/ HotShuffleEnd \/ EndWalk
  BY <1>2 DEF FillInOrder, FillShuffled, ShuffleStep, ShuffleEnd, HotShuffleStep,
              HotShuffleEnd, EndWalk, Underway
<1>3. ASSUME NEW start \in {0} \cup CachelineStart, StartWalk("walk", start)
      PROVE  Underway'
  <2>1. /\ phase' = "walk" /\ i' = 0 /\ next' = start /\ shuffle' = shuffle
        /\ reads' = [e \in Elem |-> 0]
        /\ ~shuffle => start = 0
    BY <1>3 DEF StartWalk, CachelineStart
  <2>2. (\A line : Following(line)') /\ InOrder' BY <1>1, <2>1, WalkStarts
  <2>3. Following(line0)' BY <2>2 DEF Following
  <2>4. 0 % NumArenaElem = 0 BY <1>1, ModElem DEF Elem
  <2>5. QED BY <2>1, <2>2, <2>3, <2>4 DEF Underway
<1>4. CASE StartWalk("walk_hot", 0)
  <2>1. /\ phase' = "walk_hot" /\ i' = 0 /\ next' = 0 /\ shuffle' = shuffle
        /\ reads' = [e \in Elem |-> 0]
    BY <1>4 DEF StartWalk
  <2>2. (\A line : Following(line)') /\ InOrder' /\ ReadLines' = {}
    BY <1>1, <2>1, WalkStarts
  <2>3. Following(line1)' BY <2>2 DEF Following
  <2>4. Hot # {} => 0 \in Hot BY <1>1 DEF Hot
  <2>5. QED BY <2>1, <2>2, <2>3, <2>4 DEF Underway
<1>5. CASE Walk
  <2>1. next \in Elem BY <1>5 DEF Walk, IInv, Walking
  <2>2. /\ phase = "walk" /\ i < NumArenaElem /\ phase' = phase /\ next' = line0[next]
        /\ reads' = [e \in Elem |-> IF e = next THEN reads[e] + 1 ELSE reads[e]]
        /\ i' = i + 1 /\ UNCHANGED <<shuffle, line0, line1>>
    BY <1>5, <2>1 DEF Walk
  <2>3. CASE shuffle
    <3>1. OneCycle(line0, Elem) /\ Following(line0) /\ ReadLines \subseteq Elem
      BY <2>2, <2>3 DEF Drawn, Underway, ReadLines
    <3>2. Cardinality(Elem) = NumArenaElem BY <1>1, FS_Interval DEF Elem
    <3>3. Following(line0)' BY <1>1, <2>1, <2>2, <3>1, <3>2, WalkContinues
    <3>4. QED BY <2>2, <2>3, <3>3 DEF Underway
  <2>4. CASE ~shuffle
    <3>1. InOrder /\ next = i % NumArenaElem BY <2>2, <2>4 DEF Underway
    <3>2. i \in Elem BY <1>1, <2>2 DEF TypeOK, Elem
    <3>3. next' = i' % NumArenaElem BY <2>1, <2>2, <2>4, <3>1, <3>2, ModElem DEF Drawn
    <3>4. InOrder' BY <1>1, <2>2, <3>1, InOrderContinues
    <3>5. QED BY <2>2, <2>4, <3>3, <3>4 DEF Underway
  <2>5. QED BY <2>3, <2>4
<1>6. CASE WalkHot
  <2>1. next \in Elem BY <1>6 DEF WalkHot, IInv, Walking
  <2>2. /\ phase = "walk_hot" /\ i < NumHotElem /\ phase' = phase /\ next' = line1[next]
        /\ reads' = [e \in Elem |-> IF e = next THEN reads[e] + 1 ELSE reads[e]]
        /\ i' = i + 1 /\ UNCHANGED <<shuffle, line0, line1>>
    BY <1>6, <2>1 DEF WalkHot
  <2>3. CASE shuffle
    <3>1. OneCycle(line1, Hot) /\ Following(line1) /\ ReadLines \subseteq Hot
          /\ (Hot # {} => next \in Hot)
      BY <2>2, <2>3 DEF Drawn, Underway
    <3>2. Cardinality(Hot) = NumHotElem BY <1>1, FS_Interval DEF Hot
    <3>3. Hot # {} /\ Hot \subseteq Elem
      <4>1. 0 \in Hot BY <1>1, <2>2 DEF Hot, TypeOK
      <4>2. Hot \subseteq Elem BY <1>1 DEF Hot, Elem
      <4>3. QED BY <4>1, <4>2
    <3>4. Following(line1)' /\ ReadLines' \subseteq Hot /\ next' \in Hot
      BY <1>1, <2>1, <2>2, <3>1, <3>2, <3>3, WalkContinues
    <3>5. QED BY <2>2, <2>3, <3>4 DEF Underway
  <2>4. CASE ~shuffle
    <3>1. InOrder /\ next = i % NumArenaElem
      BY <2>2, <2>4 DEF Underway, IInv, Walking
    <3>2. i < NumArenaElem BY <1>1, <2>2 DEF TypeOK
    <3>3. InOrder' BY <1>1, <2>2, <3>1, <3>2, InOrderContinues
    <3>4. QED BY <2>2, <2>4, <3>3 DEF Underway
  <2>5. QED BY <2>3, <2>4
<1>7. CASE UNCHANGED vars
  BY <1>7 DEF vars, Underway, Following, ReadLines, InOrder
<1>8. QED BY <1>2, <1>3, <1>4, <1>5, <1>6, <1>7 DEF Next

\* What the invariant says of a walk that has ended.
LEMMA WalkReadsAll ==
  ASSUME IInv, Drawn, Underway
  PROVE  EnumeratesArena /\ EnumeratesHot
<1>1. NumArenaElem \in Nat \ {0} /\ NumHotElem \in 0..NumArenaElem /\ TypeOK
  BY ArenaAssumption DEF IInv
<1>2. IsFiniteSet(Elem) /\ Cardinality(Elem) = NumArenaElem BY <1>1, FS_Interval DEF Elem
<1>3. IsFiniteSet(Hot) /\ Cardinality(Hot) = NumHotElem BY <1>1, FS_Interval DEF Hot
<1>4. ReadLines \subseteq Elem BY DEF ReadLines
<1>5. EnumeratesArena
  <2>1. SUFFICES ASSUME phase = "walk", i = NumArenaElem PROVE \A e \in Elem : reads[e] = 1
    BY DEF EnumeratesArena
  <2>2. CASE shuffle
    <3>1. Following(line0) BY <2>1, <2>2 DEF Underway
    <3>2. ReadLines = Elem BY <1>2, <1>4, <2>1, <3>1, FS_Subset DEF Following
    <3>3. QED BY <3>1, <3>2 DEF Following, ReadLines
  <2>3. CASE ~shuffle
    <3>1. InOrder BY <2>1, <2>3 DEF Underway
    <3>2. \A e \in Elem : e < NumArenaElem BY <1>1 DEF Elem
    <3>3. QED BY <2>1, <3>1, <3>2 DEF InOrder
  <2>4. QED BY <2>2, <2>3
<1>6. EnumeratesHot
  <2>1. SUFFICES ASSUME phase = "walk_hot", i = NumHotElem
                 PROVE \A e \in Elem : reads[e] = IF e \in Hot THEN 1 ELSE 0
    BY DEF EnumeratesHot
  <2>2. CASE shuffle
    <3>1. Following(line1) /\ ReadLines \subseteq Hot BY <2>1, <2>2 DEF Underway
    <3>2. ReadLines = Hot BY <1>3, <2>1, <3>1, FS_Subset DEF Following
    <3>3. QED BY <3>1, <3>2 DEF Following, ReadLines
  <2>3. CASE ~shuffle
    <3>1. InOrder BY <2>1, <2>3 DEF Underway
    <3>2. \A e \in Elem : e < NumHotElem <=> e \in Hot BY <1>1 DEF Elem, Hot
    <3>3. QED BY <2>1, <3>1, <3>2 DEF InOrder
  <2>4. QED BY <2>2, <2>3
<1>7. QED BY <1>5, <1>6

LEMMA WalkInvariant ==
  ASSUME NumArenaElem * NumArenaElem <= RAND_MAX
  PROVE  Spec => [](IInv /\ Drawn /\ Underway)
<1>1. Init => IInv /\ Drawn /\ Underway BY InitInv DEF Init, Drawn, Underway
<1>2. IInv /\ Drawn /\ Underway /\ [Next]_vars => (IInv /\ Drawn /\ Underway)'
  BY NextInv, DrawnNext, UnderwayNext
<1>3. QED BY <1>1, <1>2, PTL DEF Spec

\* A walk through the whole arena reads every line exactly once, shuffled or
\* not, whatever rand() drew and wherever it starts.
THEOREM WalksArena ==
  ASSUME NumArenaElem * NumArenaElem <= RAND_MAX
  PROVE  Spec => []EnumeratesArena
<1>1. IInv /\ Drawn /\ Underway => EnumeratesArena BY WalkReadsAll
<1>2. Spec => [](IInv /\ Drawn /\ Underway) BY WalkInvariant
<1>3. QED BY <1>1, <1>2, PTL

\* A hot walk reads every hot line exactly once, and no other line.
THEOREM WalksHot ==
  ASSUME NumArenaElem * NumArenaElem <= RAND_MAX
  PROVE  Spec => []EnumeratesHot
<1>1. IInv /\ Drawn /\ Underway => EnumeratesHot BY WalkReadsAll
<1>2. Spec => [](IInv /\ Drawn /\ Underway) BY WalkInvariant
<1>3. QED BY <1>1, <1>2, PTL
=============================================================================
