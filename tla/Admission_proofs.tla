--------------------------- MODULE Admission_proofs ---------------------------
(***************************************************************************)
(* Proofs about CpuMapping and Admission.                                  *)
(*                                                                         *)
(* - read_mapping() makes of the text of a file the mask that the kernel   *)
(*   wrote, for any width of digits, groups and words (ReadsMask).         *)
(* - Every actor follows its plan: what it still has to do is the rest of  *)
(*   the plan of its kind (PlanInv), so where it is in its plan is a       *)
(*   number, and the invariants below are about these numbers.             *)
(* - TurnInv relates the places of a parent and its child, the token and   *)
(*   the child's policy.  A child that was not late is at its read when    *)
(*   its parent goes on (OnTime), and real-time tasks are on processors of *)
(*   their domain (Placed); InTurn follows (TakesTurns).                   *)
(* - WayInv says what a task has found out, where it is and what the       *)
(*   kernel knows at each place of its plan; MappingInv, InAskedDomain     *)
(*   and, on machines with a plain numbering, NotRefused follow            *)
(*   (SendsToDomain, AdmittedWhereAsked, AdmitsWhoCanBe).                  *)
(***************************************************************************)
EXTENDS Admission, SequenceTheorems, FiniteSetTheorems, WellFoundedInduction, TLAPS

-----------------------------------------------------------------------------
(* Arithmetic.                                                             *)

\* Products are monotonic.
LEMMA MulMono ==
  ASSUME NEW a \in Nat, NEW b \in Nat, NEW c \in Nat, a <= b
  PROVE  c * a <= c * b
  BY Z3

\* Quotient and remainder of a number.
LEMMA DivBounds ==
  ASSUME NEW n \in Nat, NEW m \in Nat \ {0}
  PROVE  /\ n \div m \in Nat /\ n % m \in 0..m - 1
         /\ n = m * (n \div m) + (n % m)
  BY Z3

\* They are unique.
LEMMA DivMod ==
  ASSUME NEW m \in Nat \ {0}, NEW k \in Nat, NEW j \in 0..m - 1
  PROVE  (m * k + j) \div m = k /\ (m * k + j) % m = j
<1> DEFINE n == m * k + j
<1>1. n \in Nat BY Z3
<1> DEFINE k2 == n \div m
           j2 == n % m
<1>2. k2 \in Nat /\ j2 \in 0..m - 1 /\ n = m * k2 + j2 BY <1>1, DivBounds
<1>3. m * k + j = m * k2 + j2 BY <1>2
<1> HIDE DEF n, k2, j2
<1>4. m * k \in Nat /\ m * k2 \in Nat BY <1>2
<1>5. CASE k < k2
  <2>1. k + 1 <= k2 BY <1>2, <1>5
  <2>2. m * (k + 1) <= m * k2 BY <1>2, <2>1, MulMono
  <2>3. m * (k + 1) = m * k + m BY Z3
  <2>4. QED BY <1>2, <1>3, <1>4, <2>2, <2>3
<1>6. CASE k2 < k
  <2>1. k2 + 1 <= k BY <1>2, <1>6
  <2>2. m * (k2 + 1) <= m * k BY <1>2, <2>1, MulMono
  <2>3. m * (k2 + 1) = m * k2 + m BY <1>2, Z3
  <2>4. QED BY <1>2, <1>3, <1>4, <2>2, <2>3
<1>7. CASE k2 = k
  <2>1. j2 = j BY <1>2, <1>3, <1>4, <1>7
  <2>2. QED BY <1>7, <2>1 DEF k2, j2, n
<1>8. QED BY <1>2, <1>5, <1>6, <1>7

\* A set of natural numbers has a smallest one.
LEMMA MinIs ==
  ASSUME NEW S \in SUBSET Nat, S # {}
  PROVE  Min(S) \in S /\ \A x \in S : Min(S) <= x
<1> DEFINE R == {pair \in Nat \X Nat : pair[1] < pair[2]}
<1>1. IsWellFoundedOn(R, Nat) BY NatLessThanWellFounded DEF OpToRel
<1>2. \E x \in S : \A y \in S : ~(<<y, x>> \in R)
  <2> HIDE DEF R
  <2>1. QED BY <1>1, WFMin
<1>3. PICK x \in S : \A y \in S : ~(<<y, x>> \in R) BY <1>2
<1>4. ASSUME NEW y \in S PROVE x <= y
  <2>1. <<y, x>> \in Nat \X Nat /\ <<y, x>>[1] = y /\ <<y, x>>[2] = x OBVIOUS
  <2>2. ~(y < x)
    <3> DEFINE p == <<y, x>>
    <3>1. p \notin R BY <1>3
    <3>2. p \in Nat \X Nat BY <2>1
    <3>3. ~(p[1] < p[2]) BY <3>1, <3>2
    <3>4. QED BY <2>1, <3>3
  <2>3. QED BY <2>2
<1>5. QED BY <1>4 DEF Min

-----------------------------------------------------------------------------
(* What read_mapping() reads is what the kernel writes.                    *)

LEMMA Sizes ==
  /\ GroupChars \in Nat \ {0} /\ CharBits \in Nat \ {0} /\ WordBits \in Nat \ {0}
  /\ GroupChars + 1 \in Nat \ {0}
  BY CpuMappingAssumption

\* A text of so many digits has q full groups to the right of the first group,
\* which has r digits.
LEMMA Groups ==
  ASSUME NEW n \in Nat \ {0}
  PROVE  \E q \in Nat : \E r \in 1..GroupChars :
           /\ n = GroupChars * q + r
           /\ n + (n - 1) \div GroupChars = (GroupChars + 1) * q + r
<1> DEFINE q == (n - 1) \div GroupChars
           e == (n - 1) % GroupChars
<1>0. n - 1 \in Nat OBVIOUS
<1>1. q \in Nat /\ e \in 0..GroupChars - 1 /\ n - 1 = GroupChars * q + e
  BY <1>0, Sizes, DivBounds
<1> HIDE DEF q, e
<1>2. GroupChars * q \in Nat BY <1>1, Sizes
<1>3. e + 1 \in 1..GroupChars BY <1>1, Sizes
<1>4. n = GroupChars * q + (e + 1) BY <1>1, <1>2
<1>5. (GroupChars + 1) * q = GroupChars * q + q BY <1>1, Sizes, Z3
<1>6. n + q = (GroupChars + 1) * q + (e + 1) BY <1>1, <1>2, <1>4, <1>5
<1>7. QED BY <1>1, <1>3, <1>4, <1>6 DEF q

\* What such a text is, counted from the right: GroupChars digits and a comma.
IsText(T, m, q, r) ==
  /\ Len(T) = (GroupChars + 1) * q + r
  /\ \A i \in Nat, d \in 0..GroupChars :
       (GroupChars + 1) * i + d < Len(T) =>
         T[Len(T) - ((GroupChars + 1) * i + d)] =
           IF d = GroupChars THEN Comma
           ELSE {b \in 0..CharBits-1 : (i * GroupChars + d) * CharBits + b \in m}

LEMMA TextIs ==
  ASSUME NEW m, NEW q \in Nat, NEW r \in 1..GroupChars, NEW n \in Nat \ {0},
         n = GroupChars * q + r,
         n + (n - 1) \div GroupChars = (GroupChars + 1) * q + r
  PROVE  IsText(MaskText(m, n), m, q, r)
<1> DEFINE L == n + (n - 1) \div GroupChars
           Char(x) == LET digit == (x \div (GroupChars + 1)) * GroupChars + (x % (GroupChars + 1))
                      IN  IF (x % (GroupChars + 1)) = GroupChars
                          THEN Comma
                          ELSE {b \in 0..CharBits-1 : digit * CharBits + b \in m}
           T == [p \in 1..L |-> Char(L - p)]
<1>1. MaskText(m, n) = T BY DEF MaskText
<1>2. L \in Nat
  <2>1. (GroupChars + 1) * q \in Nat BY Sizes
  <2>2. QED BY <2>1
<1> HIDE DEF L
<1>3. Len(T) = L BY <1>2
<1>4. ASSUME NEW i \in Nat, NEW d \in 0..GroupChars, (GroupChars + 1) * i + d < L
      PROVE  T[L - ((GroupChars + 1) * i + d)] =
               IF d = GroupChars THEN Comma
               ELSE {b \in 0..CharBits-1 : (i * GroupChars + d) * CharBits + b \in m}
  <2> DEFINE x == (GroupChars + 1) * i + d
  <2>1. (GroupChars + 1) * i \in Nat BY Sizes
  <2>2. x \in Nat /\ x < L BY <1>4, <2>1, Sizes
  <2>3. x \div (GroupChars + 1) = i /\ x % (GroupChars + 1) = d
    <3>1. d \in 0..(GroupChars + 1) - 1 BY Sizes
    <3>2. QED BY <3>1, Sizes, DivMod
  <2>4. Char(x) = IF d = GroupChars THEN Comma
                  ELSE {b \in 0..CharBits-1 : (i * GroupChars + d) * CharBits + b \in m}
    BY <2>3
  <2> HIDE DEF x, Char
  <2>5. L - x \in 1..L /\ L - (L - x) = x BY <1>2, <2>2
  <2>6. T[L - x] = Char(x) BY <2>5
  <2>7. QED BY <2>4, <2>6 DEF x
<1>5. Len(T) = (GroupChars + 1) * q + r BY <1>3 DEF L
<1> HIDE DEF T
<1>6. IsText(T, m, q, r) BY <1>3, <1>4, <1>5 DEF IsText
<1>7. QED BY <1>1, <1>6

\* Where the chunks of the text begin.
LEMMA ChunkAt ==
  ASSUME NEW q \in Nat, NEW r \in 1..GroupChars, NEW i \in Nat
  PROVE  ChunkStr((GroupChars + 1) * q + r, i) =
           IF i < q THEN (GroupChars + 1) * (q - i) + r - GroupChars ELSE 0
<1> DEFINE x == ((GroupChars + 1) * q + r) - GroupChars - (GroupChars + 1) * i
<1>1. (GroupChars + 1) * q \in Nat /\ (GroupChars + 1) * i \in Nat BY Sizes
<1>2. x \in Int BY <1>1, Sizes
<1>3. Max({0, x}) = IF x > 0 THEN x ELSE 0
  <2> HIDE DEF x
  <2>1. \A y \in {0, x} : (IF x > 0 THEN x ELSE 0) >= y BY <1>2
  <2>2. \A y \in {0, x} : (\A z \in {0, x} : y >= z) => y = (IF x > 0 THEN x ELSE 0)
    BY <1>2
  <2>3. QED BY <1>2, <2>1, <2>2 DEF Max
<1>4. ChunkStr((GroupChars + 1) * q + r, i) = IF x > 0 THEN x ELSE 0
  BY <1>3, Zenon DEF ChunkStr
<1>5. CASE i < q
  <2>1. (GroupChars + 1) * (q - i) = (GroupChars + 1) * q - (GroupChars + 1) * i
    BY Sizes, Z3
  <2>2. q - i \in Nat /\ 1 <= q - i BY <1>5
  <2>3. (GroupChars + 1) * 1 <= (GroupChars + 1) * (q - i) BY <2>2, Sizes, MulMono
  <2>4. x = (GroupChars + 1) * (q - i) + r - GroupChars BY <1>1, <2>1, Sizes
  <2>5. x > 0 BY <1>1, <2>1, <2>3, Sizes
  <2> HIDE DEF x
  <2>6. QED BY <1>4, <1>5, <2>4, <2>5
<1>6. CASE q <= i
  <2>1. (GroupChars + 1) * q <= (GroupChars + 1) * i BY <1>6, Sizes, MulMono
  <2>2. ~(x > 0) BY <1>1, <2>1, Sizes
  <2>3. ~(i < q) BY <1>6
  <2> HIDE DEF x
  <2>4. QED BY <1>4, <2>2, <2>3
<1>7. QED BY <1>5, <1>6

\* The loop goes through the full groups and the first one, and no further.
LEMMA IterationsAre ==
  ASSUME NEW q \in Nat, NEW r \in 1..GroupChars
  PROVE  Iterations((GroupChars + 1) * q + r) = 0..q
<1> DEFINE L == (GroupChars + 1) * q + r
<1>1. L \in Nat /\ q <= L
  <2>1. q * 1 <= q * (GroupChars + 1) BY Sizes, MulMono
  <2>2. q * (GroupChars + 1) = (GroupChars + 1) * q /\ (GroupChars + 1) * q \in Nat
    BY Sizes, Z3
  <2>3. QED BY <2>1, <2>2, Sizes
<1>2. ASSUME NEW i \in Nat \ {0} PROVE ChunkStr(L, i - 1) >= 1 <=> i - 1 < q
  <2>1. i - 1 \in Nat OBVIOUS
  <2>2. ChunkStr(L, i - 1) =
          IF i - 1 < q THEN (GroupChars + 1) * (q - (i - 1)) + r - GroupChars ELSE 0
    BY <2>1, ChunkAt
  <2>3. CASE i - 1 < q
    <3> DEFINE y == (GroupChars + 1) * (q - (i - 1))
    <3>1. q - (i - 1) \in Nat /\ 1 <= q - (i - 1) BY <2>1, <2>3
    <3>2. (GroupChars + 1) * 1 <= y BY <3>1, Sizes, MulMono
    <3>3. y \in Nat BY <3>1, Sizes
    <3> HIDE DEF y
    <3>4. y + r - GroupChars >= 1 BY <3>2, <3>3, Sizes
    <3>5. QED BY <2>2, <2>3, <3>4 DEF y
  <2>4. CASE ~(i - 1 < q) BY <2>2, <2>4
  <2>5. QED BY <2>3, <2>4
<1> HIDE DEF L
<1>3. \A i \in 0..L : (i = 0 \/ ChunkStr(L, i - 1) >= 1) <=> i \in 0..q
  <2>1. ASSUME NEW i \in 0..L, i # 0 PROVE ChunkStr(L, i - 1) >= 1 <=> i \in 0..q
    <3>1. i \in Nat \ {0} BY <1>1, <2>1
    <3>2. i - 1 < q <=> i \in 0..q BY <3>1
    <3>3. QED BY <1>2, <3>1, <3>2
  <2>2. 0 \in 0..q OBVIOUS
  <2>3. QED BY <2>1, <2>2
<1>4. \A i \in 0..q : i \in 0..L BY <1>1
<1>5. Iterations(L) = 0..q BY <1>3, <1>4 DEF Iterations
<1>6. QED BY <1>5 DEF L

\* Where a chunk that begins at a position may stop: strtoul() stops at the first
\* of these.
Stops(T, from) == {Len(T)} \cup {p \in from..Len(T)-1 : T[p + 1] = Comma}
StopOf(q, r, i) == (GroupChars + 1) * (q - i) + r

\* What the comma behind a chunk, or the end of the text, cuts off.
StopsAt(T, q, r, i) ==
  /\ Min(Stops(T, ChunkStr(Len(T), i))) = StopOf(q, r, i)
  /\ StopOf(q, r, i) = Len(T) - (GroupChars + 1) * i
  /\ StopOf(q, r, i) \in 0..Len(T)
  /\ ChunkStr(Len(T), i) = IF i = q THEN 0 ELSE StopOf(q, r, i) - GroupChars
  /\ ChunkStr(Len(T), i) \in Nat
  /\ StopOf(q, r, q) = r

LEMMA StopAt ==
  ASSUME NEW T, NEW m, NEW q \in Nat, NEW r \in 1..GroupChars, IsText(T, m, q, r),
         NEW i \in 0..q
  PROVE  StopsAt(T, q, r, i)
<1> DEFINE L == Len(T)
           c == (GroupChars + 1) * i
           from == ChunkStr(L, i)
           stop == L - c
           commas == {p \in from..L-1 : T[p + 1] = Comma}
<1>1. L = (GroupChars + 1) * q + r BY DEF IsText
<1>2. L \in Nat /\ c \in Nat /\ i \in Nat
  <2>1. (GroupChars + 1) * q \in Nat BY Sizes
  <2>2. QED BY <1>1, <2>1, Sizes
<1>3. from = IF i < q THEN (GroupChars + 1) * (q - i) + r - GroupChars ELSE 0
  BY <1>1, <1>2, ChunkAt
<1>4. (GroupChars + 1) * (q - i) = (GroupChars + 1) * q - c /\ (GroupChars + 1) * q \in Nat
  BY Sizes, Z3
<1>5. i < q => from = stop - GroupChars /\ from \in Nat /\ 1 <= from
  <2>1. CASE i < q
    <3>1. q - i \in Nat /\ 1 <= q - i BY <2>1
    <3>2. (GroupChars + 1) * 1 <= (GroupChars + 1) * (q - i) BY <3>1, Sizes, MulMono
    <3> HIDE DEF c, L, from
    <3>3. QED BY <1>1, <1>2, <1>3, <1>4, <2>1, <3>2, Sizes
  <2>2. QED BY <2>1
<1>6. i = q => from = 0 /\ stop = r BY <1>1, <1>2, <1>3, Sizes
<1> HIDE DEF from
<1>7. from \in Nat /\ stop \in 0..L /\ from <= stop
  <2>1. i < q \/ i = q OBVIOUS
  <2> HIDE DEF c
  <2>2. QED BY <1>2, <1>5, <1>6, <2>1, Sizes
<1>8. \A d \in 0..GroupChars : c + d < L =>
        T[L - (c + d)] = IF d = GroupChars THEN Comma
                         ELSE {b \in 0..CharBits-1 : (i * GroupChars + d) * CharBits + b \in m}
  BY <1>2 DEF IsText
<1>9. ASSUME NEW p \in from..L-1, T[p + 1] = Comma PROVE stop <= p
  <2>1. SUFFICES ASSUME p < stop PROVE FALSE BY <1>2, <1>7 DEF L
  <2> DEFINE d == stop - 1 - p
  <2> HIDE DEF c, L
  <2>2. d \in 0..GroupChars - 1
    <3>1. i < q \/ i = q OBVIOUS
    <3>2. QED BY <1>2, <1>5, <1>6, <1>7, <2>1, <3>1, Sizes
  <2>3. c + d = L - 1 - p /\ c + d < L /\ L - (c + d) = p + 1 BY <1>2, <1>7
  <2>4. d \in 0..GroupChars /\ d # GroupChars BY <2>2, Sizes
  <2>5. T[p + 1] = {b \in 0..CharBits-1 : (i * GroupChars + d) * CharBits + b \in m}
    BY <1>8, <2>3, <2>4
  <2>6. T[p + 1] \in SUBSET (0..CharBits-1) BY <2>5
  <2>7. QED BY <1>9, <2>6, CpuMappingAssumption
<1>10. stop = L \/ (stop \in from..L-1 /\ T[stop + 1] = Comma)
  <2>1. CASE i = 0 BY <1>2, <2>1, Sizes
  <2>2. CASE i # 0
    <3> DEFINE c1 == (GroupChars + 1) * (i - 1)
    <3>1. i - 1 \in Nat BY <1>2, <2>2
    <3>2. c = c1 + GroupChars + 1 /\ c1 \in Nat BY <3>1, Sizes, Z3
    <3>3. \A d \in 0..GroupChars : c1 + d < L =>
            T[L - (c1 + d)] = IF d = GroupChars THEN Comma
                              ELSE {b \in 0..CharBits-1 : ((i - 1) * GroupChars + d) * CharBits + b \in m}
      BY <3>1 DEF IsText
    <3> HIDE DEF c, c1, L
    <3>4. GroupChars \in 0..GroupChars BY Sizes
    <3>5. c1 + GroupChars < L /\ L - (c1 + GroupChars) = stop + 1 /\ stop < L
      BY <1>2, <1>7, <3>2, Sizes
    <3>6. T[stop + 1] = Comma BY <3>3, <3>4, <3>5
    <3>7. QED BY <1>2, <1>7, <3>5, <3>6
  <2>3. QED BY <2>1, <2>2
<1>11. stop \in {L} \cup commas /\ \A p \in {L} \cup commas : stop <= p
  BY <1>7, <1>9, <1>10, <1>2
<1>12. {L} \cup commas \in SUBSET Nat BY <1>2, <1>7
<1> HIDE DEF commas, c, L
<1>13. Min({L} \cup commas) \in {L} \cup commas /\ Min({L} \cup commas) <= stop
  BY <1>11, <1>12, MinIs
<1>14. stop <= Min({L} \cup commas) BY <1>11, <1>13
<1>15. Min({L} \cup commas) \in Nat BY <1>12, <1>13
<1>16. stop = Min({L} \cup commas) BY <1>2, <1>7, <1>13, <1>14, <1>15
<1>17. stop = StopOf(q, r, i) /\ StopOf(q, r, q) = r
  <2>1. stop = (GroupChars + 1) * (q - i) + r BY <1>1, <1>2, <1>4
  <2>2. (GroupChars + 1) * (q - q) + r = r BY Sizes, Z3
  <2>3. QED BY <2>1, <2>2 DEF StopOf
<1>18. Min(Stops(T, from)) = stop BY <1>16 DEF Stops, commas, L
<1>19. from = IF i = q THEN 0 ELSE stop - GroupChars
  <2>1. i < q \/ i = q OBVIOUS
  <2>2. QED BY <1>5, <1>6, <2>1
<1> HIDE DEF stop
<1>20. stop = Len(T) - (GroupChars + 1) * i BY DEF stop, L, c
<1>21. QED BY <1>7, <1>17, <1>18, <1>19, <1>20 DEF StopsAt, from, L
\* The digits of a chunk.
InChunk(m, q, r, i, v) ==
  \E d \in 0..GroupChars - 1 : \E b \in 0..CharBits-1 :
    /\ (i = q => d < r)
    /\ v = d * CharBits + b /\ (i * GroupChars + d) * CharBits + b \in m

LEMMA StrtoulIs ==
  ASSUME NEW T, NEW m, NEW q \in Nat, NEW r \in 1..GroupChars, IsText(T, m, q, r),
         NEW i \in 0..q, NEW v
  PROVE  v \in Strtoul(T, ChunkStr(Len(T), i)) <=> InChunk(m, q, r, i, v)
<1> DEFINE L == Len(T)
           c == (GroupChars + 1) * i
           from == ChunkStr(L, i)
           stop == StopOf(q, r, i)
           digit(d) == {b \in 0..CharBits-1 : (i * GroupChars + d) * CharBits + b \in m}
<1>1. /\ Min(Stops(T, from)) = stop /\ stop \in 0..L /\ from \in Nat
      /\ stop = L - c
      /\ from = IF i = q THEN 0 ELSE stop - GroupChars
      /\ StopOf(q, r, q) = r
  <2>1. StopsAt(T, q, r, i) BY StopAt
  <2>2. QED BY <2>1 DEF StopsAt
<1>2. L \in Nat /\ c \in Nat /\ i \in Nat /\ (i = q => stop = r)
  <2>1. L = (GroupChars + 1) * q + r BY DEF IsText
  <2>2. (GroupChars + 1) * q \in Nat BY Sizes
  <2>3. QED BY <1>1, <2>1, <2>2, Sizes
<1>3. ASSUME NEW d \in 0..GroupChars, c + d < L, d # GroupChars
      PROVE  T[L - (c + d)] = digit(d)
  BY <1>2, <1>3 DEF IsText
<1>4. Strtoul(T, from) =
        UNION {{(Min(Stops(T, from)) - 1 - p) * CharBits + b : b \in T[p + 1]}
                 : p \in from..Min(Stops(T, from))-1}
  BY DEF Strtoul, Stops
<1> HIDE DEF L, c, from, stop
<1>5. Strtoul(T, from) = UNION {{(stop - 1 - p) * CharBits + b : b \in T[p + 1]} : p \in from..stop-1}
  BY <1>1, <1>4
<1>6. ASSUME NEW p \in from..stop-1
      PROVE  /\ stop - 1 - p \in 0..GroupChars - 1 /\ (i = q => stop - 1 - p < r)
             /\ T[p + 1] = digit(stop - 1 - p)
  <2> DEFINE d == stop - 1 - p
  <2>1. i < q \/ i = q OBVIOUS
  <2>2. d \in 0..GroupChars - 1 /\ (i = q => d < r)
    BY <1>1, <1>2, <2>1, Sizes
  <2>3. c + d < L /\ L - (c + d) = p + 1 BY <1>1, <1>2
  <2>4. d \in 0..GroupChars /\ d # GroupChars BY <2>2, Sizes
  <2> HIDE DEF d, digit
  <2>5. T[p + 1] = digit(d) BY <1>3, <2>3, <2>4
  <2>6. QED BY <2>2, <2>5 DEF d
<1>7. ASSUME NEW d \in 0..GroupChars - 1, i = q => d < r
      PROVE  stop - 1 - d \in from..stop-1 /\ stop - 1 - (stop - 1 - d) = d
  <2>1. i < q \/ i = q OBVIOUS
  <2>2. QED BY <1>1, <1>2, <1>7, <2>1, Sizes
<1>8. ASSUME v \in Strtoul(T, from)
      PROVE  InChunk(m, q, r, i, v)
  <2>1. PICK p \in from..stop-1 : v \in {(stop - 1 - p) * CharBits + b : b \in T[p + 1]}
    BY <1>5, <1>8
  <2>2. PICK b \in T[p + 1] : v = (stop - 1 - p) * CharBits + b BY <2>1
  <2>3. b \in digit(stop - 1 - p) BY <1>6, <2>2
  <2>4. b \in 0..CharBits-1 /\ (i * GroupChars + (stop - 1 - p)) * CharBits + b \in m
    BY <2>3
  <2>5. QED BY <1>6, <2>2, <2>4 DEF InChunk
<1>9. ASSUME NEW d \in 0..GroupChars - 1, NEW b \in 0..CharBits-1, i = q => d < r,
             v = d * CharBits + b, (i * GroupChars + d) * CharBits + b \in m
      PROVE  v \in Strtoul(T, from)
  <2> DEFINE p == stop - 1 - d
  <2>1. p \in from..stop-1 /\ stop - 1 - p = d BY <1>7, <1>9
  <2>2. b \in digit(d) BY <1>9
  <2> HIDE DEF p, digit
  <2>3. T[p + 1] = digit(d) BY <1>6, <2>1
  <2>4. v = (stop - 1 - p) * CharBits + b /\ b \in T[p + 1] BY <1>9, <2>1, <2>2, <2>3
  <2>5. QED BY <1>5, <2>1, <2>4
<1>10. QED BY <1>8, <1>9 DEF InChunk, from, L

\* The set that CPU_ALLOC() makes room for is large enough.
LEMMA RoomEnough ==
  ASSUME NEW q \in Nat, NEW r \in 1..GroupChars
  PROVE  /\ AllocatedBits((GroupChars + 1) * q + r) \in Nat
         /\ CharBits * (GroupChars * q + r) <= AllocatedBits((GroupChars + 1) * q + r)
<1> DEFINE L == (GroupChars + 1) * q + r
           bits == GroupChars * CharBits * q + CharBits * r
<1>1. L \div (GroupChars + 1) = q /\ L % (GroupChars + 1) = r
  <2>1. r \in 0..(GroupChars + 1) - 1 BY Sizes
  <2>2. QED BY <2>1, Sizes, DivMod
<1>2. AllocatedBits(L) = ((bits + WordBits - 1) \div WordBits) * WordBits
  <2> HIDE DEF L
  <2>1. QED BY <1>1 DEF AllocatedBits, RoundUp
<1>3. bits = CharBits * (GroupChars * q + r) BY Sizes, Z3
<1>4. bits \in Nat BY Sizes, Z3
<1> HIDE DEF bits, L
<1> DEFINE n == bits + WordBits - 1
           k == n \div WordBits
<1>5. n \in Nat BY <1>4, Sizes
<1>6. k \in Nat /\ n % WordBits \in 0..WordBits - 1 /\ n = WordBits * k + (n % WordBits)
  BY <1>5, Sizes, DivBounds
<1>7. k * WordBits = WordBits * k /\ WordBits * k \in Nat BY <1>6, Sizes, Z3
<1>8. AllocatedBits(L) = k * WordBits BY <1>2
<1>9. n = bits + WordBits - 1 OBVIOUS
<1> HIDE DEF n, k
<1>10. bits <= WordBits * k BY <1>4, <1>5, <1>6, <1>7, <1>9, Sizes
<1>11. QED BY <1>3, <1>7, <1>8, <1>10 DEF L

\* read_mapping() makes of the text the mask that the kernel wrote, for any width
\* of digits, groups and words and any number of digits in the first group: "Bits
\* are MSB to LSB, left to right", and "the first <mask> may have fewer chars"
\* (src/src/migration.c:51-53).
THEOREM ReadsMask ==
  ASSUME NEW n \in Nat \ {0}, NEW m, m \subseteq {x \in Nat : x < n * CharBits}
  PROVE  ParseMapping(MaskText(m, n)) = m
<1>1. PICK q \in Nat, r \in 1..GroupChars :
        /\ n = GroupChars * q + r
        /\ n + (n - 1) \div GroupChars = (GroupChars + 1) * q + r
  BY Groups
<1> DEFINE T == MaskText(m, n)
           L == Len(T)
           read == UNION {{i * GroupChars * CharBits + j : j \in Strtoul(T, ChunkStr(L, i))}
                            : i \in Iterations(L)}
<1>2. IsText(T, m, q, r) BY <1>1, TextIs
<1> HIDE DEF T
<1>3. L = (GroupChars + 1) * q + r BY <1>2 DEF IsText
<1>4. Iterations(L) = 0..q BY <1>3, IterationsAre
<1>5. \A x \in m : x \in Nat /\ x < AllocatedBits(L)
  <2>1. AllocatedBits(L) \in Nat /\ CharBits * n <= AllocatedBits(L)
    BY <1>1, <1>3, RoomEnough
  <2>2. n * CharBits = CharBits * n /\ n * CharBits \in Nat BY Sizes, Z3
  <2>3. QED BY <2>1, <2>2
<1>6. ASSUME NEW i \in 0..q, NEW v
      PROVE  v \in Strtoul(T, ChunkStr(L, i)) <=> InChunk(m, q, r, i, v)
  BY <1>2, StrtoulIs
<1> HIDE DEF L
<1>7. ASSUME NEW x \in read PROVE x \in m
  <2>1. PICK i \in 0..q : x \in {i * GroupChars * CharBits + j : j \in Strtoul(T, ChunkStr(L, i))}
    BY <1>4, <1>7
  <2>2. PICK j \in Strtoul(T, ChunkStr(L, i)) : x = i * GroupChars * CharBits + j BY <2>1
  <2>3. PICK d \in 0..GroupChars - 1, b \in 0..CharBits-1 :
          j = d * CharBits + b /\ (i * GroupChars + d) * CharBits + b \in m
    BY <1>6, <2>2 DEF InChunk
  <2>4. i \in Nat /\ d \in Nat /\ b \in Nat BY Sizes
  <2>5. i * GroupChars * CharBits + (d * CharBits + b) = (i * GroupChars + d) * CharBits + b
    BY <2>4, Sizes, Z3
  <2>6. QED BY <2>2, <2>3, <2>5
<1>8. ASSUME NEW x \in m PROVE x \in read
  <2> DEFINE D == x \div CharBits
             b == x % CharBits
             i == D \div GroupChars
             d == D % GroupChars
  <2>1. x \in Nat /\ x < n * CharBits BY <1>8
  <2>2. D \in Nat /\ b \in 0..CharBits-1 /\ x = CharBits * D + b BY <2>1, Sizes, DivBounds
  <2> HIDE DEF D, b
  <2>3. i \in Nat /\ d \in 0..GroupChars - 1 /\ D = GroupChars * i + d
    BY <2>2, Sizes, DivBounds
  <2> HIDE DEF i, d
  <2>4. D < n
    <3>1. SUFFICES ASSUME n <= D PROVE FALSE BY <2>2
    <3>2. CharBits * n <= CharBits * D BY <2>2, <3>1, Sizes, MulMono
    <3>3. CharBits * n = n * CharBits /\ CharBits * n \in Nat /\ CharBits * D \in Nat
      BY <2>2, Sizes, Z3
    <3>4. QED BY <2>1, <2>2, <3>2, <3>3
  <2>5. GroupChars * q \in Nat /\ GroupChars * i \in Nat BY <2>3, Sizes
  <2>6. i <= q
    <3>1. SUFFICES ASSUME q + 1 <= i PROVE FALSE BY <2>3
    <3>2. GroupChars * (q + 1) <= GroupChars * i BY <2>3, <3>1, Sizes, MulMono
    <3>3. GroupChars * (q + 1) = GroupChars * q + GroupChars BY Sizes, Z3
    <3>4. QED BY <1>1, <2>3, <2>4, <2>5, <3>2, <3>3, Sizes
  <2>7. i = q => d < r BY <1>1, <2>3, <2>4, <2>5, Sizes
  <2>8. x = (i * GroupChars + d) * CharBits + b
        /\ x = i * GroupChars * CharBits + (d * CharBits + b)
    <3>1. b \in Nat /\ d \in Nat BY <2>2, <2>3, Sizes
    <3>2. QED BY <2>2, <2>3, <3>1, Sizes, Z3
  <2>9. i \in 0..q BY <2>3, <2>6
  <2>10. d * CharBits + b \in Strtoul(T, ChunkStr(L, i))
    BY <1>6, <1>8, <2>2, <2>3, <2>7, <2>8, <2>9 DEF InChunk
  <2>11. QED BY <1>4, <2>8, <2>9, <2>10
<1>9. ParseMapping(T) = {x \in read : x < AllocatedBits(L)} BY DEF ParseMapping, L
<1> HIDE DEF read
<1>10. ParseMapping(T) = m BY <1>5, <1>7, <1>8, <1>9
<1>11. QED BY <1>10 DEF T
-----------------------------------------------------------------------------
(* Where an actor is in its plan.                                          *)

AllCalls == {"read_mapping", "setaffinity", "first_cpu", "param", "mode", "job", "leave",
             "migrate", "write", "poll", "read", "check", "sleep", "wait"}
OwnKinds == {"domain", "processor", "test"}
ChildKinds == {"running", "suspended"}
PlanKinds == OwnKinds \cup ChildKinds \cup {"running_parent", "suspended_parent"}

KindOf(a) == IF a \in Task THEN kind[a] ELSE ParentKind(kind[Child[a]])
MyPlan(a) == Plan[KindOf(a)]

\* The number of the call that comes next, one more than there are at the end.
Pos(a) == Len(MyPlan(a)) + 1 - Len(todo[a])

KindInv ==
  /\ kind \in [Task -> OwnKinds \cup ChildKinds]
  /\ \A t \in Task : IF IsChild(t) THEN kind[t] \in ChildKinds ELSE kind[t] \in OwnKinds

PlanInv ==
  /\ KindInv
  /\ DOMAIN todo = Actor
  /\ \A a \in Actor :
       /\ todo[a] \in Seq(AllCalls) /\ Pos(a) \in 1..Len(MyPlan(a)) + 1
       /\ todo[a] = SubSeq(MyPlan(a), Pos(a), Len(MyPlan(a)))

\* The plans, call by call.
LEMMA PlansAre ==
  /\ DOMAIN Plan = PlanKinds
  /\ Plan["domain"] = <<"read_mapping", "setaffinity", "first_cpu", "param", "mode", "job", "leave">>
  /\ Plan["processor"] = <<"migrate", "param", "mode", "job", "leave">>
  /\ Plan["test"] = <<"param", "migrate", "mode", "job", "leave">>
  /\ Plan["running"] = <<"migrate", "write", "poll", "job">>
  /\ Plan["suspended"] = <<"migrate", "read", "check", "job">>
  /\ Plan["running_parent"] = <<"read", "sleep", "param", "mode", "check", "wait">>
  /\ Plan["suspended_parent"] = <<"sleep", "param", "mode", "check", "write", "wait">>
  BY DEF Plan, PlanWith, Running, SuspendedParent, PlanKinds, OwnKinds, ChildKinds

LEMMA PlanTypes == \A k \in PlanKinds : Plan[k] \in Seq(AllCalls) /\ Len(Plan[k]) \in 4..7
<1> TAKE k \in PlanKinds
<1>1. Plan["domain"] \in Seq(AllCalls) /\ Len(Plan["domain"]) = 7 BY PlansAre DEF AllCalls
<1>2. Plan["processor"] \in Seq(AllCalls) /\ Len(Plan["processor"]) = 5 BY PlansAre DEF AllCalls
<1>3. Plan["test"] \in Seq(AllCalls) /\ Len(Plan["test"]) = 5 BY PlansAre DEF AllCalls
<1>4. Plan["running"] \in Seq(AllCalls) /\ Len(Plan["running"]) = 4 BY PlansAre DEF AllCalls
<1>5. Plan["suspended"] \in Seq(AllCalls) /\ Len(Plan["suspended"]) = 4 BY PlansAre DEF AllCalls
<1>6. Plan["running_parent"] \in Seq(AllCalls) /\ Len(Plan["running_parent"]) = 6
  BY PlansAre DEF AllCalls
<1>7. Plan["suspended_parent"] \in Seq(AllCalls) /\ Len(Plan["suspended_parent"]) = 6
  BY PlansAre DEF AllCalls
<1>8. QED BY <1>1, <1>2, <1>3, <1>4, <1>5, <1>6, <1>7 DEF PlanKinds, OwnKinds, ChildKinds

\* Everyone has a plan of its kind.
LEMMA KindsAre ==
  ASSUME KindInv, NEW a \in Actor
  PROVE  /\ KindOf(a) \in PlanKinds
         /\ MyPlan(a) \in Seq(AllCalls) /\ Len(MyPlan(a)) \in 4..7
         /\ a \in Task => KindOf(a) \in OwnKinds \cup ChildKinds
         /\ a \in Parent => KindOf(a) \in {"running_parent", "suspended_parent"}
<1>1. a \in Task => KindOf(a) \in OwnKinds \cup ChildKinds BY DEF KindInv, KindOf
<1>2. a \in Parent => KindOf(a) \in {"running_parent", "suspended_parent"}
  BY AdmissionAssumption DEF KindOf, ParentKind
<1>3. KindOf(a) \in PlanKinds BY <1>1, <1>2 DEF PlanKinds, Actor
<1>4. QED BY <1>1, <1>2, <1>3, PlanTypes DEF MyPlan

\* An actor makes the call at its place in its plan.
LEMMA CallAt ==
  ASSUME PlanInv, NEW a \in Actor, NEW c
  PROVE  Calls(a, c) <=> a \notin failed /\ Pos(a) <= Len(MyPlan(a)) /\ MyPlan(a)[Pos(a)] = c
<1> DEFINE s == MyPlan(a)
           n == Len(s)
           k == Pos(a)
<1>1. s \in Seq(AllCalls) /\ n \in 4..7 BY KindsAre DEF PlanInv
<1>2. todo[a] \in Seq(AllCalls) /\ k \in 1..n + 1 /\ todo[a] = SubSeq(s, k, n) BY DEF PlanInv
<1>3. k = n + 1 - Len(todo[a]) BY DEF Pos
<1> HIDE DEF s, n, k
<1>4. todo[a] # <<>> <=> k <= n
  <2>1. Len(todo[a]) \in Nat /\ (todo[a] # <<>> <=> Len(todo[a]) # 0)
    BY <1>2, EmptySeq, LenProperties
  <2>2. QED BY <1>1, <1>2, <1>3, <2>1
<1>5. k <= n => Head(todo[a]) = s[k]
  <2>1. ASSUME k <= n PROVE k \in 1..n BY <1>1, <1>2, <2>1
  <2>2. QED BY <1>1, <1>2, <2>1, HeadTailOfSubSeq DEF n
<1>6. QED BY <1>4, <1>5 DEF Calls, s, n, k

\* A call that returns takes its actor, and nobody else, one place further.
LEMMA Returned ==
  ASSUME PlanInv, NEW a \in Actor, todo[a] # <<>>, Return(a), kind' = kind
  PROVE  /\ PlanInv' /\ failed' = failed
         /\ Pos(a)' = Pos(a) + 1
         /\ \A b \in Actor \ {a} : Pos(b)' = Pos(b)
<1>1. \A b \in Actor : MyPlan(b)' = MyPlan(b) BY DEF MyPlan, KindOf
<1>2. DOMAIN todo' = Actor /\ todo'[a] = Tail(todo[a])
      /\ \A b \in Actor \ {a} : todo'[b] = todo[b]
  BY DEF Return, PlanInv
<1>3. \A b \in Actor \ {a} : Pos(b)' = Pos(b)
  BY <1>1, <1>2 DEF Pos
<1> DEFINE s == MyPlan(a)
           n == Len(s)
           k == Pos(a)
<1>4. s \in Seq(AllCalls) /\ n \in 4..7 BY KindsAre DEF PlanInv
<1>5. todo[a] \in Seq(AllCalls) /\ k \in 1..n + 1 /\ todo[a] = SubSeq(s, k, n) BY DEF PlanInv
<1>6. k = n + 1 - Len(todo[a]) BY DEF Pos
<1>7. Tail(todo[a]) \in Seq(AllCalls) /\ Len(Tail(todo[a])) = Len(todo[a]) - 1 BY <1>5
<1>8. Pos(a)' = n + 1 - Len(Tail(todo[a])) BY <1>1, <1>2 DEF Pos
<1> HIDE DEF s, n, k
<1>9. k \in 1..n
  <2>1. Len(todo[a]) # 0 BY <1>5
  <2>2. QED BY <1>4, <1>5, <1>6, <2>1
<1>10. Pos(a)' = k + 1 /\ k + 1 \in 1..n + 1
  <2>1. Len(todo[a]) \in Nat BY <1>5
  <2>2. n + 1 - (Len(todo[a]) - 1) = k + 1 BY <1>4, <1>6, <2>1
  <2>3. Pos(a)' = k + 1 BY <1>7, <1>8, <2>2
  <2>4. QED BY <1>4, <1>9, <2>3
<1>11. Tail(todo[a]) = SubSeq(s, k + 1, n) BY <1>4, <1>5, <1>9, HeadTailOfSubSeq DEF n
<1>12. KindInv' BY DEF PlanInv, KindInv, IsChild
<1>13. ASSUME NEW b \in Actor
       PROVE  /\ todo'[b] \in Seq(AllCalls) /\ Pos(b)' \in 1..Len(MyPlan(b)') + 1
              /\ todo'[b] = SubSeq(MyPlan(b)', Pos(b)', Len(MyPlan(b)'))
  <2>1. CASE b = a BY <1>1, <1>2, <1>7, <1>10, <1>11, <2>1 DEF s, n
  <2>2. CASE b # a BY <1>1, <1>2, <1>3, <2>2 DEF PlanInv
  <2>3. QED BY <2>1, <2>2
<1>14. PlanInv' BY <1>2, <1>12, <1>13 DEF PlanInv
<1>15. failed' = failed BY DEF Return
<1>16. QED BY <1>3, <1>10, <1>14, <1>15 DEF k

\* Nobody moves when a call fails, or the kernel makes a step.
LEMMA Stays ==
  ASSUME PlanInv, todo' = todo, kind' = kind
  PROVE  PlanInv' /\ \A b \in Actor : Pos(b)' = Pos(b)
<1>1. \A b \in Actor : MyPlan(b)' = MyPlan(b) BY DEF MyPlan, KindOf
<1>2. \A b \in Actor : Pos(b)' = Pos(b) BY <1>1 DEF Pos
<1>3. KindInv' BY DEF PlanInv, KindInv, IsChild
<1>4. QED BY <1>1, <1>2, <1>3 DEF PlanInv

LEMMA PlanInit == ASSUME Init PROVE PlanInv /\ \A a \in Actor : Pos(a) = 1
<1>1. KindInv BY AdmissionAssumption DEF Init, KindInv, OwnKinds, ChildKinds
<1>2. \A a \in Actor : todo[a] = MyPlan(a) BY DEF Init, MyPlan, KindOf
<1>3. ASSUME NEW a \in Actor
      PROVE  /\ todo[a] \in Seq(AllCalls) /\ Pos(a) = 1 /\ Pos(a) \in 1..Len(MyPlan(a)) + 1
             /\ todo[a] = SubSeq(MyPlan(a), Pos(a), Len(MyPlan(a)))
  <2>1. MyPlan(a) \in Seq(AllCalls) /\ Len(MyPlan(a)) \in 4..7 BY <1>1, KindsAre
  <2>2. Pos(a) = 1 BY <1>2, <2>1 DEF Pos
  <2>3. SubSeq(MyPlan(a), 1, Len(MyPlan(a))) = MyPlan(a) BY <2>1, SubSeqFull
  <2>4. QED BY <1>2, <2>1, <2>2, <2>3
<1>4. DOMAIN todo = Actor BY DEF Init
<1>5. QED BY <1>1, <1>3, <1>4 DEF PlanInv
\* Where the calls are in the plans.
LEMMA PlacesOf ==
  ASSUME NEW k \in PlanKinds, NEW n \in 1..Len(Plan[k])
  PROVE  /\ Plan[k][n] = "read_mapping" => k = "domain" /\ n = 1
         /\ Plan[k][n] = "setaffinity" => k = "domain" /\ n = 2
         /\ Plan[k][n] = "first_cpu" => k = "domain" /\ n = 3
         /\ Plan[k][n] = "migrate" =>
             (k = "test" /\ n = 2)
             \/ (k \in {"processor", "running", "suspended"} /\ n = 1)
         /\ Plan[k][n] = "param" =>
             (k = "domain" /\ n = 4) \/ (k = "processor" /\ n = 2)
             \/ (k = "test" /\ n = 1) \/ (k = "running_parent" /\ n = 3)
             \/ (k = "suspended_parent" /\ n = 2)
         /\ Plan[k][n] = "mode" =>
             (k = "domain" /\ n = 5) \/ (k \in {"processor", "test"} /\ n = 3)
             \/ (k = "running_parent" /\ n = 4) \/ (k = "suspended_parent" /\ n = 3)
         /\ Plan[k][n] = "job" =>
             (k = "domain" /\ n = 6)
             \/ (k \in {"processor", "test", "running", "suspended"} /\ n = 4)
         /\ Plan[k][n] = "leave" =>
             (k = "domain" /\ n = 7) \/ (k \in {"processor", "test"} /\ n = 5)
         /\ Plan[k][n] = "write" =>
             (k = "running" /\ n = 2) \/ (k = "suspended_parent" /\ n = 5)
         /\ Plan[k][n] = "poll" => k = "running" /\ n = 3
         /\ Plan[k][n] = "read" =>
             (k = "suspended" /\ n = 2) \/ (k = "running_parent" /\ n = 1)
         /\ Plan[k][n] = "check" =>
             (k = "suspended" /\ n = 3) \/ (k = "running_parent" /\ n = 5)
             \/ (k = "suspended_parent" /\ n = 4)
         /\ Plan[k][n] = "sleep" =>
             (k = "running_parent" /\ n = 2) \/ (k = "suspended_parent" /\ n = 1)
         /\ Plan[k][n] = "wait" => k \in {"running_parent", "suspended_parent"} /\ n = 6
<1>1. CASE k = "domain"
  <2>1. n \in 1..7 BY <1>1, PlansAre
  <2>2. n = 1 \/ n = 2 \/ n = 3 \/ n = 4 \/ n = 5 \/ n = 6 \/ n = 7
    BY <2>1
  <2>3. n = 1 => Plan[k][n] = "read_mapping" BY <1>1, PlansAre
  <2>4. n = 2 => Plan[k][n] = "setaffinity" BY <1>1, PlansAre
  <2>5. n = 3 => Plan[k][n] = "first_cpu" BY <1>1, PlansAre
  <2>6. n = 4 => Plan[k][n] = "param" BY <1>1, PlansAre
  <2>7. n = 5 => Plan[k][n] = "mode" BY <1>1, PlansAre
  <2>8. n = 6 => Plan[k][n] = "job" BY <1>1, PlansAre
  <2>9. n = 7 => Plan[k][n] = "leave" BY <1>1, PlansAre
  <2>10. QED BY <1>1, <2>2, <2>3, <2>4, <2>5, <2>6, <2>7, <2>8, <2>9
<1>2. CASE k = "processor"
  <2>1. n \in 1..5 BY <1>2, PlansAre
  <2>2. n = 1 \/ n = 2 \/ n = 3 \/ n = 4 \/ n = 5
    BY <2>1
  <2>3. n = 1 => Plan[k][n] = "migrate" BY <1>2, PlansAre
  <2>4. n = 2 => Plan[k][n] = "param" BY <1>2, PlansAre
  <2>5. n = 3 => Plan[k][n] = "mode" BY <1>2, PlansAre
  <2>6. n = 4 => Plan[k][n] = "job" BY <1>2, PlansAre
  <2>7. n = 5 => Plan[k][n] = "leave" BY <1>2, PlansAre
  <2>8. QED BY <1>2, <2>2, <2>3, <2>4, <2>5, <2>6, <2>7
<1>3. CASE k = "test"
  <2>1. n \in 1..5 BY <1>3, PlansAre
  <2>2. n = 1 \/ n = 2 \/ n = 3 \/ n = 4 \/ n = 5
    BY <2>1
  <2>3. n = 1 => Plan[k][n] = "param" BY <1>3, PlansAre
  <2>4. n = 2 => Plan[k][n] = "migrate" BY <1>3, PlansAre
  <2>5. n = 3 => Plan[k][n] = "mode" BY <1>3, PlansAre
  <2>6. n = 4 => Plan[k][n] = "job" BY <1>3, PlansAre
  <2>7. n = 5 => Plan[k][n] = "leave" BY <1>3, PlansAre
  <2>8. QED BY <1>3, <2>2, <2>3, <2>4, <2>5, <2>6, <2>7
<1>4. CASE k = "running"
  <2>1. n \in 1..4 BY <1>4, PlansAre
  <2>2. n = 1 \/ n = 2 \/ n = 3 \/ n = 4
    BY <2>1
  <2>3. n = 1 => Plan[k][n] = "migrate" BY <1>4, PlansAre
  <2>4. n = 2 => Plan[k][n] = "write" BY <1>4, PlansAre
  <2>5. n = 3 => Plan[k][n] = "poll" BY <1>4, PlansAre
  <2>6. n = 4 => Plan[k][n] = "job" BY <1>4, PlansAre
  <2>7. QED BY <1>4, <2>2, <2>3, <2>4, <2>5, <2>6
<1>5. CASE k = "suspended"
  <2>1. n \in 1..4 BY <1>5, PlansAre
  <2>2. n = 1 \/ n = 2 \/ n = 3 \/ n = 4
    BY <2>1
  <2>3. n = 1 => Plan[k][n] = "migrate" BY <1>5, PlansAre
  <2>4. n = 2 => Plan[k][n] = "read" BY <1>5, PlansAre
  <2>5. n = 3 => Plan[k][n] = "check" BY <1>5, PlansAre
  <2>6. n = 4 => Plan[k][n] = "job" BY <1>5, PlansAre
  <2>7. QED BY <1>5, <2>2, <2>3, <2>4, <2>5, <2>6
<1>6. CASE k = "running_parent"
  <2>1. n \in 1..6 BY <1>6, PlansAre
  <2>2. n = 1 \/ n = 2 \/ n = 3 \/ n = 4 \/ n = 5 \/ n = 6
    BY <2>1
  <2>3. n = 1 => Plan[k][n] = "read" BY <1>6, PlansAre
  <2>4. n = 2 => Plan[k][n] = "sleep" BY <1>6, PlansAre
  <2>5. n = 3 => Plan[k][n] = "param" BY <1>6, PlansAre
  <2>6. n = 4 => Plan[k][n] = "mode" BY <1>6, PlansAre
  <2>7. n = 5 => Plan[k][n] = "check" BY <1>6, PlansAre
  <2>8. n = 6 => Plan[k][n] = "wait" BY <1>6, PlansAre
  <2>9. QED BY <1>6, <2>2, <2>3, <2>4, <2>5, <2>6, <2>7, <2>8
<1>7. CASE k = "suspended_parent"
  <2>1. n \in 1..6 BY <1>7, PlansAre
  <2>2. n = 1 \/ n = 2 \/ n = 3 \/ n = 4 \/ n = 5 \/ n = 6
    BY <2>1
  <2>3. n = 1 => Plan[k][n] = "sleep" BY <1>7, PlansAre
  <2>4. n = 2 => Plan[k][n] = "param" BY <1>7, PlansAre
  <2>5. n = 3 => Plan[k][n] = "mode" BY <1>7, PlansAre
  <2>6. n = 4 => Plan[k][n] = "check" BY <1>7, PlansAre
  <2>7. n = 5 => Plan[k][n] = "write" BY <1>7, PlansAre
  <2>8. n = 6 => Plan[k][n] = "wait" BY <1>7, PlansAre
  <2>9. QED BY <1>7, <2>2, <2>3, <2>4, <2>5, <2>6, <2>7, <2>8
<1>8. QED BY <1>1, <1>2, <1>3, <1>4, <1>5, <1>6, <1>7 DEF PlanKinds, OwnKinds, ChildKinds

\* An actor that makes a call is at one of its places.
AtCall(a, c) ==
  /\ Pos(a) \in 1..Len(Plan[KindOf(a)]) /\ KindOf(a) \in PlanKinds
  /\ Plan[KindOf(a)][Pos(a)] = c

LEMMA CallsAt == ASSUME PlanInv, NEW a \in Actor, NEW c, Calls(a, c) PROVE AtCall(a, c)
<1>1. Pos(a) \in 1..Len(MyPlan(a)) + 1 BY DEF PlanInv
<1>2. KindOf(a) \in PlanKinds /\ Len(MyPlan(a)) \in 4..7 BY KindsAre DEF PlanInv
<1>3. Pos(a) <= Len(MyPlan(a)) /\ MyPlan(a)[Pos(a)] = c BY CallAt
<1> HIDE DEF Pos
<1>4. Pos(a) \in 1..Len(MyPlan(a)) BY <1>1, <1>2, <1>3
<1>5. QED BY <1>2, <1>3, <1>4 DEF AtCall, MyPlan

\* The effect of a call of an actor on where the actors are.
Acts(a) ==
  /\ PlanInv'
  /\ \/ Pos(a)' = Pos(a) + 1 /\ failed' = failed
     \/ Pos(a)' = Pos(a) /\ failed' = failed \cup {a}
  /\ \A b \in Actor : b # a => Pos(b)' = Pos(b)

LEMMA ReturnActs ==
  ASSUME PlanInv, NEW a \in Actor, NEW c, Calls(a, c), Return(a), kind' = kind
  PROVE  Acts(a) /\ Pos(a)' = Pos(a) + 1 /\ failed' = failed
  BY Returned DEF Calls, Acts

LEMMA FailActs ==
  ASSUME PlanInv, NEW a \in Actor, Fail(a), kind' = kind
  PROVE  Acts(a) /\ Pos(a)' = Pos(a) /\ failed' = failed \cup {a}
  BY Stays DEF Fail, Acts
-----------------------------------------------------------------------------
(* Who waits for whom.                                                     *)

Policies == {"SCHED_NORMAL", "SCHED_LITMUS"}

\* The turns of a parent at call x and its child, of kind k, at call y.  A running
\* child is admitted after it has written the token, and knows; a suspended one
\* before it gets the token.
Turn(k, x, y, tok, pol) ==
  /\ k = "running" =>
       /\ (x >= 2 \/ tok = 1) => y >= 3
       /\ pol = "SCHED_LITMUS" => x >= 5
       /\ y = 4 => pol = "SCHED_LITMUS"
  /\ k = "suspended" =>
       /\ pol = "SCHED_LITMUS" => x >= 4
       /\ (tok = 1 \/ y >= 3) => x >= 6
       /\ x >= 4 => pol = "SCHED_LITMUS" \/ y = 5

PairTurn(p) == Turn(kind[Child[p]], Pos(p), Pos(Child[p]), token[p], policy[Child[p]])

\* A suspended child waits for the token when its parent goes on, unless it is late.
InTime(p) ==
  kind[Child[p]] = "suspended" /\ Pos(p) >= 2 => Pos(Child[p]) >= 2 \/ Child[p] \in late

\* The others admit themselves after they have migrated.
OwnTurn(t) == ~IsChild(t) /\ policy[t] = "SCHED_LITMUS" => Pos(t) >= 4

TurnInv ==
  /\ PlanInv
  /\ policy \in [Task -> Policies] /\ token \in [Parent -> 0..1]
  /\ \A t \in Task : OwnTurn(t)
  /\ \A p \in Parent : PairTurn(p)

OnTime == \A p \in Parent : InTime(p)

\* A child at one of these calls, and where it is in its plan.
LEMMA ChildAt ==
  ASSUME TurnInv, NEW p \in Parent, NEW c \in {"migrate", "setaffinity", "check", "job"},
         Calls(Child[p], c)
  PROVE  /\ kind[Child[p]] \in ChildKinds /\ Pos(p) \in Nat /\ Pos(Child[p]) \in Nat
         /\ policy[Child[p]] \in Policies
         /\ Turn(kind[Child[p]], Pos(p), Pos(Child[p]), token[p], policy[Child[p]])
         /\ IF c \in {"migrate", "setaffinity"} THEN Pos(Child[p]) = 1
            ELSE Pos(Child[p]) = 4 \/ (kind[Child[p]] = "suspended" /\ Pos(Child[p]) = 3)
<1> DEFINE t == Child[p]
<1>1. t \in Task /\ t \in Actor /\ p \in Actor BY AdmissionAssumption DEF Actor
<1>2. kind[t] \in ChildKinds BY <1>1 DEF TurnInv, PlanInv, KindInv, IsChild
<1>3. KindOf(t) = kind[t] BY <1>1 DEF KindOf
<1>4. AtCall(t, c) BY <1>1, CallsAt DEF TurnInv
<1>5. KindOf(t) \in PlanKinds /\ Pos(t) \in 1..Len(Plan[KindOf(t)])
      /\ Plan[KindOf(t)][Pos(t)] = c
  BY <1>4 DEF AtCall
<1>6. PairTurn(p) /\ policy[t] \in Policies BY <1>1 DEF TurnInv
<1>7. Pos(p) \in Nat /\ Pos(t) \in Nat
  <2>1. \A a \in Actor : Pos(a) \in 1..Len(MyPlan(a)) + 1 BY DEF TurnInv, PlanInv
  <2>2. QED BY <1>1, <2>1
<1> HIDE DEF t
<1>8. IF c \in {"migrate", "setaffinity"} THEN Pos(t) = 1
      ELSE Pos(t) = 4 \/ (kind[t] = "suspended" /\ Pos(t) = 3)
  BY <1>2, <1>3, <1>5, PlacesOf DEF ChildKinds
<1>9. QED BY <1>2, <1>6, <1>7, <1>8 DEF PairTurn, t

\* Who admits itself has not done so when it migrates.
LEMMA OwnBefore ==
  ASSUME TurnInv, NEW t \in Task, ~IsChild(t),
         NEW c \in {"migrate", "setaffinity", "first_cpu"}, Calls(t, c)
  PROVE  policy[t] = "SCHED_NORMAL"
<1>1. t \in Actor BY DEF Actor
<1>2. AtCall(t, c) BY <1>1, CallsAt DEF TurnInv
<1>3. KindOf(t) \in PlanKinds /\ Pos(t) \in 1..Len(Plan[KindOf(t)])
      /\ Plan[KindOf(t)][Pos(t)] = c
  BY <1>2 DEF AtCall
<1>4. Pos(t) <= 3 BY <1>3, PlacesOf
<1>5. OwnTurn(t) /\ policy[t] \in Policies BY DEF TurnInv
<1>6. QED BY <1>3, <1>4, <1>5 DEF OwnTurn, Policies

LEMMA TurnWakes == ASSUME TurnInv PROVE WakesRealTime
<1>1. SUFFICES ASSUME NEW p \in Parent, NEW c \in {"check", "job"}, Calls(Child[p], c)
               PROVE  policy[Child[p]] = "SCHED_LITMUS"
  BY DEF WakesRealTime, IsChild
<1> DEFINE k == kind[Child[p]]
           x == Pos(p)
           y == Pos(Child[p])
<1>2. /\ k \in ChildKinds /\ x \in Nat /\ y \in Nat
      /\ Turn(k, x, y, token[p], policy[Child[p]])
      /\ y = 4 \/ (k = "suspended" /\ y = 3)
  BY <1>1, ChildAt
<1> HIDE DEF k, x, y
<1>3. QED BY <1>2 DEF Turn, ChildKinds

LEMMA TurnBefore == ASSUME TurnInv, OnTime PROVE MigratesBefore
<1>1. SUFFICES ASSUME NEW t \in Task \ late, NEW c \in {"migrate", "setaffinity"}, Calls(t, c)
               PROVE  policy[t] = "SCHED_NORMAL"
  BY DEF MigratesBefore
<1>2. CASE IsChild(t)
  <2>1. PICK p \in Parent : t = Child[p] BY <1>2 DEF IsChild
  <2> DEFINE k == kind[Child[p]]
             x == Pos(p)
             y == Pos(Child[p])
  <2>2. /\ k \in ChildKinds /\ x \in Nat /\ y = 1 /\ policy[t] \in Policies
        /\ Turn(k, x, y, token[p], policy[t])
    BY <1>1, <2>1, ChildAt
  <2>3. k = "suspended" => ~(x >= 2)
    BY <1>1, <2>1, <2>2 DEF OnTime, InTime
  <2> HIDE DEF k, x, y
  <2>4. QED BY <2>2, <2>3 DEF Turn, ChildKinds, Policies
<1>3. CASE ~IsChild(t) BY <1>1, <1>3, OwnBefore
<1>4. QED BY <1>2, <1>3

\* Everyone's place is a number, and everyone's kind that of a plan.
LEMMA PairTypes ==
  ASSUME PlanInv, NEW p \in Parent
  PROVE  /\ p \in Actor /\ Child[p] \in Actor /\ Child[p] \in Task /\ p # Child[p]
         /\ Pos(p) \in Nat \ {0} /\ Pos(Child[p]) \in Nat \ {0}
         /\ kind[Child[p]] \in ChildKinds
         /\ KindOf(Child[p]) = kind[Child[p]]
         /\ KindOf(p) = ParentKind(kind[Child[p]])
<1>1. p \in Actor /\ Child[p] \in Actor /\ Child[p] \in Task /\ p # Child[p] /\ p \notin Task
  BY AdmissionAssumption DEF Actor
<1>2. \A a \in Actor : Pos(a) \in 1..Len(MyPlan(a)) + 1 /\ Len(MyPlan(a)) \in 4..7
  BY KindsAre DEF PlanInv
<1>3. \A a \in Actor : Pos(a) \in Nat \ {0} BY <1>2
<1>4. kind[Child[p]] \in ChildKinds BY <1>1 DEF PlanInv, KindInv, IsChild
<1>5. QED BY <1>1, <1>3, <1>4 DEF KindOf

\* Steps that leave policies and tokens alone: those of the kernel, failing calls,
\* and the calls that have nothing to do with the turns.
LEMMA TurnStays ==
  ASSUME TurnInv, PlanInv', UNCHANGED <<kind, policy, token>>,
         \A a \in Actor : Pos(a)' = Pos(a)
  PROVE  TurnInv'
<1>1. \A t \in Task : OwnTurn(t)' BY DEF TurnInv, OwnTurn, IsChild, Actor
<1>2. ASSUME NEW p \in Parent PROVE PairTurn(p)'
  <2>1. p \in Actor /\ Child[p] \in Actor BY PairTypes DEF TurnInv
  <2>2. Pos(p)' = Pos(p) /\ Pos(Child[p])' = Pos(Child[p]) BY <2>1
  <2>3. PairTurn(p) BY DEF TurnInv
  <2> HIDE DEF Pos
  <2>4. QED BY <2>2, <2>3 DEF PairTurn
<1>3. QED BY <1>1, <1>2 DEF TurnInv
\* An actor at a call goes one place further, and the others stay.
Moves(a, c) ==
  /\ a \in Actor /\ AtCall(a, c) /\ PlanInv' /\ kind' = kind
  /\ Pos(a)' = Pos(a) + 1
  /\ \A b \in Actor \ {a} : Pos(b)' = Pos(b)

\* Where a parent and its child are after somebody's move.
LEMMA PairMoves ==
  ASSUME PlanInv, NEW a, NEW c, Moves(a, c), NEW p \in Parent
  PROVE  /\ a = p => /\ Pos(p)' = Pos(p) + 1 /\ Pos(Child[p])' = Pos(Child[p])
                     /\ KindOf(p) = ParentKind(kind[Child[p]]) /\ KindOf(p) \in PlanKinds
                     /\ Pos(p) \in 1..Len(Plan[KindOf(p)]) /\ Plan[KindOf(p)][Pos(p)] = c
         /\ a = Child[p] => /\ Pos(p)' = Pos(p) /\ Pos(Child[p])' = Pos(Child[p]) + 1
                            /\ KindOf(a) = kind[Child[p]] /\ KindOf(a) \in PlanKinds
                            /\ Pos(a) \in 1..Len(Plan[KindOf(a)]) /\ Plan[KindOf(a)][Pos(a)] = c
         /\ a \notin {p, Child[p]} => Pos(p)' = Pos(p) /\ Pos(Child[p])' = Pos(Child[p])
<1>1. p \in Actor /\ Child[p] \in Actor /\ p # Child[p] BY PairTypes
<1>2. \A b \in Actor : b # a => Pos(b)' = Pos(b) BY DEF Moves
<1>3. Pos(a)' = Pos(a) + 1 BY DEF Moves
<1>4. KindOf(a) \in PlanKinds /\ Pos(a) \in 1..Len(Plan[KindOf(a)]) /\ Plan[KindOf(a)][Pos(a)] = c
  BY DEF Moves, AtCall
<1>5. KindOf(Child[p]) = kind[Child[p]] /\ KindOf(p) = ParentKind(kind[Child[p]]) BY PairTypes
<1> HIDE DEF Pos, KindOf
<1>6. CASE a = p BY <1>1, <1>2, <1>3, <1>4, <1>5, <1>6
<1>7. CASE a = Child[p] BY <1>1, <1>2, <1>3, <1>4, <1>5, <1>7
<1>8. CASE a \notin {p, Child[p]} BY <1>1, <1>2, <1>8
<1>9. QED BY <1>6, <1>7, <1>8

\* The calls that change neither policies nor tokens.
LEMMA TurnQuiet ==
  ASSUME TurnInv, NEW a, NEW c, Moves(a, c), UNCHANGED <<policy, token>>,
         c \notin {"mode", "leave", "write", "read"},
         c \in {"poll", "job"} => policy[a] = "SCHED_LITMUS",
         c = "job" => ~IsChild(a)
  PROVE  TurnInv'
<1>1. ASSUME NEW t \in Task PROVE OwnTurn(t)'
  <2>1. Pos(t)' \in {Pos(t), Pos(t) + 1} BY DEF Moves, Actor
  <2>2. Pos(t) \in Nat
    <3>1. Pos(t) \in 1..Len(MyPlan(t)) + 1 /\ Len(MyPlan(t)) \in 4..7
      BY KindsAre DEF TurnInv, PlanInv, Actor
    <3>2. QED BY <3>1
  <2>3. OwnTurn(t) BY DEF TurnInv
  <2> HIDE DEF Pos
  <2>4. QED BY <2>1, <2>2, <2>3 DEF OwnTurn, IsChild
<1>2. ASSUME NEW p \in Parent PROVE PairTurn(p)'
  <2> DEFINE k == kind[Child[p]]
             x == Pos(p)
             y == Pos(Child[p])
  <2>1. k \in ChildKinds /\ x \in Nat \ {0} /\ y \in Nat \ {0} BY PairTypes DEF TurnInv
  <2>2. Turn(k, x, y, token[p], policy[Child[p]]) BY DEF TurnInv, PairTurn
  <2>3. /\ a = p => /\ x' = x + 1 /\ y' = y
                    /\ KindOf(p) = ParentKind(k) /\ KindOf(p) \in PlanKinds
                    /\ x \in 1..Len(Plan[KindOf(p)]) /\ Plan[KindOf(p)][x] = c
        /\ a = Child[p] => /\ x' = x /\ y' = y + 1
                           /\ KindOf(a) = k /\ KindOf(a) \in PlanKinds
                           /\ y \in 1..Len(Plan[KindOf(a)]) /\ Plan[KindOf(a)][y] = c
        /\ a \notin {p, Child[p]} => x' = x /\ y' = y
    BY PairMoves DEF TurnInv
  <2>4. token'[p] = token[p] /\ policy'[Child[p]] = policy[Child[p]] /\ k' = k BY DEF Moves
  <2>5. SUFFICES Turn(k', x', y', token'[p], policy'[Child[p]]) BY DEF PairTurn
  <2> HIDE DEF k, x, y
  <2>6. CASE a \notin {p, Child[p]} BY <2>2, <2>3, <2>4, <2>6
  <2>7. CASE a = p
    <3>1. (k = "running" => x # 1) /\ (k = "suspended" => x # 3)
      BY <2>1, <2>3, <2>7, PlansAre DEF ParentKind
    <3>2. QED BY <2>1, <2>2, <2>3, <2>4, <2>7, <3>1 DEF Turn
  <2>8. CASE a = Child[p]
    <3>1. IsChild(a) /\ c \notin {"job", "read", "write"} BY <2>8 DEF IsChild
    <3>2. (k = "running" /\ y = 3 => policy[Child[p]] = "SCHED_LITMUS")
      BY <2>1, <2>3, <2>8, PlansAre
    <3>3. y <= 3 /\ (k = "suspended" => y # 2) /\ (k = "running" => y # 2)
      BY <2>1, <2>3, <2>8, <3>1, PlansAre DEF ChildKinds
    <3>4. QED BY <2>1, <2>2, <2>3, <2>4, <2>8, <3>2, <3>3 DEF Turn
  <2>9. QED BY <2>6, <2>7, <2>8
<1>3. policy' \in [Task -> Policies] /\ token' \in [Parent -> 0..1] BY DEF TurnInv
<1>4. QED BY <1>1, <1>2, <1>3 DEF TurnInv, Moves
\* A task that admits itself, or leaves real-time mode.
LEMMA TurnOwn ==
  ASSUME TurnInv, NEW t \in Task, ~IsChild(t), NEW c \in {"mode", "leave"}, Moves(t, c),
         NEW w \in Policies, w = "SCHED_LITMUS" => c = "mode",
         policy' = [policy EXCEPT ![t] = w], token' = token
  PROVE  TurnInv'
<1>1. \A a \in Actor : Pos(a) \in Nat
  <2>1. \A a \in Actor : Pos(a) \in 1..Len(MyPlan(a)) + 1 /\ Len(MyPlan(a)) \in 4..7
    BY KindsAre DEF TurnInv, PlanInv
  <2>2. QED BY <2>1
<1>2. policy' \in [Task -> Policies] /\ token' \in [Parent -> 0..1] BY DEF TurnInv
<1>3. policy'[t] = w BY DEF TurnInv
<1>4. OwnTurn(t)'
  <2>1. KindOf(t) \in PlanKinds /\ Pos(t) \in 1..Len(Plan[KindOf(t)])
        /\ Plan[KindOf(t)][Pos(t)] = c /\ Pos(t)' = Pos(t) + 1
    BY DEF Moves, AtCall
  <2>2. c = "mode" => Pos(t) >= 3
    BY <2>1, PlacesOf
  <2>3. t \in Actor BY DEF Actor
  <2> HIDE DEF Pos
  <2>4. QED BY <1>1, <1>3, <2>1, <2>2, <2>3 DEF OwnTurn, Policies
<1>5. ASSUME NEW u \in Task, u # t PROVE OwnTurn(u)'
  <2>1. policy'[u] = policy[u] /\ OwnTurn(u) BY <1>5 DEF TurnInv
  <2>2. Pos(u)' = Pos(u) BY <1>5 DEF Moves, Actor
  <2> HIDE DEF Pos
  <2>3. QED BY <2>1, <2>2 DEF OwnTurn, IsChild
<1>6. ASSUME NEW p \in Parent PROVE PairTurn(p)'
  <2>1. Child[p] # t /\ p # t /\ Child[p] \in Task BY AdmissionAssumption DEF IsChild
  <2>2. Pos(p)' = Pos(p) /\ Pos(Child[p])' = Pos(Child[p]) BY <2>1, PairMoves DEF TurnInv
  <2>3. policy'[Child[p]] = policy[Child[p]] BY <2>1 DEF TurnInv
  <2>4. PairTurn(p) /\ kind' = kind BY DEF TurnInv, Moves
  <2> HIDE DEF Pos
  <2>5. QED BY <2>2, <2>3, <2>4 DEF PairTurn
<1>7. QED BY <1>2, <1>4, <1>5, <1>6 DEF TurnInv, Moves

\* What a parent and its child do to each other: the parent admits the child, the
\* child's last job ends its life in real-time mode, and one wakes the other.
LEMMA TurnPair ==
  ASSUME TurnInv, NEW p \in Parent, NEW a \in {p, Child[p]}, NEW c, Moves(a, c),
         NEW v \in 0..1, token' = [token EXCEPT ![p] = v],
         NEW w \in Policies, policy' = [policy EXCEPT ![Child[p]] = w],
         \/ c = "mode" /\ a = p /\ v = token[p] /\ w = "SCHED_LITMUS"
         \/ c = "job" /\ a = Child[p] /\ v = token[p] /\ w = "SCHED_NORMAL"
         \/ c = "write" /\ v = 1 /\ w = policy[Child[p]]
         \/ c = "read" /\ token[p] = 1 /\ v = 0 /\ w = policy[Child[p]]
  PROVE  TurnInv'
<1>1. policy' \in [Task -> Policies] /\ token' \in [Parent -> 0..1]
      /\ Child[p] \in Task /\ policy'[Child[p]] = w /\ token'[p] = v
  BY AdmissionAssumption DEF TurnInv
<1>2. ASSUME NEW t \in Task PROVE OwnTurn(t)'
  <2>1. CASE IsChild(t) BY <2>1 DEF OwnTurn, IsChild
  <2>2. CASE ~IsChild(t)
    <3>1. t # Child[p] /\ t # p BY <2>2, AdmissionAssumption DEF IsChild
    <3>2. policy'[t] = policy[t] /\ OwnTurn(t) BY <3>1 DEF TurnInv
    <3>3. Pos(t)' = Pos(t) BY <3>1 DEF Moves, Actor
    <3> HIDE DEF Pos
    <3>4. QED BY <2>2, <3>2, <3>3 DEF OwnTurn, IsChild
  <2>3. QED BY <2>1, <2>2
<1>3. ASSUME NEW q \in Parent, q # p PROVE PairTurn(q)'
  <2>1. Child[q] # Child[p] /\ Child[q] # p /\ q # Child[p]
    BY <1>3, AdmissionAssumption DEF IsInjective
  <2>2. Pos(q)' = Pos(q) /\ Pos(Child[q])' = Pos(Child[q]) BY <1>3, <2>1, PairMoves DEF TurnInv
  <2>3. policy'[Child[q]] = policy[Child[q]] /\ token'[q] = token[q]
    BY <1>3, <2>1, AdmissionAssumption DEF TurnInv
  <2>4. PairTurn(q) /\ kind' = kind BY DEF TurnInv, Moves
  <2> HIDE DEF Pos
  <2>5. QED BY <2>2, <2>3, <2>4 DEF PairTurn
<1>4. PairTurn(p)'
  <2> DEFINE k == kind[Child[p]]
             x == Pos(p)
             y == Pos(Child[p])
  <2>1. k \in ChildKinds /\ x \in Nat \ {0} /\ y \in Nat \ {0} /\ p # Child[p]
    BY PairTypes DEF TurnInv
  <2>2. Turn(k, x, y, token[p], policy[Child[p]]) BY DEF TurnInv, PairTurn
  <2>3. /\ a = p => /\ x' = x + 1 /\ y' = y
                    /\ KindOf(p) = ParentKind(k) /\ KindOf(p) \in PlanKinds
                    /\ x \in 1..Len(Plan[KindOf(p)]) /\ Plan[KindOf(p)][x] = c
        /\ a = Child[p] => /\ x' = x /\ y' = y + 1
                           /\ KindOf(a) = k /\ KindOf(a) \in PlanKinds
                           /\ y \in 1..Len(Plan[KindOf(a)]) /\ Plan[KindOf(a)][y] = c
    BY PairMoves DEF TurnInv
  <2>4. k' = k BY DEF Moves
  <2>5. SUFFICES Turn(k, x', y', v, w) BY <1>1, <2>4 DEF PairTurn
  <2>6. token[p] \in 0..1 /\ policy[Child[p]] \in Policies BY <1>1 DEF TurnInv
  <2> HIDE DEF k, x, y
  <2>7. CASE a = p
    <3>1. /\ c = "mode" => (k = "running" /\ x = 4) \/ (k = "suspended" /\ x = 3)
          /\ c = "write" => k = "suspended" /\ x = 5
          /\ c = "read" => k = "running" /\ x = 1
      BY <2>1, <2>3, <2>7, PlacesOf DEF ParentKind, ChildKinds
    <3>2. QED BY <2>1, <2>2, <2>3, <2>6, <2>7, <3>1 DEF Turn
  <2>8. CASE a = Child[p]
    <3>1. /\ c = "job" => y = 4
          /\ c = "write" => k = "running" /\ y = 2
          /\ c = "read" => k = "suspended" /\ y = 2
      BY <2>1, <2>3, <2>8, PlacesOf DEF ChildKinds
    <3>2. QED BY <2>1, <2>2, <2>3, <2>6, <2>8, <3>1 DEF Turn
  <2>9. QED BY <2>7, <2>8
<1>5. QED BY <1>1, <1>2, <1>3, <1>4 DEF TurnInv, Moves
LEMMA ReturnMoves ==
  ASSUME PlanInv, NEW a \in Actor, NEW c, Calls(a, c), Return(a), kind' = kind
  PROVE  Moves(a, c)
  BY CallsAt, ReturnActs DEF Moves, Acts

LEMMA TurnFails ==
  ASSUME TurnInv, NEW a \in Actor, Fail(a), UNCHANGED <<kind, policy, token>>
  PROVE  TurnInv'
<1>1. PlanInv' /\ \A b \in Actor : Pos(b)' = Pos(b) BY FailActs DEF Acts, TurnInv
<1>2. QED BY <1>1, TurnStays

\* A call that returns and is not about the turns.
LEMMA TurnReturns ==
  ASSUME TurnInv, NEW a \in Actor, NEW c, Calls(a, c), Return(a),
         UNCHANGED <<kind, policy, token>>,
         c \in {"read_mapping", "setaffinity", "migrate", "first_cpu", "param", "check", "wait"}
  PROVE  TurnInv'
<1>1. Moves(a, c) BY ReturnMoves DEF TurnInv
<1>2. QED BY <1>1, TurnQuiet

LEMMA TurnNext == ASSUME TurnInv, [Next]_vars PROVE TurnInv'
<1>1. CASE UNCHANGED vars
  <2>1. UNCHANGED <<kind, todo, policy, token>> BY <1>1 DEF vars, library, kernel
  <2>2. PlanInv' /\ \A b \in Actor : Pos(b)' = Pos(b) BY <2>1, Stays DEF TurnInv
  <2>3. QED BY <2>1, <2>2, TurnStays
<1>2. ASSUME NEW t \in Task, OwnStep(t) PROVE TurnInv'
  <2>1. t \in Actor BY DEF Actor
  <2>2. CASE ReadDomain(t)
    <3>1. Calls(t, "read_mapping") /\ UNCHANGED <<kind, policy, token>> /\ (Return(t) \/ Fail(t))
      BY <2>2 DEF ReadDomain, kernel
    <3>2. QED BY <2>1, <3>1, TurnReturns, TurnFails
  <2>3. CASE SetAffinity(t)
    <3>1. Calls(t, "setaffinity") /\ UNCHANGED <<kind, policy, token>> /\ (Return(t) \/ Fail(t))
      BY <2>3 DEF SetAffinity, MoveTo, kernel
    <3>2. QED BY <2>1, <3>1, TurnReturns, TurnFails
  <2>4. CASE MigrateToCpu(t)
    <3>1. Calls(t, "migrate") /\ UNCHANGED <<kind, policy, token>> /\ (Return(t) \/ Fail(t))
      BY <2>4 DEF MigrateToCpu, MoveTo, kernel
    <3>2. QED BY <2>1, <3>1, TurnReturns, TurnFails
  <2>5. CASE LookUpFirstCpu(t)
    <3>1. Calls(t, "first_cpu") /\ UNCHANGED <<kind, policy, token>> /\ Return(t)
      BY <2>5 DEF LookUpFirstCpu, kernel
    <3>2. QED BY <2>1, <3>1, TurnReturns
  <2>6. CASE SetParam(t, t, cpu[t])
    <3>1. Calls(t, "param") /\ UNCHANGED <<kind, policy, token>> /\ (Return(t) \/ Fail(t))
      BY <2>6 DEF SetParam
    <3>2. QED BY <2>1, <3>1, TurnReturns, TurnFails
  <2>7. CASE BecomeRealTime(t, t)
    <3>1. Calls(t, "mode") /\ UNCHANGED <<kind, token>> BY <2>7 DEF BecomeRealTime
    <3>2. CASE Fail(t) /\ UNCHANGED policy BY <2>1, <3>1, <3>2, TurnFails
    <3>3. CASE Return(t) /\ policy' = [policy EXCEPT ![t] = "SCHED_LITMUS"]
      <4>1. Moves(t, "mode") BY <2>1, <3>1, <3>3, ReturnMoves DEF TurnInv
      <4>2. ~IsChild(t)
        <5>1. KindOf(t) \in PlanKinds /\ Pos(t) \in 1..Len(Plan[KindOf(t)])
              /\ Plan[KindOf(t)][Pos(t)] = "mode"
          BY <4>1 DEF Moves, AtCall
        <5>2. KindOf(t) \notin ChildKinds BY <5>1, PlacesOf DEF ChildKinds
        <5>3. QED BY <5>2 DEF KindOf, TurnInv, PlanInv, KindInv
      <4>3. QED BY <3>1, <3>3, <4>1, <4>2, TurnOwn DEF Policies
    <3>4. QED BY <2>7, <3>2, <3>3 DEF BecomeRealTime
  <2>8. CASE Job(t)
    <3>1. Calls(t, "job") /\ UNCHANGED <<kind, token>> BY <2>8 DEF Job
    <3>2. policy' = [policy EXCEPT ![t] = IF IsChild(t) THEN "SCHED_NORMAL" ELSE @]
      BY <2>8 DEF Job
    <3>3. CASE ~IsChild(t)
      <4>1. UNCHANGED policy BY <3>2, <3>3 DEF TurnInv
      <4>2. CASE policy[t] = "SCHED_LITMUS"
        <5>1. Moves(t, "job") BY <2>1, <2>8, <3>1, <4>2, ReturnMoves DEF Job, TurnInv
        <5>2. QED BY <3>1, <3>3, <4>1, <4>2, <5>1, TurnQuiet
      <4>3. CASE policy[t] # "SCHED_LITMUS"
        <5>1. Fail(t) BY <2>8, <4>3 DEF Job
        <5>2. QED BY <2>1, <3>1, <4>1, <5>1, TurnFails
      <4>4. QED BY <4>2, <4>3
    <3>4. CASE IsChild(t)
      <4>1. policy[t] = "SCHED_LITMUS" BY <3>1, <3>4, TurnWakes DEF WakesRealTime
      <4>2. PICK p \in Parent : t = Child[p] BY <3>4 DEF IsChild
      <4>3. Moves(t, "job") BY <2>1, <2>8, <3>1, <4>1, ReturnMoves DEF Job, TurnInv
      <4>4. policy' = [policy EXCEPT ![Child[p]] = "SCHED_NORMAL"] BY <3>2, <3>4, <4>2
      <4>5. token' = [token EXCEPT ![p] = token[p]] /\ token[p] \in 0..1 BY <3>1 DEF TurnInv
      <4>6. QED BY <4>2, <4>3, <4>4, <4>5, TurnPair DEF Policies
    <3>5. QED BY <3>3, <3>4
  <2>9. CASE BecomeBackground(t)
    <3>1. Calls(t, "leave") /\ UNCHANGED <<kind, token>> /\ Return(t)
          /\ policy' = [policy EXCEPT ![t] = "SCHED_NORMAL"]
      BY <2>9 DEF BecomeBackground
    <3>2. Moves(t, "leave") BY <2>1, <3>1, ReturnMoves DEF TurnInv
    <3>3. ~IsChild(t)
      <4>1. KindOf(t) \in PlanKinds /\ Pos(t) \in 1..Len(Plan[KindOf(t)])
            /\ Plan[KindOf(t)][Pos(t)] = "leave"
        BY <3>2 DEF Moves, AtCall
      <4>2. KindOf(t) \notin ChildKinds BY <4>1, PlacesOf DEF ChildKinds
      <4>3. QED BY <4>2 DEF KindOf, TurnInv, PlanInv, KindInv
    <3>4. QED BY <3>1, <3>2, <3>3, TurnOwn DEF Policies
  <2>10. QED BY <1>2, <2>2, <2>3, <2>4, <2>5, <2>6, <2>7, <2>8, <2>9 DEF OwnStep
<1>3. ASSUME NEW p \in Parent, NEW a \in {p, Child[p]},
             WriteToken(a, p) \/ ReadToken(a, p)
      PROVE  TurnInv'
  <2>1. p \in Actor /\ a \in Actor /\ Child[p] \in Task
    BY AdmissionAssumption DEF Actor
  <2>2. UNCHANGED <<kind, policy>> /\ Return(a) BY <1>3 DEF WriteToken, ReadToken, kernel
  <2>3. policy' = [policy EXCEPT ![Child[p]] = policy[Child[p]]] /\ policy[Child[p]] \in Policies
    BY <2>1, <2>2 DEF TurnInv
  <2>4. CASE WriteToken(a, p)
    <3>1. Moves(a, "write") BY <2>1, <2>2, <2>4, ReturnMoves DEF WriteToken, TurnInv
    <3>2. token' = [token EXCEPT ![p] = 1] BY <2>4 DEF WriteToken
    <3>3. 1 \in 0..1 OBVIOUS
    <3>4. QED BY <2>3, <3>1, <3>2, <3>3, TurnPair
  <2>5. CASE ReadToken(a, p)
    <3>1. Moves(a, "read") BY <2>1, <2>2, <2>5, ReturnMoves DEF ReadToken, TurnInv
    <3>2. token' = [token EXCEPT ![p] = 0] /\ token[p] = 1 BY <2>5 DEF ReadToken
    <3>3. 0 \in 0..1 OBVIOUS
    <3>4. QED BY <2>3, <3>1, <3>2, <3>3, TurnPair
  <2>6. QED BY <1>3, <2>4, <2>5
<1>4. ASSUME NEW a \in Actor, NEW t, CheckMode(a, t) PROVE TurnInv'
  <2>1. Calls(a, "check") /\ UNCHANGED <<kind, policy, token>> /\ (Return(a) \/ Fail(a))
    BY <1>4 DEF CheckMode, kernel
  <2>2. QED BY <2>1, TurnReturns, TurnFails
<1>5. ASSUME NEW t \in Task, ChildStep(t) PROVE TurnInv'
  <2>1. PICK p \in Parent : t = Child[p] BY <1>5 DEF ChildStep, IsChild
  <2>2. ParentOf(t) = p BY <2>1, AdmissionAssumption DEF ParentOf, IsInjective
  <2>3. t \in Actor BY DEF Actor
  <2>4. CASE Poll(t)
    <3>1. policy[t] = "SCHED_LITMUS" /\ UNCHANGED <<kind, policy, token>> BY <2>4 DEF Poll, kernel
    <3>2. Moves(t, "poll") BY <2>3, <2>4, <3>1, ReturnMoves DEF Poll, TurnInv
    <3>3. QED BY <3>1, <3>2, TurnQuiet
  <2>5. CASE CheckMode(t, t) BY <1>4, <2>3, <2>5
  <2>6. CASE WriteToken(t, p) \/ ReadToken(t, p) BY <1>3, <2>1, <2>6
  <2>7. QED BY <1>5, <2>2, <2>4, <2>5, <2>6 DEF ChildStep
<1>6. ASSUME NEW t \in Task, Balance(t) PROVE TurnInv'
  <2>1. UNCHANGED <<kind, todo, policy, token>> BY <1>6 DEF Balance, library
  <2>2. PlanInv' /\ \A b \in Actor : Pos(b)' = Pos(b) BY <2>1, Stays DEF TurnInv
  <2>3. QED BY <2>1, <2>2, TurnStays
<1>7. CASE SetSched
  <2>1. UNCHANGED <<kind, todo, policy, token>> BY <1>7 DEF SetSched, library
  <2>2. PlanInv' /\ \A b \in Actor : Pos(b)' = Pos(b) BY <2>1, Stays DEF TurnInv
  <2>3. QED BY <2>1, <2>2, TurnStays
<1>8. ASSUME NEW p \in Parent, ParentStep(p) PROVE TurnInv'
  <2>1. p \in Actor /\ Child[p] \in Actor /\ Child[p] \in Task
    BY AdmissionAssumption DEF Actor
  <2>2. CASE ReadToken(p, p) \/ WriteToken(p, p) BY <1>3, <2>2
  <2>3. CASE LtSleep(p)
    <3>1. Calls(p, "sleep") /\ UNCHANGED <<kind, policy, token>> /\ Return(p)
      BY <2>3 DEF LtSleep, kernel
    <3>2. Moves(p, "sleep") BY <2>1, <3>1, ReturnMoves DEF TurnInv
    <3>3. QED BY <3>1, <3>2, TurnQuiet
  <2>4. CASE SetParam(p, Child[p], 0)
    <3>1. Calls(p, "param") /\ UNCHANGED <<kind, policy, token>> /\ (Return(p) \/ Fail(p))
      BY <2>4 DEF SetParam
    <3>2. QED BY <2>1, <3>1, TurnReturns, TurnFails
  <2>5. CASE BecomeRealTime(p, Child[p])
    <3>1. Calls(p, "mode") /\ UNCHANGED <<kind, token>> BY <2>5 DEF BecomeRealTime
    <3>2. CASE Fail(p) /\ UNCHANGED policy BY <2>1, <3>1, <3>2, TurnFails
    <3>3. CASE Return(p) /\ policy' = [policy EXCEPT ![Child[p]] = "SCHED_LITMUS"]
      <4>1. Moves(p, "mode") BY <2>1, <3>1, <3>3, ReturnMoves DEF TurnInv
      <4>2. token' = [token EXCEPT ![p] = token[p]] /\ token[p] \in 0..1 BY <3>1 DEF TurnInv
      <4>3. QED BY <3>3, <4>1, <4>2, TurnPair DEF Policies
    <3>4. QED BY <2>5, <3>2, <3>3 DEF BecomeRealTime
  <2>6. CASE CheckMode(p, Child[p]) BY <1>4, <2>1, <2>6
  <2>7. CASE WaitForChild(p)
    <3>1. Calls(p, "wait") /\ UNCHANGED <<kind, policy, token>> /\ (Return(p) \/ Fail(p))
      BY <2>7 DEF WaitForChild, kernel
    <3>2. QED BY <2>1, <3>1, TurnReturns, TurnFails
  <2>8. QED BY <1>8, <2>2, <2>3, <2>4, <2>5, <2>6, <2>7 DEF ParentStep
<1>9. QED BY <1>1, <1>2, <1>5, <1>6, <1>7, <1>8 DEF Next

\* Only the parent that sleeps goes past the point where its child must wait.
LEMMA OnTimeMoves ==
  ASSUME PlanInv, OnTime, NEW a \in Actor, NEW c, Moves(a, c), late \subseteq late',
         c = "sleep" /\ a \in Parent => LtSleep(a)
  PROVE  OnTime'
<1>1. SUFFICES ASSUME NEW p \in Parent PROVE InTime(p)' BY DEF OnTime
<1> DEFINE k == kind[Child[p]]
           x == Pos(p)
           y == Pos(Child[p])
<1>2. k \in ChildKinds /\ x \in Nat \ {0} /\ y \in Nat \ {0} /\ k' = k
  BY PairTypes DEF Moves
<1>3. k = "suspended" /\ x >= 2 => y >= 2 \/ Child[p] \in late BY DEF OnTime, InTime
<1>4. /\ a = p => /\ x' = x + 1 /\ y' = y
                  /\ KindOf(p) = ParentKind(k) /\ KindOf(p) \in PlanKinds
                  /\ x \in 1..Len(Plan[KindOf(p)]) /\ Plan[KindOf(p)][x] = c
      /\ a = Child[p] => x' = x /\ y' = y + 1
      /\ a \notin {p, Child[p]} => x' = x /\ y' = y
  BY PairMoves
<1>5. ASSUME a = p, k = "suspended", x = 1 PROVE y >= 2 \/ Child[p] \in late'
  <2>1. Plan[KindOf(p)][x] = "sleep" BY <1>4, <1>5, PlansAre DEF ParentKind
  <2>2. LtSleep(p) BY <1>4, <1>5, <2>1
  <2>3. CASE Calls(Child[p], "read")
    <3>1. AtCall(Child[p], "read") /\ KindOf(Child[p]) = k BY <2>3, CallsAt, PairTypes
    <3>2. y = 2 BY <1>5, <3>1, PlacesOf DEF AtCall
    <3>3. QED BY <3>2
  <2>4. CASE ~Calls(Child[p], "read") BY <1>5, <2>2, <2>4 DEF LtSleep
  <2>5. QED BY <2>3, <2>4
<1>6. SUFFICES k' = "suspended" /\ x' >= 2 => y' >= 2 \/ Child[p] \in late' BY DEF InTime
<1> HIDE DEF k, x, y
<1>7. QED BY <1>2, <1>3, <1>4, <1>5

\* Every step is one call of one actor, or leaves everybody where he is.
LEMMA StepIs ==
  ASSUME [Next]_vars
  PROVE  /\ kind' = kind /\ late \subseteq late' /\ late' \subseteq late \cup Task
         /\ \/ todo' = todo
            \/ \E a \in Actor, c \in AllCalls :
                 /\ Calls(a, c) /\ Return(a)
                 /\ c = "sleep" => a \in Parent /\ LtSleep(a)
<1> DEFINE One == \E a \in Actor, c \in AllCalls :
                    /\ Calls(a, c) /\ Return(a)
                    /\ c = "sleep" => a \in Parent /\ LtSleep(a)
<1>1. ASSUME NEW a \in Actor, NEW c \in AllCalls \ {"sleep"}, Calls(a, c), Return(a) \/ Fail(a)
      PROVE  todo' = todo \/ One
  BY <1>1 DEF Fail
<1> HIDE DEF One
<1>2. ASSUME UNCHANGED vars PROVE kind' = kind /\ late' = late /\ todo' = todo
  BY <1>2 DEF vars, library
<1>3. ASSUME NEW t \in Task, OwnStep(t)
      PROVE  kind' = kind /\ late' = late /\ (todo' = todo \/ One)
  <2>1. t \in Actor BY DEF Actor
  <2>2. kind' = kind /\ late' = late /\ (Return(t) \/ Fail(t))
    BY <1>3 DEF OwnStep, ReadDomain, SetAffinity, MigrateToCpu, LookUpFirstCpu, SetParam,
                BecomeRealTime, Job, BecomeBackground
  <2>3. \E c \in AllCalls \ {"sleep"} : Calls(t, c)
    BY <1>3 DEF OwnStep, ReadDomain, SetAffinity, MigrateToCpu, LookUpFirstCpu, SetParam,
                BecomeRealTime, Job, BecomeBackground, AllCalls
  <2>4. QED BY <1>1, <2>1, <2>2, <2>3
<1>4. ASSUME NEW t \in Task, ChildStep(t)
      PROVE  kind' = kind /\ late' = late /\ (todo' = todo \/ One)
  <2>1. t \in Actor BY DEF Actor
  <2>2. kind' = kind /\ late' = late /\ (Return(t) \/ Fail(t))
    BY <1>4 DEF ChildStep, WriteToken, ReadToken, Poll, CheckMode
  <2>3. \E c \in AllCalls \ {"sleep"} : Calls(t, c)
    BY <1>4 DEF ChildStep, WriteToken, ReadToken, Poll, CheckMode, AllCalls
  <2>4. QED BY <1>1, <2>1, <2>2, <2>3
<1>5. ASSUME NEW p \in Parent, ParentStep(p)
      PROVE  /\ kind' = kind /\ late \subseteq late' /\ late' \subseteq late \cup Task
             /\ todo' = todo \/ One
  <2>1. p \in Actor BY DEF Actor
  <2>2. CASE LtSleep(p)
    <3>1. Calls(p, "sleep") /\ Return(p) /\ kind' = kind /\ late \subseteq late'
      BY <2>2 DEF LtSleep
    <3>2. Child[p] \in Task BY AdmissionAssumption
    <3>3. late' \subseteq late \cup Task BY <2>2, <3>2 DEF LtSleep
    <3>4. QED BY <2>1, <2>2, <3>1, <3>3 DEF One, AllCalls
  <2>3. CASE ~LtSleep(p)
    <3>1. kind' = kind /\ late' = late /\ (Return(p) \/ Fail(p))
      BY <1>5, <2>3 DEF ParentStep, ReadToken, WriteToken, SetParam, BecomeRealTime, CheckMode,
                        WaitForChild
    <3>2. \E c \in AllCalls \ {"sleep"} : Calls(p, c)
      BY <1>5, <2>3 DEF ParentStep, ReadToken, WriteToken, SetParam, BecomeRealTime, CheckMode,
                        WaitForChild, AllCalls
    <3>3. QED BY <1>1, <2>1, <3>1, <3>2
  <2>4. QED BY <2>2, <2>3
<1>6. ASSUME NEW t \in Task, Balance(t) PROVE kind' = kind /\ late' = late /\ todo' = todo
  BY <1>6 DEF Balance, library
<1>7. ASSUME SetSched PROVE kind' = kind /\ late' = late /\ todo' = todo
  BY <1>7 DEF SetSched, library
<1>8. /\ kind' = kind /\ late \subseteq late' /\ late' \subseteq late \cup Task
      /\ todo' = todo \/ One
  BY <1>2, <1>3, <1>4, <1>5, <1>6, <1>7 DEF Next
<1>9. QED BY <1>8 DEF One

LEMMA OnTimeNext == ASSUME PlanInv, OnTime, [Next]_vars PROVE OnTime'
<1>1. CASE todo' = todo
  <2>1. kind' = kind /\ late \subseteq late' BY StepIs
  <2>2. \A b \in Actor : Pos(b)' = Pos(b) BY <1>1, <2>1, Stays
  <2>3. ASSUME NEW p \in Parent PROVE InTime(p)'
    <3>1. p \in Actor /\ Child[p] \in Actor BY PairTypes
    <3>2. Pos(p)' = Pos(p) /\ Pos(Child[p])' = Pos(Child[p]) BY <2>2, <3>1
    <3>3. InTime(p) BY DEF OnTime
    <3> HIDE DEF Pos
    <3>4. QED BY <2>1, <3>2, <3>3 DEF InTime
  <2>4. QED BY <2>3 DEF OnTime
<1>2. ASSUME NEW a \in Actor, NEW c \in AllCalls, Calls(a, c), Return(a),
             c = "sleep" => a \in Parent /\ LtSleep(a)
      PROVE  OnTime'
  <2>1. kind' = kind /\ late \subseteq late' BY StepIs
  <2>2. Moves(a, c) BY <1>2, <2>1, ReturnMoves
  <2>3. QED BY <1>2, <2>1, <2>2, OnTimeMoves
<1>3. QED BY <1>1, <1>2, StepIs

LEMMA TurnInit == ASSUME Init PROVE TurnInv /\ OnTime
<1>1. PlanInv /\ \A a \in Actor : Pos(a) = 1 BY PlanInit
<1>2. policy = [t \in Task |-> "SCHED_NORMAL"] /\ token = [p \in Parent |-> 0]
  BY DEF Init
<1>3. policy \in [Task -> Policies] /\ token \in [Parent -> 0..1] BY <1>2 DEF Policies
<1>4. \A t \in Task : OwnTurn(t) BY <1>2 DEF OwnTurn
<1>5. ASSUME NEW p \in Parent PROVE PairTurn(p) /\ InTime(p)
  <2>1. Child[p] \in Task /\ p \in Actor /\ Child[p] \in Actor
    BY AdmissionAssumption DEF Actor
  <2>2. Pos(p) = 1 /\ Pos(Child[p]) = 1 /\ policy[Child[p]] = "SCHED_NORMAL" /\ token[p] = 0
    BY <1>1, <1>2, <2>1
  <2> HIDE DEF Pos
  <2>3. QED BY <2>2 DEF PairTurn, Turn, InTime
<1>6. QED BY <1>1, <1>3, <1>4, <1>5 DEF TurnInv, OnTime
-----------------------------------------------------------------------------
(* What the library reads of the mapping.                                  *)

DigitsEnough == digits \in Nat \ {0} /\ \A c \in Cpu : c < digits * CharBits

\* The mask of a file, unless there is no such file or no room for it.
LEMMA ReadsFileMask ==
  ASSUME DigitsEnough, NEW files, NEW idx,
         idx \in DOMAIN files => files[idx] \subseteq {x \in Nat : x < digits * CharBits}
  PROVE  LET mapping == ReadMapping(online, files, idx, digits) IN
           /\ mapping = [ret |-> mapping.ret, set |-> mapping.set]
           /\ IF idx \in DOMAIN files /\ ~(Cardinality(online) > MaxCpus)
              THEN mapping.ret = 0 /\ mapping.set = files[idx]
              ELSE mapping.ret = -1 /\ mapping.set = {}
<1> DEFINE mapping == ReadMapping(online, files, idx, digits)
<1>1. CASE idx \in DOMAIN files /\ ~(Cardinality(online) > MaxCpus)
  <2>1. ParseMapping(MaskText(files[idx], digits)) = files[idx]
    BY <1>1, ReadsMask DEF DigitsEnough
  <2>2. mapping = [ret |-> 0, set |-> files[idx]] BY <1>1, <2>1 DEF ReadMapping
  <2>3. QED BY <1>1, <2>2
<1>2. CASE ~(idx \in DOMAIN files /\ ~(Cardinality(online) > MaxCpus))
  <2>1. mapping = [ret |-> -1, set |-> {}] BY <1>2 DEF ReadMapping
  <2>2. QED BY <1>2, <2>1
<1>3. QED BY <1>1, <1>2

\* What the processors of a domain, and the domains, are numbered by.
LEMMA Numbers ==
  ASSUME domains \in Plugins
  PROVE  /\ \A i \in DOMAIN domains : domains[i] \subseteq Cpu /\ i \in Nat
         /\ Cpu \subseteq Nat
         /\ \A i \in DOMAIN domains : \E c \in Cpu : i <= c
<1>1. ASSUME NEW i \in DOMAIN domains, NEW c \in domains[i] PROVE c \in Cpu
  <2>1. c \in UNION {domains[j] : j \in DOMAIN domains} OBVIOUS
  <2>2. UNION {domains[j] : j \in DOMAIN domains}
          \in {UNION {d[j] : j \in DOMAIN d} : d \in Plugins}
    OBVIOUS
  <2> DEFINE sets == {UNION {d[j] : j \in DOMAIN d} : d \in Plugins}
             here == UNION {domains[j] : j \in DOMAIN domains}
  <2>3. Cpu = (UNION Onlines) \cup UNION sets BY DEF Cpu
  <2>4. c \in here /\ here \in sets BY <2>1, <2>2
  <2> HIDE DEF here, sets
  <2>5. QED BY <2>3, <2>4
<1>2. QED BY <1>1, AdmissionAssumption

\* The two ways in which the mapping is read.
LEMMA ReadsDomain ==
  ASSUME DigitsEnough, domains \in Plugins, NEW idx
  PROVE  LET mapping == ReadMapping(online, domains, idx, digits) IN
           /\ mapping = [ret |-> mapping.ret, set |-> mapping.set]
           /\ IF idx \in DOMAIN domains /\ ~(Cardinality(online) > MaxCpus)
              THEN mapping.ret = 0 /\ mapping.set = domains[idx]
              ELSE mapping.ret = -1 /\ mapping.set = {}
<1>1. ASSUME idx \in DOMAIN domains
      PROVE  domains[idx] \subseteq {x \in Nat : x < digits * CharBits}
  BY <1>1, Numbers DEF DigitsEnough
<1>2. QED BY <1>1, ReadsFileMask

LEMMA ReadsCpuFile ==
  ASSUME DigitsEnough, domains \in Plugins, NEW c
  PROVE  LET mapping == ReadMapping(online, CpuFiles, c, digits) IN
           /\ mapping = [ret |-> mapping.ret, set |-> mapping.set]
           /\ IF c \in DOMAIN CpuFiles /\ ~(Cardinality(online) > MaxCpus)
              THEN mapping.ret = 0 /\ mapping.set = CpuFiles[c]
              ELSE mapping.ret = -1 /\ mapping.set = {}
<1>1. ASSUME c \in DOMAIN CpuFiles
      PROVE  CpuFiles[c] \subseteq {x \in Nat : x < digits * CharBits}
  <2>1. CpuFiles[c] = {i \in DOMAIN domains : c \in domains[i]} BY <1>1 DEF CpuFiles
  <2>2. ASSUME NEW i \in DOMAIN domains PROVE i \in Nat /\ i < digits * CharBits
    <3>1. PICK k \in Cpu : i <= k BY Numbers
    <3>2. i \in Nat /\ k \in Nat /\ k < digits * CharBits BY Numbers DEF DigitsEnough
    <3>3. digits * CharBits \in Nat BY Sizes DEF DigitsEnough
    <3>4. QED BY <3>1, <3>2, <3>3
  <2>3. QED BY <2>1, <2>2
<1>2. QED BY <1>1, ReadsFileMask

\* The two sides tell the same, up to the bits of the results.
LEMMA Agree == ASSUME DigitsEnough, domains \in Plugins PROVE MasksAgree
<1>1. SUFFICES ASSUME NEW i \in DOMAIN domains, i \in 0..UllBits-1,
                      NEW c \in online, c \in 0..UllBits-1
               PROVE  c \in ToMask(online, domains, i, digits).set
                        <=> i \in ToMask(online, CpuFiles, c, digits).set
  BY Zenon DEF MasksAgree
<1> DEFINE few == ~(Cardinality(online) > MaxCpus)
           dmask == ReadMapping(online, domains, i, digits)
           cmask == ReadMapping(online, CpuFiles, c, digits)
<1>2. DOMAIN CpuFiles = online /\ CpuFiles[c] = {j \in DOMAIN domains : c \in domains[j]}
  BY DEF CpuFiles
<1>3. dmask = [ret |-> dmask.ret, set |-> dmask.set]
      /\ dmask.set = IF few THEN domains[i] ELSE {}
  BY ReadsDomain
<1>4. cmask = [ret |-> cmask.ret, set |-> cmask.set]
      /\ cmask.set = IF few THEN {j \in DOMAIN domains : c \in domains[j]} ELSE {}
  BY <1>2, ReadsCpuFile
<1>5. CASE Cardinality(online) > UllBits BY <1>5 DEF ToMask
<1>6. CASE ~(Cardinality(online) > UllBits)
  <2> HIDE DEF few, dmask, cmask
  <2>1. [dmask EXCEPT !.set = @ \cap 0..UllBits-1].set = dmask.set \cap 0..UllBits-1 BY <1>3
  <2>2. [cmask EXCEPT !.set = @ \cap 0..UllBits-1].set = cmask.set \cap 0..UllBits-1 BY <1>4
  <2>3. ToMask(online, domains, i, digits).set = dmask.set \cap 0..UllBits-1
    BY <1>6, <2>1 DEF ToMask, dmask
  <2>4. ToMask(online, CpuFiles, c, digits).set = cmask.set \cap 0..UllBits-1
    BY <1>6, <2>2 DEF ToMask, cmask
  <2>5. c \in dmask.set <=> i \in cmask.set BY <1>3, <1>4
  <2>6. QED BY <1>1, <2>3, <2>4, <2>5
<1>7. QED BY <1>5, <1>6

\* The first processor of a domain, if its number is below that of the processors.
LEMMA FirstIs ==
  ASSUME NEW S \in SUBSET Nat, NEW n \in Nat
  PROVE  /\ FirstAmong(S, n) \in S \cup {-1}
         /\ FirstAmong(S, n) # -1 => FirstAmong(S, n) = Min(S)
         /\ (\E x \in S : x < n) => FirstAmong(S, n) # -1 /\ FirstAmong(S, n) < n
<1> DEFINE found == {i \in 0..n-1 : i \in S}
<1>1. found \in SUBSET Nat /\ \A x \in S : x \in found <=> x < n OBVIOUS
<1>2. FirstAmong(S, n) = IF found = {} THEN -1 ELSE Min(found) BY DEF FirstAmong
<1> HIDE DEF found
<1>3. CASE found = {} BY <1>1, <1>2, <1>3
<1>4. CASE found # {}
  <2>1. Min(found) \in found /\ \A x \in found : Min(found) <= x BY <1>1, <1>4, MinIs
  <2>2. S # {} BY <1>4 DEF found
  <2>3. Min(S) \in S /\ \A x \in S : Min(S) <= x BY <2>2, MinIs
  <2>4. Min(found) \in S /\ Min(found) < n /\ Min(found) \in Nat /\ Min(S) \in Nat
    <3>1. found \subseteq S BY DEF found
    <3>2. QED BY <1>1, <2>1, <2>3, <3>1
  <2>5. Min(S) <= Min(found) BY <2>3, <2>4
  <2>6. Min(S) < n BY <2>4, <2>5
  <2>7. Min(S) \in found BY <1>1, <2>3, <2>6
  <2>8. Min(found) <= Min(S) BY <2>1, <2>7
  <2>9. Min(found) = Min(S) BY <2>4, <2>5, <2>8
  <2>10. QED BY <1>2, <1>4, <2>4, <2>9
<1>5. QED BY <1>3, <1>4
-----------------------------------------------------------------------------
(* Who is where.                                                           *)

DataInv ==
  /\ failed \subseteq Actor /\ switched \subseteq Actor
  /\ token \in [Parent -> 0..1]
  /\ mask \in [Task -> SUBSET Cpu]
  /\ DOMAIN cpu = Task /\ \A t \in Task : cpu[t] \in Cpu \cup {-1, 0, Asked[t]}
  /\ affinity \in [Task -> SUBSET Cpu] /\ at \in [Task -> online]
  /\ rt_cpu \in [Task -> online \cup {-1}]
  /\ policy \in [Task -> Policies]
  /\ domains \in Plugins /\ online \in Onlines /\ digits \in DigitCounts
  /\ DigitsEnough

\* The calls during which a task that is no child is in real-time mode.
RealTimeAt(k) == IF k = "domain" THEN 6..7 ELSE 4..5

\* A task that asks for a domain, at the call x: it knows the mask, has moved,
\* knows the first processor and has it as its parameter, unless the plugin was
\* switched.
DomainWay(t, x) ==
  kind[t] = "domain" /\ t \notin switched =>
    /\ x \in 2..7 => Asked[t] \in DOMAIN domains /\ mask[t] = domains[Asked[t]]
                     /\ ~(Cardinality(online) > MaxCpus)
    /\ x \in 3..7 => affinity[t] = domains[Asked[t]] /\ at[t] \in domains[Asked[t]]
    /\ x \in 4..7 => cpu[t] = FirstAmong(domains[Asked[t]], Cardinality(online))
    /\ x \in 5..7 => rt_cpu[t] = cpu[t] /\ cpu[t] \in online

\* The others: the processor first and then the parameter, or the reverse.
CpuWay(t, x) ==
  kind[t] \in {"processor", "test"} =>
    /\ x >= (IF kind[t] = "test" THEN 3 ELSE 2) => affinity[t] = {cpu[t]} /\ at[t] = cpu[t]
    /\ x >= (IF kind[t] = "test" THEN 2 ELSE 3) => rt_cpu[t] = cpu[t]

Way(t) ==
  /\ policy[t] = "SCHED_LITMUS" <=> Pos(t) \in RealTimeAt(kind[t])
  /\ DomainWay(t, Pos(t)) /\ CpuWay(t, Pos(t))

WayInv == PlanInv /\ DataInv /\ \A t \in Task : ~IsChild(t) => Way(t)

LEMMA WayTypes ==
  ASSUME PlanInv, DataInv, late \subseteq Task
  PROVE  TypeOK
<1>1. \A a \in Actor : KindOf(a) \in PlanKinds /\ Len(MyPlan(a)) \in 4..7
  BY KindsAre DEF PlanInv
<1>2. ASSUME NEW a \in Actor
      PROVE  \E k \in DOMAIN Plan : \E n \in 1..Len(Plan[k])+1 : todo[a] = SubSeq(Plan[k], n, Len(Plan[k]))
  <2>1. KindOf(a) \in DOMAIN Plan BY <1>1, PlansAre
  <2>2. Pos(a) \in 1..Len(MyPlan(a)) + 1 /\ todo[a] = SubSeq(MyPlan(a), Pos(a), Len(MyPlan(a)))
    BY DEF PlanInv
  <2> HIDE DEF Pos
  <2>3. QED BY <2>1, <2>2 DEF MyPlan
<1>3. kind \in [Task -> DOMAIN Plan] BY PlansAre DEF PlanInv, KindInv, PlanKinds
<1>4. QED BY <1>2, <1>3 DEF DataInv, TypeOK, Policies

\* The properties follow.
LEMMA WaySent == ASSUME WayInv PROVE SentToDomain
<1>1. SUFFICES ASSUME NEW t \in Task, Calls(t, "setaffinity"), t \notin switched
               PROVE  mask[t] = domains[Asked[t]]
  BY DEF SentToDomain
<1>2. t \in Actor BY DEF Actor
<1>3. AtCall(t, "setaffinity") BY <1>1, <1>2, CallsAt DEF WayInv
<1>4. KindOf(t) = "domain" /\ Pos(t) = 2 BY <1>3, PlacesOf DEF AtCall
<1>5. kind[t] = "domain" BY <1>4 DEF KindOf
<1>6. ~IsChild(t) BY <1>5 DEF WayInv, PlanInv, KindInv, ChildKinds
<1>7. DomainWay(t, 2) BY <1>4, <1>6 DEF WayInv, Way
<1>8. QED BY <1>1, <1>5, <1>7 DEF DomainWay

LEMMA WayMapping == ASSUME WayInv, late \subseteq Task PROVE MappingInv
  BY WayTypes, WaySent, Agree DEF WayInv, DataInv, MappingInv

LEMMA WayInDomain == ASSUME WayInv PROVE InAskedDomain
<1>1. SUFFICES ASSUME NEW t \in Task, policy[t] = "SCHED_LITMUS", kind[t] = "domain",
                      t \notin switched
               PROVE  at[t] \in domains[Asked[t]] /\ rt_cpu[t] = Min(domains[Asked[t]])
  BY DEF InAskedDomain
<1>2. ~IsChild(t) BY <1>1 DEF WayInv, PlanInv, KindInv, ChildKinds
<1>3. Pos(t) \in 6..7 BY <1>1, <1>2 DEF WayInv, Way, RealTimeAt
<1>4. DomainWay(t, Pos(t)) BY <1>2 DEF WayInv, Way
<1> DEFINE S == domains[Asked[t]]
           x == Pos(t)
<1> HIDE DEF x
<1>5. x \in 2..7 /\ x \in 3..7 /\ x \in 4..7 /\ x \in 5..7 BY <1>3 DEF x
<1>6. /\ Asked[t] \in DOMAIN domains /\ at[t] \in S
      /\ cpu[t] = FirstAmong(S, Cardinality(online)) /\ rt_cpu[t] = cpu[t] /\ cpu[t] \in online
  BY <1>1, <1>4, <1>5 DEF DomainWay, x
<1>7. S \in SUBSET Nat BY <1>6, Numbers DEF WayInv, DataInv
<1>8. Cardinality(online) \in Nat
  BY AdmissionAssumption, FS_CardinalityType DEF WayInv, DataInv
<1>9. cpu[t] # -1
  <2>1. online \subseteq Cpu BY DEF Cpu, WayInv, DataInv
  <2>2. cpu[t] \in Nat BY <1>6, <2>1, AdmissionAssumption
  <2>3. QED BY <2>2
<1>10. rt_cpu[t] = Min(S) BY <1>6, <1>7, <1>8, <1>9, FirstIs
<1>11. QED BY <1>6, <1>10
\* Nothing changes that has to do with a task.
Same(u) ==
  /\ Pos(u)' = Pos(u)
  /\ mask'[u] = mask[u] /\ cpu'[u] = cpu[u]
  /\ affinity'[u] = affinity[u] /\ at'[u] = at[u]
  /\ rt_cpu'[u] = rt_cpu[u] /\ policy'[u] = policy[u]

\* A step of one actor that leaves the machine as it is.
Quiet == UNCHANGED <<kind, domains, online, digits, switched>>

LEMMA WayKept == ASSUME NEW u \in Task, Way(u), Same(u), Quiet PROVE Way(u)'
<1> DEFINE x == Pos(u)
<1>1. x' = x /\ (policy'[u] = "SCHED_LITMUS" <=> x \in RealTimeAt(kind[u]))
  BY DEF Way, Same
<1>2. DomainWay(u, x) /\ CpuWay(u, x) BY DEF Way
<1>3. SUFFICES /\ policy'[u] = "SCHED_LITMUS" <=> x' \in RealTimeAt(kind'[u])
               /\ DomainWay(u, x)' /\ CpuWay(u, x)'
  BY DEF Way, RealTimeAt
<1> HIDE DEF x
<1>4. kind'[u] = kind[u] BY DEF Quiet
<1>5. DomainWay(u, x)' BY <1>1, <1>2 DEF DomainWay, Same, Quiet
<1>6. CpuWay(u, x)' BY <1>1, <1>2 DEF CpuWay, Same, Quiet
<1>7. QED BY <1>1, <1>4, <1>5, <1>6

\* What is left to show of a step of a task.
LEMMA WayStep ==
  ASSUME WayInv, Quiet, PlanInv', DataInv', NEW t \in Task,
         \A u \in Task \ {t} : Same(u), ~IsChild(t) => Way(t)'
  PROVE  WayInv'
<1>1. ASSUME NEW u \in Task, ~IsChild(u) PROVE Way(u)'
  <2>1. CASE u = t BY <1>1, <2>1
  <2>2. CASE u # t BY <1>1, <2>2, WayKept DEF WayInv
  <2>3. QED BY <2>1, <2>2
<1>2. \A u \in Task : ~IsChild(u)' => Way(u)' BY <1>1 DEF IsChild
<1>3. QED BY <1>2 DEF WayInv

\* A task that stays where it is in its plan, except for what its kind leaves open.
LEMMA WayFails ==
  ASSUME WayInv, Quiet, NEW a \in Actor, Fail(a),
         UNCHANGED <<token, mask, cpu, affinity, at, rt_cpu, policy>>
  PROVE  WayInv'
<1>1. PlanInv' /\ \A b \in Actor : Pos(b)' = Pos(b)
  BY FailActs DEF Acts, WayInv, Quiet
<1>2. failed' \subseteq Actor BY DEF Fail, WayInv, DataInv
<1>3. DataInv' BY <1>2 DEF WayInv, DataInv, DigitsEnough, Quiet
<1>4. \A u \in Task : Same(u) BY <1>1 DEF Same, Actor
<1>5. ASSUME NEW u \in Task, ~IsChild(u) PROVE Way(u)' BY <1>4, <1>5, WayKept DEF WayInv
<1>6. QED BY <1>1, <1>3, <1>5 DEF WayInv, IsChild

LEMMA WayMoves ==
  ASSUME WayInv, Quiet, NEW a \in Actor, Return(a), NEW c, Calls(a, c),
         UNCHANGED <<mask, cpu, affinity, at, rt_cpu, policy>>,
         token' \in [Parent -> 0..1],
         c \notin {"read_mapping", "setaffinity", "first_cpu", "param", "mode", "leave"},
         a \in Task /\ ~IsChild(a) => c # "migrate"
  PROVE  WayInv'
<1>1. Moves(a, c) /\ failed' = failed BY ReturnMoves, ReturnActs DEF WayInv, Quiet
<1>2. DataInv' BY <1>1 DEF WayInv, DataInv, DigitsEnough, Quiet
<1>3. \A u \in Task \ {a} : Same(u) BY <1>1 DEF Same, Actor, Moves
<1>4. ASSUME a \in Task, ~IsChild(a) PROVE Way(a)'
  <2> DEFINE x == Pos(a)
  <2>1. kind[a] \in OwnKinds /\ KindOf(a) = kind[a]
    BY <1>4 DEF WayInv, PlanInv, KindInv, KindOf
  <2>2. KindOf(a) \in PlanKinds /\ x \in 1..Len(Plan[KindOf(a)]) /\ Plan[KindOf(a)][x] = c
        /\ x' = x + 1 /\ kind' = kind
    BY <1>1 DEF Moves, AtCall
  <2>3. c = "job" /\ (IF kind[a] = "domain" THEN x = 6 ELSE x = 4)
    <3>1. c \in AllCalls
      <4>1. Plan[KindOf(a)] \in Seq(AllCalls) BY <2>2, PlanTypes
      <4>2. QED BY <2>2, <4>1, ElementOfSeq
    <3>2. QED BY <1>4, <2>1, <2>2, <3>1, PlacesOf DEF OwnKinds, AllCalls
  <2>4. (policy[a] = "SCHED_LITMUS" <=> x \in RealTimeAt(kind[a])) /\ DomainWay(a, x) /\ CpuWay(a, x)
    BY <1>4 DEF WayInv, Way
  <2>5. SUFFICES /\ policy'[a] = "SCHED_LITMUS" <=> x' \in RealTimeAt(kind'[a])
                 /\ DomainWay(a, x)' /\ CpuWay(a, x)'
    BY DEF Way
  <2> HIDE DEF x
  <2>6. policy'[a] = "SCHED_LITMUS" <=> x' \in RealTimeAt(kind'[a])
    BY <2>2, <2>3, <2>4 DEF RealTimeAt
  <2>7. DomainWay(a, x + 1) /\ CpuWay(a, x + 1)
    BY <2>1, <2>3, <2>4 DEF DomainWay, CpuWay, OwnKinds
  <2>8. DomainWay(a, x)' BY <2>2, <2>7 DEF DomainWay, Quiet
  <2>9. CpuWay(a, x)' BY <2>2, <2>7 DEF CpuWay, Quiet
  <2>10. QED BY <2>6, <2>8, <2>9
<1>5. CASE a \in Task BY <1>1, <1>2, <1>3, <1>4, <1>5, WayStep DEF Moves
<1>6. CASE a \notin Task
  <2>1. ASSUME NEW u \in Task, ~IsChild(u) PROVE Way(u)'
    BY <1>3, <1>6, <2>1, WayKept DEF WayInv
  <2>2. QED BY <1>1, <1>2, <2>1 DEF WayInv, IsChild, Moves
<1>7. QED BY <1>5, <1>6
\* Where a task that is no child is, and its way so far.
OwnAt(t, c) ==
  /\ kind[t] \in OwnKinds /\ KindOf(t) = kind[t] /\ KindOf(t) \in PlanKinds
  /\ Pos(t) \in 1..Len(Plan[KindOf(t)]) /\ Plan[KindOf(t)][Pos(t)] = c
  /\ policy[t] = "SCHED_LITMUS" <=> Pos(t) \in RealTimeAt(kind[t])
  /\ DomainWay(t, Pos(t)) /\ CpuWay(t, Pos(t))

LEMMA WayAt ==
  ASSUME WayInv, NEW t \in Task, ~IsChild(t), NEW c, Calls(t, c)
  PROVE  OwnAt(t, c)
<1>1. AtCall(t, c) BY CallsAt DEF WayInv, Actor
<1>2. kind[t] \in OwnKinds /\ KindOf(t) = kind[t] BY DEF WayInv, PlanInv, KindInv, KindOf
<1>3. QED BY <1>1, <1>2 DEF WayInv, Way, OwnAt, AtCall

LEMMA WayReadDomain ==
  ASSUME WayInv, NEW t \in Task, ReadDomain(t)
  PROVE  WayInv'
<1> DEFINE mapping == ReadMapping(online, domains, Asked[t], digits)
<1>1. /\ Calls(t, "read_mapping") /\ Quiet /\ mask' = [mask EXCEPT ![t] = mapping.set]
      /\ UNCHANGED <<token, cpu, affinity, at, rt_cpu, policy>>
      /\ IF mapping.ret = 0 THEN Return(t) ELSE Fail(t)
  BY DEF ReadDomain, Quiet, kernel
<1>2. t \in Actor BY DEF Actor
<1>3. IF Asked[t] \in DOMAIN domains /\ ~(Cardinality(online) > MaxCpus)
      THEN mapping.ret = 0 /\ mapping.set = domains[Asked[t]]
      ELSE mapping.ret = -1 /\ mapping.set = {}
  BY ReadsDomain DEF WayInv, DataInv
<1>4. mapping.set \subseteq Cpu BY <1>3, Numbers DEF WayInv, DataInv
<1> HIDE DEF mapping
<1>5. Acts(t) BY <1>1, <1>2, ReturnActs, FailActs DEF WayInv, Quiet
<1>6. failed' \subseteq Actor BY <1>2, <1>5 DEF Acts, WayInv, DataInv
<1>7. mask' \in [Task -> SUBSET Cpu] BY <1>1, <1>4 DEF WayInv, DataInv
<1>8. DataInv' BY <1>1, <1>6, <1>7 DEF WayInv, DataInv, DigitsEnough, Quiet
<1>9. \A u \in Task \ {t} : Same(u) BY <1>1, <1>5 DEF Same, Acts, Actor, WayInv, DataInv
<1>10. ASSUME ~IsChild(t) PROVE Way(t)'
  <2> DEFINE x == Pos(t)
  <2>1. OwnAt(t, "read_mapping") BY <1>1, <1>10, WayAt
  <2>2. kind[t] = "domain" /\ x = 1 BY <2>1, PlacesOf DEF OwnAt
  <2>3. policy[t] = "SCHED_LITMUS" <=> x \in RealTimeAt(kind[t]) BY <2>1 DEF OwnAt
  <2>4. IF mapping.ret = 0 THEN x' = x + 1 ELSE x' = x
    BY <1>1, <1>2, ReturnActs, FailActs DEF WayInv, Quiet
  <2> HIDE DEF x
  <2>5. policy'[t] = "SCHED_LITMUS" <=> x' \in RealTimeAt(kind'[t])
    BY <1>1, <2>2, <2>3, <2>4 DEF RealTimeAt, Quiet
  <2>6. mask'[t] = mapping.set BY <1>1 DEF WayInv, DataInv
  <2>7. x' = 2 => Asked[t] \in DOMAIN domains /\ mask'[t] = domains[Asked[t]]
                  /\ ~(Cardinality(online) > MaxCpus)
    <3>1. ASSUME x' = 2 PROVE mapping.ret # -1 BY <2>2, <2>4, <3>1
    <3>2. QED BY <1>3, <2>6, <3>1
  <2>8. x' \in {1, 2} BY <2>2, <2>4
  <2>9. DomainWay(t, x)' BY <1>1, <2>7, <2>8 DEF DomainWay, Quiet
  <2>10. CpuWay(t, x)' BY <1>1, <2>2 DEF CpuWay, Quiet
  <2>11. QED BY <2>5, <2>9, <2>10 DEF Way, x
<1>11. QED BY <1>1, <1>5, <1>8, <1>9, <1>10, WayStep DEF Acts

LEMMA WaySetAffinity ==
  ASSUME WayInv, NEW t \in Task, SetAffinity(t)
  PROVE  WayInv'
<1>1. /\ Calls(t, "setaffinity") /\ Quiet /\ UNCHANGED <<token, mask, cpu, rt_cpu, policy>>
  BY DEF SetAffinity, MoveTo, Quiet, kernel
<1>2. t \in Actor BY DEF Actor
<1>3. CASE Fail(t) /\ UNCHANGED kernel BY <1>1, <1>2, <1>3, WayFails DEF kernel
<1>4. CASE MoveTo(t, mask[t]) /\ Return(t)
  <2>1. PICK c \in mask[t] \cap online : at' = [at EXCEPT ![t] = c] BY <1>4 DEF MoveTo
  <2>2. affinity' = [affinity EXCEPT ![t] = mask[t]] BY <1>4 DEF MoveTo
  <2>3. Acts(t) /\ Pos(t)' = Pos(t) + 1 /\ failed' = failed
    BY <1>1, <1>2, <1>4, ReturnActs DEF WayInv, Quiet
  <2>4. affinity' \in [Task -> SUBSET Cpu] /\ at' \in [Task -> online]
    BY <2>1, <2>2 DEF WayInv, DataInv
  <2>5. DataInv' BY <1>1, <2>3, <2>4 DEF WayInv, DataInv, DigitsEnough, Quiet
  <2>6. \A u \in Task \ {t} : Same(u)
    BY <1>1, <2>1, <2>2, <2>3 DEF Same, Acts, Actor, WayInv, DataInv
  <2>7. ASSUME ~IsChild(t) PROVE Way(t)'
    <3> DEFINE x == Pos(t)
    <3>1. OwnAt(t, "setaffinity") BY <1>1, <2>7, WayAt
    <3>2. kind[t] = "domain" /\ x = 2 /\ x' = 3 BY <2>3, <3>1, PlacesOf DEF OwnAt
    <3>3. (policy[t] = "SCHED_LITMUS" <=> x \in RealTimeAt(kind[t])) /\ DomainWay(t, x)
      BY <3>1 DEF OwnAt
    <3> HIDE DEF x
    <3>4. policy'[t] = "SCHED_LITMUS" <=> x' \in RealTimeAt(kind'[t])
      BY <1>1, <3>2, <3>3 DEF RealTimeAt, Quiet
    <3>5. affinity'[t] = mask[t] /\ at'[t] \in mask[t] BY <2>1, <2>2 DEF WayInv, DataInv
    <3>6. DomainWay(t, x)' BY <1>1, <3>2, <3>3, <3>5 DEF DomainWay, Quiet
    <3>7. CpuWay(t, x)' BY <1>1, <3>2 DEF CpuWay, Quiet
    <3>8. QED BY <3>4, <3>6, <3>7 DEF Way, x
  <2>8. QED BY <1>1, <2>3, <2>5, <2>6, <2>7, WayStep DEF Acts
<1>5. QED BY <1>3, <1>4 DEF SetAffinity
LEMMA WayMigrate ==
  ASSUME WayInv, NEW t \in Task, MigrateToCpu(t)
  PROVE  WayInv'
<1>1. Calls(t, "migrate") /\ Quiet /\ UNCHANGED <<token, mask, cpu, rt_cpu, policy>>
  BY DEF MigrateToCpu, MoveTo, Quiet, kernel
<1>2. t \in Actor BY DEF Actor
<1>3. CASE Fail(t) /\ UNCHANGED kernel BY <1>1, <1>2, <1>3, WayFails DEF kernel
<1>4. CASE IsChild(t) /\ Return(t) /\ UNCHANGED kernel
  <2>1. UNCHANGED <<affinity, at>> BY <1>4 DEF kernel
  <2>2. token' \in [Parent -> 0..1] BY <1>1 DEF WayInv, DataInv
  <2>3. QED BY <1>1, <1>2, <1>4, <2>1, <2>2, WayMoves
<1>5. CASE MoveTo(t, {cpu[t]}) /\ AffinityAllowed({cpu[t]}) /\ Return(t)
  <2>1. cpu[t] \in online /\ at' = [at EXCEPT ![t] = cpu[t]]
        /\ affinity' = [affinity EXCEPT ![t] = {cpu[t]}]
    BY <1>5 DEF MoveTo, AffinityAllowed
  <2>2. Acts(t) /\ Pos(t)' = Pos(t) + 1 /\ failed' = failed
    BY <1>1, <1>2, <1>5, ReturnActs DEF WayInv, Quiet
  <2>3. online \subseteq Cpu BY DEF Cpu, WayInv, DataInv
  <2>4. affinity' \in [Task -> SUBSET Cpu] /\ at' \in [Task -> online]
    BY <2>1, <2>3 DEF WayInv, DataInv
  <2>5. DataInv' BY <1>1, <2>2, <2>4 DEF WayInv, DataInv, DigitsEnough, Quiet
  <2>6. \A u \in Task \ {t} : Same(u)
    BY <1>1, <2>1, <2>2 DEF Same, Acts, Actor, WayInv, DataInv
  <2>7. ASSUME ~IsChild(t) PROVE Way(t)'
    <3> DEFINE x == Pos(t)
    <3>1. OwnAt(t, "migrate") BY <1>1, <2>7, WayAt
    <3>2. (kind[t] = "processor" /\ x = 1) \/ (kind[t] = "test" /\ x = 2)
      BY <3>1, PlacesOf DEF OwnAt, OwnKinds
    <3>3. (policy[t] = "SCHED_LITMUS" <=> x \in RealTimeAt(kind[t])) /\ CpuWay(t, x)
      BY <3>1 DEF OwnAt
    <3>4. x' = x + 1 BY <2>2
    <3> HIDE DEF x
    <3>5. policy'[t] = "SCHED_LITMUS" <=> x' \in RealTimeAt(kind'[t])
      BY <1>1, <3>2, <3>3, <3>4 DEF RealTimeAt, Quiet
    <3>6. affinity'[t] = {cpu[t]} /\ at'[t] = cpu[t] BY <2>1 DEF WayInv, DataInv
    <3>7. CpuWay(t, x)' BY <1>1, <3>2, <3>3, <3>4, <3>6 DEF CpuWay, Quiet
    <3>8. DomainWay(t, x)' BY <1>1, <3>2 DEF DomainWay, Quiet
    <3>9. QED BY <3>5, <3>7, <3>8 DEF Way, x
  <2>8. QED BY <1>1, <2>2, <2>5, <2>6, <2>7, WayStep DEF Acts
<1>6. QED BY <1>3, <1>4, <1>5 DEF MigrateToCpu

LEMMA WayFirstCpu ==
  ASSUME WayInv, NEW t \in Task, LookUpFirstCpu(t)
  PROVE  WayInv'
<1> DEFINE first == DomainToFirstCpu(online, domains, Asked[t], digits)
           S == domains[Asked[t]]
           n == Cardinality(online)
<1>1. Calls(t, "first_cpu") /\ Quiet /\ Return(t) /\ cpu' = [cpu EXCEPT ![t] = first]
      /\ UNCHANGED <<token, mask, affinity, at, rt_cpu, policy>>
  BY DEF LookUpFirstCpu, Quiet, kernel
<1>2. t \in Actor BY DEF Actor
<1>3. Acts(t) /\ Pos(t)' = Pos(t) + 1 /\ failed' = failed
  BY <1>1, <1>2, ReturnActs DEF WayInv, Quiet
<1>4. IF Asked[t] \in DOMAIN domains /\ ~(n > MaxCpus) THEN first = FirstAmong(S, n) ELSE first = -1
  <2> DEFINE mapping == ReadMapping(online, domains, Asked[t], digits)
  <2>1. IF Asked[t] \in DOMAIN domains /\ ~(n > MaxCpus)
        THEN mapping.ret = 0 /\ mapping.set = S ELSE mapping.ret = -1 /\ mapping.set = {}
    BY ReadsDomain DEF WayInv, DataInv
  <2>2. first = IF mapping.ret # 0 THEN mapping.ret ELSE FirstAmong(mapping.set, n)
    BY DEF DomainToFirstCpu
  <2> HIDE DEF mapping, first, S, n
  <2>3. QED BY <2>1, <2>2
<1>5. first \in Cpu \cup {-1}
  <2>1. n \in Nat BY AdmissionAssumption, FS_CardinalityType DEF WayInv, DataInv
  <2>2. Asked[t] \in DOMAIN domains => S \in SUBSET Nat /\ S \subseteq Cpu
    BY Numbers DEF WayInv, DataInv
  <2> HIDE DEF first, S, n
  <2>3. Asked[t] \in DOMAIN domains => FirstAmong(S, n) \in S \cup {-1}
    BY <2>1, <2>2, FirstIs
  <2>4. QED BY <1>4, <2>2, <2>3
<1> HIDE DEF first, S, n
<1>6. DOMAIN cpu' = Task /\ (\A u \in Task : cpu'[u] \in Cpu \cup {-1, 0, Asked[u]})
      /\ cpu'[t] = first
  BY <1>1, <1>5 DEF WayInv, DataInv
<1>7. DataInv' BY <1>1, <1>3, <1>6 DEF WayInv, DataInv, DigitsEnough, Quiet
<1>8. \A u \in Task \ {t} : Same(u)
  BY <1>1, <1>3 DEF Same, Acts, Actor, WayInv, DataInv
<1>9. ASSUME ~IsChild(t) PROVE Way(t)'
  <2> DEFINE x == Pos(t)
  <2>1. OwnAt(t, "first_cpu") BY <1>1, <1>9, WayAt
  <2>2. kind[t] = "domain" /\ x = 3 /\ x' = 4 BY <1>3, <2>1, PlacesOf DEF OwnAt
  <2>3. (policy[t] = "SCHED_LITMUS" <=> x \in RealTimeAt(kind[t])) /\ DomainWay(t, x)
    BY <2>1 DEF OwnAt
  <2> HIDE DEF x
  <2>4. policy'[t] = "SCHED_LITMUS" <=> x' \in RealTimeAt(kind'[t])
    BY <1>1, <2>2, <2>3 DEF RealTimeAt, Quiet
  <2>5. DomainWay(t, x)' BY <1>1, <1>4, <1>6, <2>2, <2>3 DEF DomainWay, Quiet, S, n
  <2>6. CpuWay(t, x)' BY <1>1, <2>2 DEF CpuWay, Quiet
  <2>7. QED BY <2>4, <2>5, <2>6 DEF Way, x
<1>10. QED BY <1>1, <1>3, <1>7, <1>8, <1>9, WayStep DEF Acts

\* The parameter, from the task itself or from its parent.
LEMMA WayParam ==
  ASSUME WayInv, NEW a \in Actor, NEW t \in Task, NEW c, SetParam(a, t, c),
         \/ a = t /\ c = cpu[t]
         \/ a \in Parent /\ t = Child[a]
  PROVE  WayInv'
<1>1. Calls(a, "param") /\ Quiet /\ UNCHANGED <<token, mask, cpu, affinity, at, policy>>
  BY DEF SetParam, Quiet
<1>2. CASE Fail(a) /\ UNCHANGED rt_cpu BY <1>1, <1>2, WayFails
<1>3. CASE ParamAllowed(t, c) /\ rt_cpu' = [rt_cpu EXCEPT ![t] = c] /\ Return(a)
  <2>1. Acts(a) /\ Pos(a)' = Pos(a) + 1 /\ failed' = failed
    BY <1>1, <1>3, ReturnActs DEF WayInv, Quiet
  <2>2. rt_cpu' \in [Task -> online \cup {-1}] BY <1>3 DEF ParamAllowed, WayInv, DataInv
  <2>3. DataInv' BY <1>1, <2>1, <2>2 DEF WayInv, DataInv, DigitsEnough, Quiet
  <2>4. \A u \in Task \ {t} : Pos(u)' = Pos(u)
    BY <2>1, AdmissionAssumption DEF Acts, Actor
  <2>5. \A u \in Task \ {t} : Same(u) BY <1>1, <1>3, <2>4 DEF Same, WayInv, DataInv
  <2>6. ASSUME ~IsChild(t) PROVE Way(t)'
    <3> DEFINE x == Pos(t)
    <3>1. a = t /\ c = cpu[t] /\ c \in online BY <1>3, <2>6 DEF IsChild, ParamAllowed
    <3>2. OwnAt(t, "param") BY <1>1, <2>6, <3>1, WayAt
    <3>3. (kind[t] = "domain" /\ x = 4) \/ (kind[t] = "processor" /\ x = 2)
            \/ (kind[t] = "test" /\ x = 1)
      BY <3>2, PlacesOf DEF OwnAt, OwnKinds
    <3>4. (policy[t] = "SCHED_LITMUS" <=> x \in RealTimeAt(kind[t]))
          /\ DomainWay(t, x) /\ CpuWay(t, x)
      BY <3>2 DEF OwnAt
    <3>5. x' = x + 1 BY <2>1, <3>1
    <3> HIDE DEF x
    <3>6. policy'[t] = "SCHED_LITMUS" <=> x' \in RealTimeAt(kind'[t])
      BY <1>1, <3>3, <3>4, <3>5 DEF RealTimeAt, Quiet
    <3>7. rt_cpu'[t] = cpu[t] BY <1>3, <3>1 DEF WayInv, DataInv
    <3>8. CpuWay(t, x)' BY <1>1, <3>3, <3>4, <3>5, <3>7 DEF CpuWay, Quiet
    <3>9. DomainWay(t, x)' BY <1>1, <3>1, <3>3, <3>4, <3>5, <3>7 DEF DomainWay, Quiet
    <3>10. QED BY <3>6, <3>8, <3>9 DEF Way, x
  <2>7. QED BY <1>1, <2>1, <2>3, <2>5, <2>6, WayStep DEF Acts
<1>4. QED BY <1>2, <1>3 DEF SetParam
\* A change of the policy: a task's own, its parent's, or the child's at its end.
LEMMA WayPolicy ==
  ASSUME WayInv, NEW a \in Actor, NEW t \in Task, a = t \/ (a \in Parent /\ t = Child[a]),
         Quiet, UNCHANGED <<token, mask, cpu, affinity, at, rt_cpu>>,
         NEW c, Calls(a, c), Return(a) \/ (Fail(a) /\ IsChild(t)),
         NEW w \in Policies, policy' = [policy EXCEPT ![t] = w],
         ~IsChild(t) => \/ c = "mode" /\ w = "SCHED_LITMUS"
                        \/ c = "leave" /\ w = "SCHED_NORMAL"
  PROVE  WayInv'
<1>1. Acts(a) BY ReturnActs, FailActs DEF WayInv, Quiet
<1>2. policy' \in [Task -> Policies] /\ failed' \subseteq Actor
  BY <1>1 DEF Acts, WayInv, DataInv
<1>3. DataInv' BY <1>2 DEF WayInv, DataInv, DigitsEnough, Quiet
<1>4. \A u \in Task \ {t} : Pos(u)' = Pos(u) BY <1>1, AdmissionAssumption DEF Acts, Actor
<1>5. \A u \in Task \ {t} : Same(u) BY <1>4 DEF Same, WayInv, DataInv
<1>6. ASSUME ~IsChild(t) PROVE Way(t)'
  <2> DEFINE x == Pos(t)
  <2>1. a = t /\ Return(t) BY <1>6 DEF IsChild
  <2>2. OwnAt(t, c) BY <1>6, <2>1, WayAt
  <2>3. x' = x + 1 BY <2>1, ReturnActs DEF WayInv, Quiet
  <2>4. IF c = "mode" THEN (kind[t] = "domain" /\ x = 5) \/ (kind[t] \in {"processor", "test"} /\ x = 3)
                      ELSE (kind[t] = "domain" /\ x = 7) \/ (kind[t] \in {"processor", "test"} /\ x = 5)
    BY <1>6, <2>2, PlacesOf DEF OwnAt, OwnKinds
  <2>5. DomainWay(t, x) /\ CpuWay(t, x) BY <2>2 DEF OwnAt
  <2> HIDE DEF x
  <2>6. policy'[t] = w BY DEF WayInv, DataInv
  <2>7. policy'[t] = "SCHED_LITMUS" <=> x' \in RealTimeAt(kind'[t])
    BY <1>6, <2>3, <2>4, <2>6 DEF RealTimeAt, Quiet
  <2>8. DomainWay(t, x)' BY <1>6, <2>3, <2>4, <2>5 DEF DomainWay, Quiet
  <2>9. CpuWay(t, x)' BY <1>6, <2>3, <2>4, <2>5 DEF CpuWay, Quiet
  <2>10. QED BY <2>7, <2>8, <2>9 DEF Way, x
<1>7. QED BY <1>1, <1>3, <1>5, <1>6, WayStep DEF Acts

LEMMA WayMode ==
  ASSUME WayInv, NEW a \in Actor, NEW t \in Task, BecomeRealTime(a, t),
         a = t \/ (a \in Parent /\ t = Child[a])
  PROVE  WayInv'
<1>1. Calls(a, "mode") /\ Quiet /\ UNCHANGED <<token, mask, cpu, affinity, at, rt_cpu>>
  BY DEF BecomeRealTime, Quiet
<1>2. CASE Fail(a) /\ UNCHANGED policy BY <1>1, <1>2, WayFails
<1>3. CASE Return(a) /\ policy' = [policy EXCEPT ![t] = "SCHED_LITMUS"]
  BY <1>1, <1>3, WayPolicy DEF Policies
<1>4. QED BY <1>2, <1>3 DEF BecomeRealTime

LEMMA WayJob ==
  ASSUME WayInv, NEW t \in Task, Job(t)
  PROVE  WayInv'
<1>1. Calls(t, "job") /\ Quiet /\ UNCHANGED <<token, mask, cpu, affinity, at, rt_cpu>>
      /\ (Return(t) \/ Fail(t))
      /\ policy' = [policy EXCEPT ![t] = IF IsChild(t) THEN "SCHED_NORMAL" ELSE @]
  BY DEF Job, Quiet
<1>2. t \in Actor BY DEF Actor
<1>3. CASE IsChild(t)
  <2>1. policy' = [policy EXCEPT ![t] = "SCHED_NORMAL"] BY <1>1, <1>3
  <2>2. QED BY <1>1, <1>2, <1>3, <2>1, WayPolicy DEF Policies
<1>4. CASE ~IsChild(t)
  <2>1. UNCHANGED policy BY <1>1, <1>4 DEF WayInv, DataInv
  <2>2. token' \in [Parent -> 0..1] BY <1>1 DEF WayInv, DataInv
  <2>3. CASE Fail(t) BY <1>1, <1>2, <2>1, <2>3, WayFails
  <2>4. CASE Return(t) BY <1>1, <1>2, <2>1, <2>2, <2>4, WayMoves
  <2>5. QED BY <1>1, <2>3, <2>4
<1>5. QED BY <1>3, <1>4

\* The kernel's own steps.
LEMMA WayBalance ==
  ASSUME WayInv, NEW t \in Task, Balance(t)
  PROVE  WayInv'
<1>1. PICK c \in (affinity[t] \cap online) \ {at[t]} : at' = [at EXCEPT ![t] = c]
  BY DEF Balance
<1>2. Quiet /\ todo' = todo /\ UNCHANGED <<failed, token, mask, cpu, affinity, rt_cpu, policy>>
  BY DEF Balance, library, Quiet
<1>3. PlanInv' /\ \A b \in Actor : Pos(b)' = Pos(b) BY <1>2, Stays DEF WayInv, Quiet
<1>4. at' \in [Task -> online] /\ at'[t] = c BY <1>1 DEF WayInv, DataInv
<1>5. DataInv' BY <1>2, <1>4 DEF WayInv, DataInv, DigitsEnough, Quiet
<1>6. \A u \in Task \ {t} : Same(u) BY <1>1, <1>2, <1>3 DEF Same, Actor, WayInv, DataInv
<1>7. ASSUME ~IsChild(t) PROVE Way(t)'
  <2> DEFINE x == Pos(t)
  <2>1. x' = x BY <1>3 DEF Actor
  <2>2. (policy[t] = "SCHED_LITMUS" <=> x \in RealTimeAt(kind[t]))
        /\ DomainWay(t, x) /\ CpuWay(t, x)
    BY <1>7 DEF WayInv, Way
  <2>3. x \in Nat
    <3>1. x \in 1..Len(MyPlan(t)) + 1 /\ Len(MyPlan(t)) \in 4..7
      BY KindsAre DEF WayInv, PlanInv, Actor
    <3>2. QED BY <3>1
  <2> HIDE DEF x
  <2>4. policy'[t] = "SCHED_LITMUS" <=> x' \in RealTimeAt(kind'[t])
    BY <1>2, <2>1, <2>2 DEF RealTimeAt, Quiet
  <2>5. at'[t] \in affinity[t] BY <1>1, <1>4
  <2>6. DomainWay(t, x)' BY <1>2, <2>1, <2>2, <2>5 DEF DomainWay, Quiet
  <2>7. CpuWay(t, x)' BY <1>2, <2>1, <2>2, <2>5 DEF CpuWay, Quiet
  <2>8. QED BY <2>4, <2>6, <2>7 DEF Way, x
<1>8. QED BY <1>2, <1>3, <1>5, <1>6, <1>7, WayStep

LEMMA WaySwitch ==
  ASSUME WayInv, SetSched
  PROVE  WayInv'
<1>1. /\ UNCHANGED <<todo, kind, failed, token, mask, cpu>>
      /\ UNCHANGED <<affinity, at, rt_cpu, policy, online, digits>>
      /\ domains' \in Plugins
      /\ switched' = switched \cup failed \cup {t \in Task : todo[t] \notin {Plan[kind[t]], <<>>}}
  BY DEF SetSched, library
<1>2. PlanInv' /\ \A b \in Actor : Pos(b)' = Pos(b) BY <1>1, Stays DEF WayInv
<1>3. switched' \subseteq Actor BY <1>1 DEF Actor, WayInv, DataInv
<1>4. DataInv' BY <1>1, <1>3 DEF WayInv, DataInv, DigitsEnough
<1>5. ASSUME NEW t \in Task, ~IsChild(t) PROVE Way(t)'
  <2> DEFINE x == Pos(t)
  <2>1. x' = x BY <1>2 DEF Actor
  <2>2. (policy[t] = "SCHED_LITMUS" <=> x \in RealTimeAt(kind[t]))
        /\ DomainWay(t, x) /\ CpuWay(t, x)
    BY <1>5 DEF WayInv, Way
  <2>3. kind[t] = "domain" /\ t \notin switched' => x \in {1, 8}
    <3>1. SUFFICES ASSUME kind[t] = "domain", t \notin switched' PROVE x \in {1, 8} OBVIOUS
    <3>2. todo[t] \in {Plan["domain"], <<>>} BY <1>1, <3>1
    <3>3. MyPlan(t) = Plan["domain"] BY <3>1 DEF MyPlan, KindOf
    <3>4. Len(Plan["domain"]) = 7 BY PlansAre
    <3>5. Len(todo[t]) \in {7, 0} BY <3>2, <3>4, EmptySeq
    <3>6. Len(MyPlan(t)) = 7 BY <3>3, <3>4
    <3>7. CASE Len(todo[t]) = 7 BY <3>6, <3>7 DEF Pos
    <3>8. CASE Len(todo[t]) = 0 BY <3>6, <3>8 DEF Pos
    <3>9. QED BY <3>5, <3>7, <3>8
  <2> HIDE DEF x
  <2>4. policy'[t] = "SCHED_LITMUS" <=> x' \in RealTimeAt(kind'[t])
    BY <1>1, <2>1, <2>2 DEF RealTimeAt
  <2>5. DomainWay(t, x)' BY <1>1, <2>1, <2>3 DEF DomainWay
  <2>6. CpuWay(t, x)' BY <1>1, <2>1, <2>2 DEF CpuWay
  <2>7. QED BY <2>4, <2>5, <2>6 DEF Way, x
<1>6. QED BY <1>2, <1>4, <1>5 DEF WayInv, IsChild
\* The calls that only move their actor.
LEMMA WayTurns ==
  ASSUME WayInv, NEW a \in Actor, Quiet, UNCHANGED kernel, UNCHANGED <<mask, cpu>>,
         NEW c \in {"write", "read", "poll", "sleep", "check", "wait"}, Calls(a, c),
         \/ Return(a) /\ token' \in [Parent -> 0..1]
         \/ Fail(a) /\ UNCHANGED token
  PROVE  WayInv'
<1>1. UNCHANGED <<affinity, at, rt_cpu, policy>> BY DEF kernel
<1>2. CASE Fail(a) /\ UNCHANGED token BY <1>1, <1>2, WayFails
<1>3. CASE Return(a) /\ token' \in [Parent -> 0..1] BY <1>1, <1>3, WayMoves
<1>4. QED BY <1>2, <1>3

LEMMA WayNext == ASSUME WayInv, [Next]_vars PROVE WayInv'
<1>1. CASE UNCHANGED vars
  <2>1. Quiet /\ UNCHANGED <<todo, failed, token, mask, cpu, affinity, at, rt_cpu, policy>>
    BY <1>1 DEF vars, library, kernel, Quiet
  <2>2. PlanInv' /\ \A b \in Actor : Pos(b)' = Pos(b) BY <2>1, Stays DEF WayInv, Quiet
  <2>3. DataInv' BY <2>1 DEF WayInv, DataInv, DigitsEnough, Quiet
  <2>4. \A u \in Task : Same(u) BY <2>1, <2>2 DEF Same, Actor
  <2>5. ASSUME NEW u \in Task, ~IsChild(u) PROVE Way(u)'
    BY <2>1, <2>4, <2>5, WayKept DEF WayInv
  <2>6. QED BY <2>2, <2>3, <2>5 DEF WayInv, IsChild
<1>2. ASSUME NEW t \in Task, OwnStep(t) PROVE WayInv'
  <2>1. t \in Actor BY DEF Actor
  <2>2. CASE BecomeBackground(t)
    <3>1. Calls(t, "leave") /\ Quiet /\ Return(t)
          /\ UNCHANGED <<token, mask, cpu, affinity, at, rt_cpu>>
          /\ policy' = [policy EXCEPT ![t] = "SCHED_NORMAL"]
      BY <2>2 DEF BecomeBackground, Quiet
    <3>2. QED BY <2>1, <3>1, WayPolicy DEF Policies
  <2>3. QED
    BY <1>2, <2>1, <2>2, WayReadDomain, WaySetAffinity, WayMigrate, WayFirstCpu, WayParam,
       WayMode, WayJob
    DEF OwnStep
<1>3. ASSUME NEW a \in Actor, NEW p \in Parent, WriteToken(a, p) \/ ReadToken(a, p) PROVE WayInv'
  <2>1. token' \in [Parent -> 0..1] BY <1>3 DEF WriteToken, ReadToken, WayInv, DataInv
  <2>2. Quiet /\ UNCHANGED kernel /\ UNCHANGED <<mask, cpu>> /\ Return(a)
        /\ (Calls(a, "write") \/ Calls(a, "read"))
    BY <1>3 DEF WriteToken, ReadToken, Quiet, kernel
  <2>3. QED BY <2>1, <2>2, WayTurns
<1>4. ASSUME NEW a \in Actor, NEW t, CheckMode(a, t) PROVE WayInv'
  <2>1. token' \in [Parent -> 0..1] BY <1>4 DEF CheckMode, WayInv, DataInv
  <2>2. Quiet /\ UNCHANGED kernel /\ UNCHANGED <<mask, cpu, token>> /\ Calls(a, "check")
        /\ (Return(a) \/ Fail(a))
    BY <1>4 DEF CheckMode, Quiet, kernel
  <2>3. QED BY <2>1, <2>2, WayTurns
<1>5. ASSUME NEW t \in Task, ChildStep(t) PROVE WayInv'
  <2>1. PICK p \in Parent : t = Child[p] BY <1>5 DEF ChildStep, IsChild
  <2>2. ParentOf(t) = p BY <2>1, AdmissionAssumption DEF ParentOf, IsInjective
  <2>3. t \in Actor BY DEF Actor
  <2>4. CASE Poll(t)
    <3>1. token' \in [Parent -> 0..1] BY <2>4 DEF Poll, WayInv, DataInv
    <3>2. Quiet /\ UNCHANGED kernel /\ UNCHANGED <<mask, cpu>> /\ Calls(t, "poll") /\ Return(t)
      BY <2>4 DEF Poll, Quiet, kernel
    <3>3. QED BY <2>3, <3>1, <3>2, WayTurns
  <2>5. CASE CheckMode(t, t) BY <1>4, <2>3, <2>5
  <2>6. CASE WriteToken(t, p) \/ ReadToken(t, p) BY <1>3, <2>3, <2>6
  <2>7. QED BY <1>5, <2>2, <2>4, <2>5, <2>6 DEF ChildStep
<1>6. ASSUME NEW p \in Parent, ParentStep(p) PROVE WayInv'
  <2>1. p \in Actor /\ Child[p] \in Task BY AdmissionAssumption DEF Actor
  <2>2. CASE ReadToken(p, p) \/ WriteToken(p, p) BY <1>3, <2>1, <2>2
  <2>3. CASE LtSleep(p)
    <3>1. token' \in [Parent -> 0..1] BY <2>3 DEF LtSleep, WayInv, DataInv
    <3>2. Quiet /\ UNCHANGED kernel /\ UNCHANGED <<mask, cpu>> /\ Calls(p, "sleep") /\ Return(p)
      BY <2>3 DEF LtSleep, Quiet, kernel
    <3>3. QED BY <2>1, <3>1, <3>2, WayTurns
  <2>4. CASE WaitForChild(p)
    <3>1. token' \in [Parent -> 0..1] BY <2>4 DEF WaitForChild, WayInv, DataInv
    <3>2. Quiet /\ UNCHANGED kernel /\ UNCHANGED <<mask, cpu, token>> /\ Calls(p, "wait")
          /\ (Return(p) \/ Fail(p))
      BY <2>4 DEF WaitForChild, Quiet, kernel
    <3>3. QED BY <2>1, <3>1, <3>2, WayTurns
  <2>5. CASE SetParam(p, Child[p], 0) BY <2>1, <2>5, WayParam
  <2>6. CASE BecomeRealTime(p, Child[p]) BY <2>1, <2>6, WayMode
  <2>7. CASE CheckMode(p, Child[p]) BY <1>4, <2>1, <2>7
  <2>8. QED BY <1>6, <2>2, <2>3, <2>4, <2>5, <2>6, <2>7 DEF ParentStep
<1>7. QED BY <1>1, <1>2, <1>5, <1>6, WayBalance, WaySwitch DEF Next

LEMMA WayInit == ASSUME Init PROVE WayInv
<1>1. PlanInv /\ \A a \in Actor : Pos(a) = 1 BY PlanInit
<1>2. online \in Onlines /\ online \subseteq Cpu /\ Cpu \subseteq Nat /\ online # {}
  BY AdmissionAssumption DEF Init, Cpu
<1>3. Min(online) \in online BY <1>2, MinIs
<1>4. DigitsEnough BY AdmissionAssumption DEF Init, DigitsEnough
<1>5. /\ failed = {} /\ switched = {} /\ token = [p \in Parent |-> 0]
      /\ mask = [t \in Task |-> {}] /\ affinity = [t \in Task |-> online]
      /\ at = [t \in Task |-> Min(online)] /\ rt_cpu = [t \in Task |-> -1]
      /\ policy = [t \in Task |-> "SCHED_NORMAL"]
      /\ domains \in Plugins /\ digits \in DigitCounts
      /\ cpu = [t \in Task |-> IF kind[t] \in {"processor", "test"} THEN Asked[t] ELSE 0]
  BY DEF Init
<1>6. DOMAIN cpu = Task /\ \A t \in Task : cpu[t] \in Cpu \cup {-1, 0, Asked[t]} BY <1>5
<1>7. DataInv BY <1>2, <1>3, <1>4, <1>5, <1>6 DEF DataInv, Policies
<1>8. ASSUME NEW t \in Task PROVE Way(t)
  <2>1. Pos(t) = 1 /\ policy[t] = "SCHED_NORMAL" BY <1>1, <1>5 DEF Actor
  <2>2. 1 \notin RealTimeAt(kind[t]) BY DEF RealTimeAt
  <2>3. DomainWay(t, 1) /\ CpuWay(t, 1) BY DEF DomainWay, CpuWay
  <2> HIDE DEF Pos
  <2>4. QED BY <2>1, <2>2, <2>3 DEF Way
<1>9. QED BY <1>1, <1>7, <1>8 DEF WayInv

\* Every task is sent to the processors of the domain it asks for, and the two
\* sides of the mapping agree about who is where (src/src/migration.c), on every
\* machine whose processors the digits of the files have room for.
THEOREM SendsToDomain == Spec => []MappingInv
<1> DEFINE Inv == WayInv /\ late \subseteq Task
<1>1. Init => Inv BY WayInit DEF Init
<1>2. Inv /\ [Next]_vars => Inv' BY WayNext, StepIs
<1>3. Inv => MappingInv BY WayMapping
<1>4. QED BY <1>1, <1>2, <1>3, PTL DEF Spec

\* A task that found its domain through the library is in real-time mode only in
\* that domain, with the domain's first processor as its parameter ("set tp->cpu
\* to the first CPU in the assigned cluster", litmus.c:103).
THEOREM AdmittedWhereAsked == Spec => []InAskedDomain
<1>1. Init => WayInv BY WayInit
<1>2. WayInv /\ [Next]_vars => WayInv' BY WayNext
<1>3. WayInv => InAskedDomain BY WayInDomain
<1>4. QED BY <1>1, <1>2, <1>3, PTL DEF Spec
-----------------------------------------------------------------------------
(* Where real-time tasks are.                                              *)

\* A real-time task is in the domain it was admitted to; the parameter of a child
\* is the processor it migrates to.
Placed ==
  /\ \A p \in Parent : cpu[Child[p]] = 0 /\ rt_cpu[Child[p]] \in {-1, 0}
  /\ StaysInDomain

\* What a step may change of one task's processor, parameters and policy.
LEMMA PlacedStep ==
  ASSUME Placed, UNCHANGED domains, NEW t \in Task,
         \A u \in Task \ {t} : /\ cpu'[u] = cpu[u] /\ rt_cpu'[u] = rt_cpu[u]
                               /\ at'[u] = at[u] /\ policy'[u] = policy[u],
         IsChild(t) => cpu'[t] = 0 /\ rt_cpu'[t] \in {-1, 0},
         policy'[t] = "SCHED_LITMUS" =>
           \E i \in DOMAIN domains : {rt_cpu'[t], at'[t]} \subseteq domains[i]
  PROVE  Placed'
<1>1. ASSUME NEW p \in Parent PROVE cpu'[Child[p]] = 0 /\ rt_cpu'[Child[p]] \in {-1, 0}
  <2>1. Child[p] \in Task BY AdmissionAssumption
  <2>2. CASE Child[p] = t BY <2>2 DEF IsChild
  <2>3. CASE Child[p] # t BY <2>1, <2>3 DEF Placed
  <2>4. QED BY <2>2, <2>3
<1>2. ASSUME NEW u \in Task, policy'[u] = "SCHED_LITMUS"
      PROVE  \E i \in DOMAIN domains : {rt_cpu'[u], at'[u]} \subseteq domains[i]
  <2>1. CASE u = t BY <1>2, <2>1
  <2>2. CASE u # t BY <1>2, <2>2 DEF Placed, StaysInDomain
  <2>3. QED BY <2>1, <2>2
<1>3. QED BY <1>1, <1>2 DEF Placed, StaysInDomain

LEMMA PlacedStays ==
  ASSUME Placed, UNCHANGED <<cpu, rt_cpu, at, policy, domains>> PROVE Placed'
  BY DEF Placed, StaysInDomain

LEMMA PlacedMigrate ==
  ASSUME WayInv, TurnInv, Placed, NEW t \in Task, MigrateToCpu(t)
  PROVE  Placed'
<1>1. Calls(t, "migrate") /\ UNCHANGED <<cpu, rt_cpu, policy, domains>>
  BY DEF MigrateToCpu, MoveTo, kernel
<1>2. CASE UNCHANGED kernel BY <1>1, <1>2, PlacedStays DEF kernel
<1>3. CASE MoveTo(t, {cpu[t]})
  <2>1. at' = [at EXCEPT ![t] = cpu[t]] BY <1>3 DEF MoveTo
  <2>2. at'[t] = cpu[t] /\ \A u \in Task \ {t} : at'[u] = at[u]
    BY <2>1 DEF WayInv, DataInv
  <2>3. CASE IsChild(t)
    <3>1. cpu[t] = 0 /\ rt_cpu[t] \in {-1, 0} BY <2>3 DEF Placed, IsChild
    <3>2. ASSUME policy[t] = "SCHED_LITMUS"
          PROVE  \E i \in DOMAIN domains : {rt_cpu'[t], at'[t]} \subseteq domains[i]
      <4>1. PICK i \in DOMAIN domains : rt_cpu[t] \in domains[i]
        BY <3>2 DEF Placed, StaysInDomain
      <4>2. domains[i] \subseteq Nat BY Numbers DEF WayInv, DataInv
      <4>3. rt_cpu[t] = 0 BY <3>1, <4>1, <4>2
      <4>4. QED BY <1>1, <2>2, <3>1, <4>1, <4>3
    <3>3. QED BY <1>1, <2>2, <3>1, <3>2, PlacedStep
  <2>4. CASE ~IsChild(t)
    <3>1. policy[t] = "SCHED_NORMAL" BY <1>1, <2>4, OwnBefore
    <3>2. QED BY <1>1, <2>2, <2>4, <3>1, PlacedStep
  <2>5. QED BY <2>3, <2>4
<1>4. QED BY <1>2, <1>3 DEF MigrateToCpu

LEMMA PlacedParam ==
  ASSUME WayInv, Placed, NEW a, NEW t \in Task, NEW c, SetParam(a, t, c), IsChild(t) => c = 0
  PROVE  Placed'
<1>1. UNCHANGED <<cpu, at, policy, domains>> BY DEF SetParam
<1>2. CASE UNCHANGED rt_cpu BY <1>1, <1>2, PlacedStays
<1>3. CASE ParamAllowed(t, c) /\ rt_cpu' = [rt_cpu EXCEPT ![t] = c]
  <2>1. policy[t] = "SCHED_NORMAL" BY <1>3 DEF ParamAllowed
  <2>2. rt_cpu'[t] = c /\ \A u \in Task \ {t} : rt_cpu'[u] = rt_cpu[u]
    BY <1>3 DEF WayInv, DataInv
  <2>3. IsChild(t) => cpu[t] = 0 BY DEF Placed, IsChild
  <2>4. QED BY <1>1, <2>1, <2>2, <2>3, PlacedStep
<1>4. QED BY <1>2, <1>3 DEF SetParam

\* Admission is where a task gets into its domain; leaving real-time mode is free.
LEMMA PlacedPolicy ==
  ASSUME WayInv, Placed, NEW t \in Task, UNCHANGED <<cpu, rt_cpu, at, domains>>,
         NEW w \in Policies, policy' = [policy EXCEPT ![t] = w],
         w = "SCHED_LITMUS" => policy[t] = "SCHED_LITMUS" \/ Admitted(t)
  PROVE  Placed'
<1>1. policy'[t] = w /\ \A u \in Task \ {t} : policy'[u] = policy[u] BY DEF WayInv, DataInv
<1>2. IsChild(t) => cpu[t] = 0 /\ rt_cpu[t] \in {-1, 0} BY DEF Placed, IsChild
<1>3. w = "SCHED_LITMUS" => \E i \in DOMAIN domains : {rt_cpu[t], at[t]} \subseteq domains[i]
  BY DEF Placed, StaysInDomain, Admitted
<1>4. QED BY <1>1, <1>2, <1>3, PlacedStep

LEMMA PlacedMode ==
  ASSUME WayInv, Placed, NEW a, NEW t \in Task, BecomeRealTime(a, t)
  PROVE  Placed'
<1>1. UNCHANGED <<cpu, at, rt_cpu, domains>> BY DEF BecomeRealTime
<1>2. CASE UNCHANGED policy BY <1>1, <1>2, PlacedStays
<1>3. CASE Admitted(t) /\ policy' = [policy EXCEPT ![t] = "SCHED_LITMUS"]
  BY <1>1, <1>3, PlacedPolicy DEF Policies
<1>4. QED BY <1>2, <1>3 DEF BecomeRealTime

LEMMA PlacedOwn ==
  ASSUME WayInv, TurnInv, Placed, NEW t \in Task, OwnStep(t)
  PROVE  Placed'
<1>1. CASE ReadDomain(t) BY <1>1, PlacedStays DEF ReadDomain, kernel
<1>2. CASE SetAffinity(t)
  <2>1. Calls(t, "setaffinity") /\ UNCHANGED <<cpu, rt_cpu, policy, domains>>
    BY <1>2 DEF SetAffinity, MoveTo, kernel
  <2>2. CASE UNCHANGED kernel BY <2>1, <2>2, PlacedStays DEF kernel
  <2>3. CASE MoveTo(t, mask[t])
    <3>1. ~IsChild(t)
      <4>1. AtCall(t, "setaffinity") BY <2>1, CallsAt DEF Actor, TurnInv
      <4>2. KindOf(t) = "domain" BY <4>1, PlacesOf DEF AtCall
      <4>3. QED BY <4>2 DEF KindOf, TurnInv, PlanInv, KindInv, ChildKinds
    <3>2. policy[t] = "SCHED_NORMAL" BY <2>1, <3>1, OwnBefore
    <3>3. \A u \in Task \ {t} : at'[u] = at[u] BY <2>3 DEF MoveTo, WayInv, DataInv
    <3>4. QED BY <2>1, <3>1, <3>2, <3>3, PlacedStep
  <2>4. QED BY <1>2, <2>2, <2>3 DEF SetAffinity
<1>3. CASE MigrateToCpu(t) BY <1>3, PlacedMigrate
<1>4. CASE LookUpFirstCpu(t)
  <2>1. Calls(t, "first_cpu") /\ UNCHANGED <<at, rt_cpu, policy, domains>>
        /\ \A u \in Task \ {t} : cpu'[u] = cpu[u]
    BY <1>4 DEF LookUpFirstCpu, kernel, WayInv, DataInv
  <2>2. ~IsChild(t)
    <3>1. AtCall(t, "first_cpu") BY <2>1, CallsAt DEF Actor, TurnInv
    <3>2. KindOf(t) = "domain" BY <3>1, PlacesOf DEF AtCall
    <3>3. QED BY <3>2 DEF KindOf, TurnInv, PlanInv, KindInv, ChildKinds
  <2>3. policy[t] = "SCHED_NORMAL" BY <2>1, <2>2, OwnBefore
  <2>4. QED BY <2>1, <2>2, <2>3, PlacedStep
<1>5. CASE SetParam(t, t, cpu[t])
  <2>1. IsChild(t) => cpu[t] = 0 BY DEF Placed, IsChild
  <2>2. QED BY <1>5, <2>1, PlacedParam
<1>6. CASE BecomeRealTime(t, t) BY <1>6, PlacedMode
<1>7. CASE Job(t)
  <2>1. policy' = [policy EXCEPT ![t] = IF IsChild(t) THEN "SCHED_NORMAL" ELSE policy[t]]
        /\ UNCHANGED <<cpu, rt_cpu, at, domains>>
    BY <1>7 DEF Job
  <2>2. policy[t] \in Policies /\ "SCHED_NORMAL" \in Policies
    BY DEF WayInv, DataInv, Policies
  <2>3. QED BY <2>1, <2>2, PlacedPolicy
<1>8. CASE BecomeBackground(t)
  BY <1>8, PlacedPolicy DEF BecomeBackground, Policies
<1>9. QED BY <1>1, <1>2, <1>3, <1>4, <1>5, <1>6, <1>7, <1>8 DEF OwnStep

LEMMA PlacedNext ==
  ASSUME WayInv, TurnInv, Placed, [Next]_vars
  PROVE  Placed'
<1>1. CASE UNCHANGED vars BY <1>1, PlacedStays DEF vars, library, kernel
<1>2. ASSUME NEW t \in Task, OwnStep(t) PROVE Placed' BY <1>2, PlacedOwn
<1>3. ASSUME NEW t \in Task, ChildStep(t) PROVE Placed'
  <2>1. UNCHANGED <<cpu, rt_cpu, at, policy, domains>>
    BY <1>3 DEF ChildStep, WriteToken, ReadToken, Poll, CheckMode, kernel
  <2>2. QED BY <2>1, PlacedStays
<1>4. ASSUME NEW p \in Parent, ParentStep(p) PROVE Placed'
  <2>1. Child[p] \in Task BY AdmissionAssumption
  <2>2. CASE SetParam(p, Child[p], 0) BY <2>1, <2>2, PlacedParam
  <2>3. CASE BecomeRealTime(p, Child[p]) BY <2>1, <2>3, PlacedMode
  <2>4. CASE \/ ReadToken(p, p) \/ WriteToken(p, p) \/ LtSleep(p)
             \/ CheckMode(p, Child[p]) \/ WaitForChild(p)
    <3>1. UNCHANGED <<cpu, rt_cpu, at, policy, domains>>
      BY <2>4 DEF ReadToken, WriteToken, LtSleep, CheckMode, WaitForChild, kernel
    <3>2. QED BY <3>1, PlacedStays
  <2>5. QED BY <1>4, <2>2, <2>3, <2>4 DEF ParentStep
<1>5. ASSUME NEW t \in Task, Balance(t) PROVE Placed'
  <2>1. /\ policy[t] = "SCHED_NORMAL" /\ UNCHANGED <<cpu, rt_cpu, policy, domains>>
        /\ \A u \in Task \ {t} : at'[u] = at[u]
    BY <1>5 DEF Balance, library, WayInv, DataInv
  <2>2. IsChild(t) => cpu[t] = 0 /\ rt_cpu[t] \in {-1, 0} BY DEF Placed, IsChild
  <2>3. QED BY <2>1, <2>2, PlacedStep
<1>6. CASE SetSched
  <2>1. UNCHANGED <<cpu, rt_cpu, policy>> /\ \A t \in Task : policy[t] = "SCHED_NORMAL"
    BY <1>6 DEF SetSched, library
  <2>2. QED BY <2>1 DEF Placed, StaysInDomain
<1>7. QED BY <1>1, <1>2, <1>3, <1>4, <1>5, <1>6 DEF Next

\* Parent and child take turns in the order of core_api.c, and no task migrates
\* after it was admitted ("@pre tid is not yet in real-time mode", migration.h:18;
\* "when we wake up, we should be a real-time task", core_api.c:193).  A child
\* that takes longer than the time its parent gives it "to suspend"
\* (core_api.c:202) finds itself in real-time mode too, and migrates within its
\* domain.
THEOREM TakesTurns == Spec => []InTurn
<1> DEFINE Inv == WayInv /\ TurnInv /\ OnTime /\ Placed
<1>1. ASSUME Init PROVE Inv
  <2>1. \A p \in Parent : Child[p] \in Task /\ IsChild(Child[p])
    BY AdmissionAssumption DEF IsChild
  <2>2. \A p \in Parent : cpu[Child[p]] = 0 /\ rt_cpu[Child[p]] = -1
    BY <1>1, <2>1 DEF Init
  <2>3. Placed BY <1>1, <2>2 DEF Init, Placed, StaysInDomain
  <2>4. QED BY <1>1, <2>3, WayInit, TurnInit
<1>2. Inv /\ [Next]_vars => Inv'
  BY WayNext, TurnNext, OnTimeNext, PlacedNext DEF TurnInv
<1>3. Inv => InTurn BY TurnBefore, TurnWakes DEF InTurn, Placed
<1>4. QED BY <1>1, <1>2, <1>3, PTL DEF Spec
-----------------------------------------------------------------------------
(* Who is refused.                                                         *)

\* The processors that are online have the first numbers, and the buffer has room
\* for them; every plugin's domains cover them.
OnlineFromZero ==
  \A set \in Onlines : Cardinality(set) <= MaxCpus /\ set = 0..Cardinality(set)-1
DomainsCover ==
  \A d \in Plugins, set \in Onlines : \A c \in set : \E i \in DOMAIN d : c \in d[i]

\* The reasons for a refusal.
Refused(t) ==
  \/ kind[t] = "domain" /\ (Asked[t] \notin DOMAIN domains \/ domains[Asked[t]] \cap online = {})
  \/ kind[t] # "domain" /\ cpu[t] \notin online

LEMMA OnlineIs ==
  ASSUME DataInv, OnlineFromZero
  PROVE  /\ Cardinality(online) \in Nat /\ ~(Cardinality(online) > MaxCpus)
         /\ online = 0..Cardinality(online)-1
<1>1. Cardinality(online) \in Nat BY AdmissionAssumption, FS_CardinalityType DEF DataInv
<1>2. Cardinality(online) <= MaxCpus /\ online = 0..Cardinality(online)-1
  BY DEF OnlineFromZero, DataInv
<1>3. MaxCpus \in Nat BY CpuMappingAssumption
<1> HIDE DEF OnlineFromZero
<1>4. ~(Cardinality(online) > MaxCpus) BY <1>1, <1>2, <1>3
<1>5. QED BY <1>1, <1>2, <1>4

\* A task whose call fails has a reason, or the plugin was switched.
FailsAt(t, c) ==
  \/ c = "read_mapping" /\ ReadMapping(online, domains, Asked[t], digits).ret # 0
  \/ c = "setaffinity" /\ ~AffinityAllowed(mask[t])
  \/ c = "migrate" /\ ~(MigratableCpu(online, cpu[t]) /\ AffinityAllowed({cpu[t]}))
  \/ c = "param" /\ ~ParamAllowed(t, cpu[t])
  \/ c = "mode" /\ (policy[t] # "SCHED_NORMAL" \/ ~Admitted(t))
  \/ c = "job" /\ policy[t] # "SCHED_LITMUS"

LEMMA FailsForAReason ==
  ASSUME WayInv, OnlineFromZero, DomainsCover,
         NEW t \in Task, ~IsChild(t), t \notin switched, NEW c, Calls(t, c), FailsAt(t, c)
  PROVE  Refused(t)
<1> DEFINE x == Pos(t)
           S == domains[Asked[t]]
           n == Cardinality(online)
<1>1. OwnAt(t, c) BY WayAt
<1>2. /\ policy[t] = "SCHED_LITMUS" <=> x \in RealTimeAt(kind[t])
      /\ DomainWay(t, x) /\ CpuWay(t, x)
      /\ kind[t] \in OwnKinds /\ kind[t] \in PlanKinds
      /\ x \in 1..Len(Plan[kind[t]]) /\ Plan[kind[t]][x] = c
  BY <1>1 DEF OwnAt
<1>3. policy[t] \in Policies /\ at[t] \in online /\ domains \in Plugins /\ online \in Onlines
  BY DEF WayInv, DataInv
<1>4. n \in Nat /\ ~(n > MaxCpus) /\ online = 0..n-1 BY OnlineIs DEF WayInv
<1> HIDE DEF x, n
<1>5. CASE kind[t] = "domain"
  <2>1. SUFFICES ASSUME Asked[t] \in DOMAIN domains, S \cap online # {} PROVE FALSE
    BY <1>5 DEF Refused
  <2>2. S \in SUBSET Nat BY <1>3, <2>1, Numbers
  <2> HIDE DEF S
  <2>3. PICK y \in S : y < n BY <1>4, <2>1
  <2>4. FirstAmong(S, n) \in S /\ FirstAmong(S, n) \in online
    <3>1. FirstAmong(S, n) \in S \cup {-1} /\ FirstAmong(S, n) # -1 /\ FirstAmong(S, n) < n
      BY <1>4, <2>2, <2>3, FirstIs
    <3>2. FirstAmong(S, n) \in S /\ FirstAmong(S, n) \in Nat BY <2>2, <3>1
    <3>3. FirstAmong(S, n) \in 0..n-1 BY <1>4, <3>1, <3>2
    <3>4. QED BY <1>4, <3>2, <3>3
  <2>5. CASE c = "read_mapping"
    <3>1. ReadMapping(online, domains, Asked[t], digits).ret = 0
      BY <1>4, <2>1, ReadsDomain DEF WayInv, DataInv, n
    <3>2. QED BY <2>5, <3>1 DEF FailsAt
  <2>6. CASE c = "setaffinity"
    <3>1. x = 2 BY <1>2, <2>6, PlacesOf
    <3>2. mask[t] = S BY <1>2, <1>5, <3>1 DEF DomainWay, S
    <3>3. QED BY <2>1, <2>6, <3>2 DEF FailsAt, AffinityAllowed
  <2>7. CASE c = "param"
    <3>1. x = 4 BY <1>2, <1>5, <2>7, PlacesOf
    <3>2. policy[t] = "SCHED_NORMAL" BY <1>2, <1>3, <1>5, <3>1 DEF Policies, RealTimeAt
    <3>3. cpu[t] = FirstAmong(S, n) BY <1>2, <1>5, <3>1 DEF DomainWay, S, n
    <3>4. QED BY <2>4, <2>7, <3>2, <3>3 DEF FailsAt, ParamAllowed
  <2>8. CASE c = "mode"
    <3>1. x = 5 BY <1>2, <1>5, <2>8, PlacesOf
    <3>2. policy[t] = "SCHED_NORMAL" BY <1>2, <1>3, <1>5, <3>1 DEF Policies, RealTimeAt
    <3>3. rt_cpu[t] = FirstAmong(S, n) /\ at[t] \in S
      BY <1>2, <1>5, <3>1 DEF DomainWay, S, n
    <3>4. rt_cpu[t] # -1 BY <2>2, <2>4, <3>3
    <3>5. Admitted(t) BY <2>1, <2>4, <3>3, <3>4 DEF Admitted, S
    <3>6. QED BY <2>8, <3>2, <3>5 DEF FailsAt
  <2>9. CASE c = "job"
    <3>1. x = 6 BY <1>2, <1>5, <2>9, PlacesOf
    <3>2. QED BY <1>2, <1>5, <2>9, <3>1 DEF FailsAt, RealTimeAt
  <2>10. c # "migrate" BY <1>2, <1>5, PlacesOf
  <2>11. QED BY <2>5, <2>6, <2>7, <2>8, <2>9, <2>10 DEF FailsAt
<1>6. CASE kind[t] # "domain"
  <2>1. SUFFICES ASSUME cpu[t] \in online PROVE FALSE BY <1>6 DEF Refused
  <2>2. kind[t] \in {"processor", "test"} BY <1>2, <1>6 DEF OwnKinds
  <2>3. c \in {"migrate", "param", "mode", "job"}
    BY <1>2, <1>6, PlacesOf DEF FailsAt
  <2>4. CASE c = "migrate"
    <3>1. MigratableCpu(online, cpu[t]) BY <1>4, <2>1 DEF MigratableCpu, n
    <3>2. QED BY <2>1, <2>4, <3>1 DEF FailsAt, AffinityAllowed
  <2>5. CASE c = "param"
    <3>1. x \in {1, 2} BY <1>2, <2>2, <2>5, PlacesOf
    <3>2. policy[t] = "SCHED_NORMAL" BY <1>2, <1>3, <2>2, <3>1 DEF Policies, RealTimeAt
    <3>3. QED BY <2>1, <2>5, <3>2 DEF FailsAt, ParamAllowed
  <2>6. CASE c = "mode"
    <3>1. x = 3 BY <1>2, <2>2, <2>6, PlacesOf
    <3>2. policy[t] = "SCHED_NORMAL" BY <1>2, <1>3, <2>2, <3>1 DEF Policies, RealTimeAt
    <3>3. rt_cpu[t] = cpu[t] /\ at[t] = cpu[t] BY <1>2, <2>2, <3>1 DEF CpuWay
    <3>4. PICK i \in DOMAIN domains : cpu[t] \in domains[i]
      BY <1>3, <2>1 DEF DomainsCover
    <3>5. rt_cpu[t] # -1 BY <1>4, <2>1, <3>3
    <3>6. Admitted(t) BY <3>3, <3>4, <3>5 DEF Admitted
    <3>7. QED BY <2>6, <3>2, <3>6 DEF FailsAt
  <2>7. CASE c = "job"
    <3>1. x = 4 BY <1>2, <2>2, <2>7, PlacesOf
    <3>2. QED BY <1>2, <2>2, <2>7, <3>1 DEF FailsAt, RealTimeAt
  <2>8. QED BY <2>3, <2>4, <2>5, <2>6, <2>7
<1>7. QED BY <1>5, <1>6
Excused(t) == t \in switched \/ IsChild(t) \/ Refused(t)

LEMMA NotRefusedIs == NotRefused <=> \A t \in Task \cap failed : Excused(t)
  BY DEF NotRefused, Excused, Refused

\* Reasons last.
LEMMA ExcusedKept ==
  ASSUME NEW t \in Task, Excused(t), Quiet, cpu'[t] = cpu[t]
  PROVE  Excused(t)'
  BY DEF Excused, Refused, Quiet, IsChild

LEMMA RefusedReturns ==
  ASSUME NotRefused, NEW a, Return(a), Quiet, \A t \in Task \cap failed : cpu'[t] = cpu[t]
  PROVE  NotRefused'
<1>1. failed' = failed BY DEF Return
<1>2. \A t \in Task \cap failed : Excused(t)' BY NotRefusedIs, ExcusedKept
<1>3. \A t \in Task \cap failed' : Excused(t)' BY <1>1, <1>2
<1>4. NotRefused' <=> \A t \in Task \cap failed' : Excused(t)'
    BY DEF NotRefused, Excused, Refused
<1>5. QED BY <1>3, <1>4

LEMMA RefusedFails ==
  ASSUME WayInv, OnlineFromZero, DomainsCover, NotRefused, NEW a \in Actor, Fail(a), Quiet,
         UNCHANGED cpu, NEW c, Calls(a, c),
         a \notin Task \/ IsChild(a) \/ FailsAt(a, c)
  PROVE  NotRefused'
<1>1. failed' = failed \cup {a} BY DEF Fail
<1>2. a \in Task => Excused(a) BY FailsForAReason DEF Excused
<1>3. \A t \in Task \cap failed : Excused(t) BY NotRefusedIs
<1>4. \A t \in Task \cap failed' : Excused(t) BY <1>1, <1>2, <1>3
<1>5. \A t \in Task \cap failed' : Excused(t)' BY <1>4, ExcusedKept
<1>6. NotRefused' <=> \A t \in Task \cap failed' : Excused(t)'
    BY DEF NotRefused, Excused, Refused
<1>7. QED BY <1>5, <1>6

LEMMA RefusedNext ==
  ASSUME WayInv, OnlineFromZero, DomainsCover, NotRefused, [Next]_vars
  PROVE  NotRefused'
<1>1. CASE UNCHANGED vars
  BY <1>1 DEF vars, library, kernel, NotRefused, IsChild
<1>2. ASSUME NEW t \in Task, OwnStep(t) PROVE NotRefused'
  <2>1. t \in Actor BY DEF Actor
  <2>2. CASE ReadDomain(t)
    <3>1. Calls(t, "read_mapping") /\ Quiet /\ UNCHANGED cpu
          /\ (Return(t) \/ (Fail(t) /\ FailsAt(t, "read_mapping")))
      BY <2>2 DEF ReadDomain, Quiet, kernel, FailsAt
    <3>2. QED BY <2>1, <3>1, RefusedReturns, RefusedFails
  <2>3. CASE SetAffinity(t)
    <3>1. Calls(t, "setaffinity") /\ Quiet /\ UNCHANGED cpu
          /\ (Return(t) \/ (Fail(t) /\ FailsAt(t, "setaffinity")))
      BY <2>3 DEF SetAffinity, MoveTo, Quiet, kernel, FailsAt
    <3>2. QED BY <2>1, <3>1, RefusedReturns, RefusedFails
  <2>4. CASE MigrateToCpu(t)
    <3>1. Calls(t, "migrate") /\ Quiet /\ UNCHANGED cpu
          /\ (Return(t) \/ (Fail(t) /\ FailsAt(t, "migrate")))
      BY <2>4 DEF MigrateToCpu, MoveTo, Quiet, kernel, FailsAt
    <3>2. QED BY <2>1, <3>1, RefusedReturns, RefusedFails
  <2>5. CASE LookUpFirstCpu(t)
    <3>1. Quiet /\ Return(t) /\ t \notin failed
          /\ cpu' = [cpu EXCEPT ![t] = DomainToFirstCpu(online, domains, Asked[t], digits)]
      BY <2>5 DEF LookUpFirstCpu, Calls, Quiet, kernel
    <3>2. \A u \in Task \cap failed : cpu'[u] = cpu[u] BY <3>1 DEF WayInv, DataInv
    <3>3. QED BY <3>1, <3>2, RefusedReturns
  <2>6. CASE SetParam(t, t, cpu[t])
    <3>1. Calls(t, "param") /\ Quiet /\ UNCHANGED cpu
          /\ (Return(t) \/ (Fail(t) /\ FailsAt(t, "param")))
      BY <2>6 DEF SetParam, Quiet, FailsAt
    <3>2. QED BY <2>1, <3>1, RefusedReturns, RefusedFails
  <2>7. CASE BecomeRealTime(t, t)
    <3>1. Calls(t, "mode") /\ Quiet /\ UNCHANGED cpu
          /\ (Return(t) \/ (Fail(t) /\ FailsAt(t, "mode")))
      BY <2>7 DEF BecomeRealTime, Quiet, FailsAt
    <3>2. QED BY <2>1, <3>1, RefusedReturns, RefusedFails
  <2>8. CASE Job(t)
    <3>1. Calls(t, "job") /\ Quiet /\ UNCHANGED cpu
          /\ (Return(t) \/ (Fail(t) /\ FailsAt(t, "job")))
      BY <2>8 DEF Job, Quiet, FailsAt
    <3>2. QED BY <2>1, <3>1, RefusedReturns, RefusedFails
  <2>9. CASE BecomeBackground(t)
    <3>1. Quiet /\ UNCHANGED cpu /\ Return(t) BY <2>9 DEF BecomeBackground, Quiet
    <3>2. QED BY <3>1, RefusedReturns
  <2>10. QED BY <1>2, <2>2, <2>3, <2>4, <2>5, <2>6, <2>7, <2>8, <2>9 DEF OwnStep
<1>3. ASSUME NEW a \in Actor, a \notin Task \/ IsChild(a), Quiet, UNCHANGED cpu,
             Return(a) \/ Fail(a), NEW c, Calls(a, c)
      PROVE  NotRefused'
  BY <1>3, RefusedReturns, RefusedFails
<1>4. ASSUME NEW t \in Task, ChildStep(t) PROVE NotRefused'
  <2>1. t \in Actor /\ IsChild(t) BY <1>4 DEF Actor, ChildStep
  <2>2. Quiet /\ UNCHANGED cpu /\ (Return(t) \/ Fail(t)) /\ \E c : Calls(t, c)
    BY <1>4 DEF ChildStep, WriteToken, ReadToken, Poll, CheckMode, Quiet, kernel
  <2>3. QED BY <1>3, <2>1, <2>2
<1>5. ASSUME NEW p \in Parent, ParentStep(p) PROVE NotRefused'
  <2>1. p \in Actor /\ p \notin Task BY AdmissionAssumption DEF Actor
  <2>2. CASE ReadToken(p, p) \/ WriteToken(p, p) \/ LtSleep(p) \/ CheckMode(p, Child[p])
               \/ WaitForChild(p)
    <3>1. Quiet /\ UNCHANGED cpu /\ (Return(p) \/ Fail(p)) /\ \E c : Calls(p, c)
      BY <2>2 DEF ReadToken, WriteToken, LtSleep, CheckMode, WaitForChild, Quiet, kernel
    <3>2. QED BY <1>3, <2>1, <3>1
  <2>3. CASE SetParam(p, Child[p], 0) \/ BecomeRealTime(p, Child[p])
    <3>1. Quiet /\ UNCHANGED cpu /\ (Return(p) \/ Fail(p)) /\ \E c : Calls(p, c)
      BY <2>3 DEF SetParam, BecomeRealTime, Quiet
    <3>2. QED BY <1>3, <2>1, <3>1
  <2>4. QED BY <1>5, <2>2, <2>3 DEF ParentStep
<1>6. ASSUME NEW t \in Task, Balance(t) PROVE NotRefused'
  BY <1>6 DEF Balance, library, NotRefused, IsChild
<1>7. CASE SetSched
  <2>1. failed' = failed /\ failed \subseteq switched' BY <1>7 DEF SetSched, library
  <2>2. QED BY <2>1 DEF NotRefused
<1>8. QED BY <1>1, <1>2, <1>4, <1>5, <1>6, <1>7 DEF Next

\* A task that asks for what there is becomes a real-time task.  The hypotheses are
\* about the machine: be_migrate_thread_to_cpu() compares the number of a processor
\* with the count of those online, and domain_to_first_cpu() searches the numbers
\* below that count (src/src/migration.c, src/src/litmus.c).
THEOREM AdmitsWhoCanBe ==
  ASSUME OnlineFromZero, DomainsCover PROVE Spec => []NotRefused
<1>1. Init => WayInv /\ NotRefused BY WayInit DEF Init, NotRefused
<1>2. WayInv /\ NotRefused /\ [Next]_vars => WayInv' /\ NotRefused' BY WayNext, RefusedNext
<1>3. QED BY <1>1, <1>2, PTL DEF Spec
=============================================================================
