----------------------------- MODULE ExecTimes -----------------------------
(***************************************************************************)
(* get_exec_times() of rtspin and rtspin_cache: it reads a column of       *)
(* execution times from a file, which it goes through twice, once to count *)
(* the jobs and once for the times.  A file is a sequence of tokens: "#",  *)
(* "," , "sp" (blank), "nl" (newline) and numbers.  A position is that of  *)
(* the next token; SkipToNextLine returns the next one, and eof.           *)
(***************************************************************************)
EXTENDS Integers, Sequences, FiniteSetsExt

CONSTANT
  Value   \* the numbers, from their text to milliseconds

ASSUME ExecTimesAssumption ==
  \A text \in DOMAIN Value : Value[text] \in Nat /\ text \notin {"#", ",", "sp", "nl"}

Space == {"sp", "nl"}

\* The first position from p on whose token is in S; behind the end when there
\* is none.
Find(f, p, S) == Min({i \in p..Len(f) : f[i] \in S} \cup {Len(f) + 1})
FindNot(f, p, S) == Min({i \in p..Len(f) : f[i] \notin S} \cup {Len(f) + 1})

SkipToNextLine(f, p) ==
  LET nl == Find(f, p, {"nl"})
  IN [pos |-> IF nl > Len(f) THEN nl ELSE nl + 1, eof |-> nl > Len(f)]

\* Lines that start with "#" are skipped, and the character behind them is put
\* back.  The variant skips one line at most.
SkipComments_One(f, p) ==
  IF p <= Len(f) /\ f[p] = "#" THEN SkipToNextLine(f, p + 1).pos ELSE p
SkipComments(f, p) ==
  LET skip[q \in 1..Len(f) + 1] ==
        IF q <= Len(f) /\ f[q] = "#" THEN skip[SkipToNextLine(f, q + 1).pos] ELSE q
  IN skip[p]

\* One round of the first pass: a line counts when it ends in a newline.
CountLine(f, p) == SkipToNextLine(f, SkipComments(f, p))

\* fscanf("%*s,"): blanks and newlines, then everything up to the next one,
\* commas included.
SkipWord(f, p) == Find(f, FindNot(f, p, Space), Space)

\* Where fscanf("%lf") looks for the number of a job.
Column(f, p, column) ==
  LET skip[k \in 1..column] == IF k = 1 THEN p ELSE SkipWord(f, skip[k - 1])
  IN FindNot(f, skip[column], Space)

\* One round of the second pass: the time it reads, if any.
ReadTime(f, p, column) ==
  LET at == Column(f, SkipComments(f, p), column)
      number == at <= Len(f) /\ f[at] \in DOMAIN Value
  IN [ok |-> number,
      time |-> IF number THEN Value[f[at]] ELSE 0,
      rest |-> SkipToNextLine(f, at + 1)]

-----------------------------------------------------------------------------
(* What a file says, line by line.                                         *)

\* A line has a newline at its end, or none.
IsLine(line) == /\ line \in Seq(STRING) \ {<<>>}
                /\ \A i \in 1..Len(line) - 1 : line[i] # "nl"

\* The k-th number of a set.
Nth(S, k) == CHOOSE i \in S : Cardinality({j \in S : j < i}) = k - 1

\* The positions at which the words of a line start, and its k-th word.
Words(line) ==
  {i \in 1..Len(line) : line[i] \notin Space /\ (i = 1 \/ line[i - 1] \in Space)}
Word(line, k) == line[Nth(Words(line), k)]

IsComment(line) == line[1] = "#"
Terminated(line) == line[Len(line)] = "nl"
HasColumn(line, column) == Cardinality(Words(line)) >= column

\* Comments, and lines whose words reach to the column and have a number there.
WellFormed(lines, column) ==
  \A i \in 1..Len(lines) :
    /\ Terminated(lines[i])
    /\ \/ IsComment(lines[i])
       \/ HasColumn(lines[i], column) /\ Word(lines[i], column) \in DOMAIN Value

\* Which lines are jobs, and their times.
Jobs(lines) == {i \in 1..Len(lines) : ~IsComment(lines[i])}
TimesIn(lines, column) ==
  [k \in 1..Cardinality(Jobs(lines)) |-> Value[Word(lines[Nth(Jobs(lines), k)], column)]]
=============================================================================
