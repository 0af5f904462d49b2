------------------------------ MODULE Islands -------------------------------
(***************************************************************************)
(* scripts/kf/executable_diff.py and executable.py: a linked executable is *)
(* compared with the retail one, byte by byte and as islands of equal      *)
(* bytes that may have moved.  A payload is a sequence of bytes; offsets   *)
(* count from zero; percentages are compared as fractions.                 *)
(***************************************************************************)
EXTENDS Integers, Sequences, FiniteSets, SequencesExt

CONSTANTS SeedBytes,  \* seed_size
          MaxGap,     \* max_gap
          Header      \* the bytes before the load area

At(data, o) == data[o + 1]
Slice(data, from, size) == SubSeq(data, from + 1, from + size)
BytesOf(from, size) == from .. from + size - 1
NonZero(data) == Cardinality({n \in DOMAIN data : data[n] # 0})
Total(counts) == FoldLeft(+, 0, counts)
\* How far the free steps reach from the first one without a break.
Reach(free) == CHOOSE k \in 0 .. Cardinality(free) : 1 .. k \subseteq free /\ k + 1 \notin free
AtMost(a, b) == IF a < b THEN a ELSE b

(***************************************************************************)
(* Anchors: windows that occur once on each side, joined while they keep   *)
(* one displacement; the longest take their bytes first, then grow.        *)
(***************************************************************************)
Run(a, b, size) == [retail |-> a, candidate |-> b, size |-> size]
UniqueWindows(data) ==
  LET starts == 0 .. Len(data) - SeedBytes
  IN {o \in starts : \A p \in starts \ {o} : Slice(data, o, SeedBytes) # Slice(data, p, SeedBytes)}
Seeds(retail, candidate) ==
  LET right == UniqueWindows(candidate)
      Same(a) == {b \in right : Slice(candidate, b, SeedBytes) = Slice(retail, a, SeedBytes)}
  IN FoldLeft(LAMBDA done, a :
                IF Same(a) = {} THEN done
                ELSE LET b == CHOOSE b \in Same(a) : TRUE
                         active == {i \in DOMAIN done : done[i].candidate - done[i].retail = b - a}
                         last == CHOOSE i \in active : \A j \in active : j <= i
                     IN IF active # {} /\ a <= done[last].retail + done[last].size
                        THEN [done EXCEPT ![last].size = a + SeedBytes - done[last].retail]
                        ELSE Append(done, Run(a, b, SeedBytes)),
              <<>>, SetToSortSeq(UniqueWindows(retail), <))
Longer(x, y) ==
  \/ x.size > y.size
  \/ x.size = y.size /\ (x.retail < y.retail \/ (x.retail = y.retail /\ x.candidate < y.candidate))
Take(st, a, b, size) == [st EXCEPT !.left = @ \cup BytesOf(a, size), !.right = @ \cup BytesOf(b, size)]
Select(st, run) ==
  IF BytesOf(run.retail, run.size) \cap st.left # {} \/ BytesOf(run.candidate, run.size) \cap st.right # {} THEN st
  ELSE [Take(st, run.retail, run.candidate, run.size) EXCEPT !.runs = Append(@, run)]
\* Mutant: a byte that another run of the candidate holds may be used again.
FreeRetail(st, retail, candidate, a, b) == a \notin st.left /\ At(retail, a) = At(candidate, b)
Free(st, retail, candidate, a, b) == a \notin st.left /\ b \notin st.right /\ At(retail, a) = At(candidate, b)
Grown(st, i, retail, candidate) ==
  LET run == st.runs[i]
      back == Reach({j \in 1 .. AtMost(run.retail, run.candidate) : Free(st, retail, candidate, run.retail - j, run.candidate - j)})
      a == run.retail + run.size - 1
      b == run.candidate + run.size - 1
      on == Reach({j \in 1 .. AtMost(Len(retail) - 1 - a, Len(candidate) - 1 - b) : Free(st, retail, candidate, a + j, b + j)})
      grown == Run(run.retail - back, run.candidate - back, back + run.size + on)
  IN [Take(st, grown.retail, grown.candidate, grown.size) EXCEPT !.runs[i] = grown]
Edge(st, retail, candidate, suffix) ==
  LET Place(data, j) == IF suffix THEN Len(data) - j ELSE j - 1
      size == Reach({j \in 1 .. AtMost(Len(retail), Len(candidate)) : Free(st, retail, candidate, Place(retail, j), Place(candidate, j))})
      run == IF suffix THEN Run(Len(retail) - size, Len(candidate) - size, size) ELSE Run(0, 0, size)
  IN IF size = 0 THEN st ELSE [Take(st, run.retail, run.candidate, size) EXCEPT !.runs = Append(@, run)]
Anchors(retail, candidate) ==
  LET selected == FoldLeft(Select, [runs |-> <<>>, left |-> {}, right |-> {}], SortSeq(Seeds(retail, candidate), Longer))
      grown == FoldLeft(LAMBDA st, i : Grown(st, i, retail, candidate), selected, [i \in DOMAIN selected.runs |-> i])
  IN SortSeq(Edge(Edge(grown, retail, candidate, FALSE), retail, candidate, TRUE).runs, LAMBDA x, y : x.retail < y.retail)

(***************************************************************************)
(* difflib.SequenceMatcher without autojunk: the longest common block,     *)
(* earliest in the left and then in the right, and so on each side of it.  *)
(***************************************************************************)
RECURSIVE MatchingBlocks(_, _, _, _)
MatchingBlocks(left, right, a, b) ==
  LET common == {<<i, j, n>> \in (0 .. Len(left)) \X (0 .. Len(right)) \X (1 .. Len(left)) :
                   i + n <= Len(left) /\ j + n <= Len(right) /\ Slice(left, i, n) = Slice(right, j, n)}
      Before(x, y) == x[3] > y[3] \/ (x[3] = y[3] /\ (x[1] < y[1] \/ (x[1] = y[1] /\ x[2] <= y[2])))
      best == CHOOSE x \in common : \A y \in common : Before(x, y)
  IN IF common = {} THEN {}
     ELSE MatchingBlocks(Slice(left, 0, best[1]), Slice(right, 0, best[2]), a, b)
          \cup {Run(a + best[1], b + best[2], best[3])}
          \cup MatchingBlocks(Slice(left, best[1] + best[3], Len(left) - best[1] - best[3]),
                              Slice(right, best[2] + best[3], Len(right) - best[2] - best[3]),
                              a + best[1] + best[3], b + best[2] + best[3])

(***************************************************************************)
(* Islands: a run joins the one before it over a gap that both sides have  *)
(* and that is similar enough, or a short edit.                            *)
(***************************************************************************)
AtLeast(percent, matched, left, right) == left + right = 0 \/ 200 * matched >= percent * (left + right)
Follows(runs, x, y) == x.candidate < y.candidate /\ ~\E z \in Range(runs) : x.candidate < z.candidate /\ z.candidate < y.candidate
NoBridge == [joined |-> FALSE, matched |-> 0, nonzero |-> 0]
Spanned(retail, blocks) ==
  [joined |-> TRUE, matched |-> Total([n \in DOMAIN blocks |-> blocks[n].size]),
   nonzero |-> Total([n \in DOMAIN blocks |-> NonZero(Slice(retail, blocks[n].retail, blocks[n].size))])]
Similar(matched, left, right, whole) ==
  \/ AtLeast(60, matched, left, right)
  \/ left <= SeedBytes /\ right <= SeedBytes /\ AtLeast(85, whole + matched, whole + left, whole + right)
Bridge(runs, x, y, retail, candidate) ==
  LET a == x.retail + x.size
      b == x.candidate + x.size
      left == y.retail - a
      right == y.candidate - b
      Across(gap) == IF Similar(gap.matched, left, right, x.size + y.size) THEN gap ELSE NoBridge
  IN IF Follows(runs, x, y) /\ left \in 0 .. MaxGap /\ right \in 0 .. MaxGap
     THEN Across(Spanned(retail, SetToSeq(MatchingBlocks(Slice(retail, a, left), Slice(candidate, b, right), a, b))))
     ELSE NoBridge
Island(run, nonzero) ==
  [retail |-> run.retail, candidate |-> run.candidate, retailSize |-> run.size, candidateSize |-> run.size,
   equal |-> run.size, nonzero |-> nonzero, runs |-> 1]
Extended(island, run, nonzero, bridge) ==
  [island EXCEPT !.retailSize = run.retail + run.size - island.retail,
                 !.candidateSize = run.candidate + run.size - island.candidate,
                 !.equal = @ + run.size + bridge.matched, !.nonzero = @ + nonzero + bridge.nonzero, !.runs = @ + 1]
JoinRuns(islands, runs, k, retail, candidate) ==
  LET run == runs[k]
      nonzero == NonZero(Slice(retail, run.retail, run.size))
      Over(bridge) == IF bridge.joined THEN [islands EXCEPT ![Len(islands)] = Extended(@, run, nonzero, bridge)]
                      ELSE Append(islands, Island(run, nonzero))
  IN Over(IF k = 1 THEN NoBridge ELSE Bridge(runs, runs[k - 1], run, retail, candidate))
Exact(island) == island.equal = island.retailSize /\ island.retailSize = island.candidateSize
Unanchored(size, spans) ==
  LET done == FoldLeft(LAMBDA st, s : [gaps |-> IF s[1] > st.cursor THEN Append(st.gaps, <<st.cursor, s[1] - st.cursor>>) ELSE st.gaps,
                                       cursor |-> s[1] + s[2]],
                       [gaps |-> <<>>, cursor |-> 0], SortSeq(spans, LAMBDA s, t : s[1] < t[1]))
  IN IF done.cursor < size THEN Append(done.gaps, <<done.cursor, size - done.cursor>>) ELSE done.gaps
IslandsOf(runs, retail, candidate) ==
  FoldLeft(LAMBDA done, k : JoinRuns(done, runs, k, retail, candidate), <<>>, [k \in DOMAIN runs |-> k])
Report(islands, retail, candidate) ==
  LET matched == Total([n \in DOMAIN islands |-> islands[n].equal])
  IN [islands |-> islands, matched |-> matched, nonzero |-> Total([n \in DOMAIN islands |-> islands[n].nonzero]),
      full |-> AtLeast(100, matched, Len(retail), Len(candidate)),
      retailUnanchored |-> Unanchored(Len(retail), [k \in DOMAIN islands |-> <<islands[k].retail, islands[k].retailSize>>]),
      candidateUnanchored |-> Unanchored(Len(candidate), [k \in DOMAIN islands |-> <<islands[k].candidate, islands[k].candidateSize>>])]
ComparePayloads(retail, candidate) ==
  LET Joined(runs) == Report(IslandsOf(runs, retail, candidate), retail, candidate)
  IN Joined(IF retail # <<>> /\ retail = candidate THEN <<Run(0, 0, Len(retail))>> ELSE Anchors(retail, candidate))

(***************************************************************************)
(* executable.compare: the whole files, position by position.              *)
(***************************************************************************)
Payload(file) == Slice(file, Header, Len(file) - Header)
First(offsets) == IF offsets = {} THEN -1 ELSE CHOOSE o \in offsets : \A p \in offsets : o <= p
Compare(actual, expected) ==
  LET common == AtMost(Len(actual), Len(expected))
      longest == IF Len(actual) > Len(expected) THEN Len(actual) ELSE Len(expected)
      differences == {o \in 0 .. common - 1 : At(actual, o) # At(expected, o)} \cup common .. longest - 1
      load == {o \in differences : o >= Header}
  IN [equal |-> actual = expected, differing |-> Cardinality(differences), first |-> First(differences), firstLoad |-> First(load),
      header |-> Cardinality({o \in differences : o < Header}), load |-> Cardinality(load)]
\* compare_executables: a file too short for its header, or not of its declared size, is refused.
CompareExecutables(retail, candidate, declared) ==
  IF Len(candidate) < Header \/ Len(candidate) # Header + declared THEN <<>> ELSE <<ComparePayloads(Payload(retail), Payload(candidate))>>
=============================================================================
