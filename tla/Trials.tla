------------------------------- MODULE Trials -------------------------------
(***************************************************************************)
(* scripts/kf/hypotheses.py: axes of source substitutions, rendered into   *)
(* every distinct variant, compiled and scored by concurrent workers while *)
(* the sources, the target or the compiler may be edited beside them.      *)
(*                                                                         *)
(* A text is a sequence; an axis is [name, find, options], an option       *)
(* [name, replace, extra], replace <<>> for none or <<text>>, extra a      *)
(* sequence of <<find, replacement>>.                                      *)
(***************************************************************************)
EXTENDS Integers, Sequences, FiniteSets, SequencesExt

Found(text, needle, at) == at + Len(needle) <= Len(text) /\ SubSeq(text, at + 1, at + Len(needle)) = needle
\* bytes.count: from left to right, occurrences that overlap a counted one are not seen.
Occurrences(text, needle) ==
  FoldLeft(LAMBDA done, at : IF at >= done.next /\ Found(text, needle, at) THEN [next |-> at + Len(needle), starts |-> Append(done.starts, at)] ELSE done,
           [next |-> 0, starts |-> <<>>], [n \in 1 .. Len(text) |-> n - 1]).starts
EditOf(start, end, replacement) == [start |-> start, end |-> end, replacement |-> replacement]
UniqueSpan(original, needle) ==
  LET starts == IF needle = <<>> THEN <<>> ELSE Occurrences(original, needle)
  IN IF Len(starts) = 1 THEN <<EditOf(starts[1], starts[1] + Len(needle), <<>>)>> ELSE <<>>
\* Two edits whose spans share a byte; a manifest with such a pair is refused.
Overlap(x, y) == x.start < y.end /\ y.start < x.end
OverlapWithin(edits) == \E i, j \in DOMAIN edits : i # j /\ Overlap(edits[i], edits[j])
Substituted(original, find, replacement) == [UniqueSpan(original, find)[1] EXCEPT !.replacement = replacement]
OptionEdits(axis, option, original) ==
  <<Substituted(original, axis.find, IF option.replace = <<>> THEN axis.find ELSE option.replace[1])>>
  \o [n \in DOMAIN option.extra |-> Substituted(original, option.extra[n][1], option.extra[n][2])]
AxisEdits(axis, original) == UNION {{OptionEdits(axis, axis.options[o], original)[n] : n \in DOMAIN OptionEdits(axis, axis.options[o], original)} : o \in DOMAIN axis.options}
UniqueNames(named) == \A i, j \in DOMAIN named : named[i].name = named[j].name => i = j
ParseManifest(axes, original) ==
  /\ axes # <<>> /\ UniqueNames(axes)
  /\ \A a \in DOMAIN axes :
       /\ UniqueSpan(original, axes[a].find) # <<>> /\ axes[a].options # <<>> /\ UniqueNames(axes[a].options)
       /\ \A o \in DOMAIN axes[a].options :
            /\ \A n \in DOMAIN axes[a].options[o].extra : UniqueSpan(original, axes[a].options[o].extra[n][1]) # <<>>
            /\ ~OverlapWithin(OptionEdits(axes[a], axes[a].options[o], original))
  /\ \A a, b \in DOMAIN axes : a < b => \A x \in AxisEdits(axes[a], original), y \in AxisEdits(axes[b], original) : ~Overlap(x, y)

\* From the last edit to the first, so that the offsets of the others stay.
Render(original, edits) ==
  FoldLeft(LAMBDA text, e : SubSeq(text, 1, e.start) \o e.replacement \o SubSeq(text, e.end + 1, Len(text)),
           original, SortSeq(edits, LAMBDA x, y : x.start > y.start))
Combinations(axes) == {c \in [DOMAIN axes -> 1 .. 4] : \A a \in DOMAIN axes : c[a] \in DOMAIN axes[a].options}
\* itertools.product: the last axis turns fastest.
Earlier(c, d) == \E a \in DOMAIN c : c[a] < d[a] /\ \A b \in 1 .. a - 1 : c[b] = d[b]
ChosenEdits(axes, original, c) == FlattenSeq([a \in DOMAIN axes |-> OptionEdits(axes[a], axes[a].options[c[a]], original)])
Variants(original, axes) ==
  FoldLeft(LAMBDA result, c : LET text == Render(original, ChosenEdits(axes, original, c))
                              IN IF \E i \in DOMAIN result : result[i].text = text THEN result ELSE Append(result, [labels |-> c, text |-> text]),
           <<>>, SetToSortSeq(Combinations(axes), Earlier))

(***************************************************************************)
(* The batch.  Index 0 is the traced baseline; a row is what a worker      *)
(* returns.  Texts holding Broken do not compile.                          *)
(***************************************************************************)
CONSTANTS Broken, Doubled, Exactly, KeepTop
\* What objdiff says of a symbol: a text that holds Doubled twice defines the symbol twice.
Match(target, text) == IF text = target THEN Exactly ELSE IF Len(text) = Len(target) THEN Exactly - 1 ELSE Exactly - 2
Defined(text) == Cardinality({n \in DOMAIN text : text[n] = Doubled}) < 2
StrictScore(target, text) == IF Defined(text) THEN [score |-> Match(target, text), failed |-> FALSE] ELSE [score |-> 0, failed |-> TRUE]
\* The traced state of a compilation.
TracedState(compiler, text) == <<compiler, Len(text) > 3>>
NotCompiled == [compiler |-> -1, failed |-> FALSE]
\* A row that could not be compiled has no source; one that objdiff refused has.
RowOf(scored, source, key, compiler) == [score |-> scored.score, failed |-> scored.failed, source |-> source, key |-> key, compiler |-> compiler]
NoRow == RowOf([score |-> -1, failed |-> FALSE], FALSE, <<>>, -1)
FailedRow == RowOf([score |-> 0, failed |-> TRUE], FALSE, <<>>, -1)
Batch(original, variants, target, traced) ==
  LET indices == (IF traced THEN {0} ELSE {}) \cup DOMAIN variants
  IN [original |-> original, variants |-> variants, digest |-> target, traced |-> traced, source |-> original, target |-> target, compiler |-> 0,
      objects |-> [i \in indices |-> NotCompiled], rows |-> [i \in indices |-> NoRow], phase |-> "running", report |-> <<>>, retained |-> {}, exit |-> -1]
TextOf(b, i) == IF i = 0 THEN b.original ELSE b.variants[i].text
Done(b, i) == b.rows[i] # NoRow
Compiles(text) == \A n \in DOMAIN text : text[n] # Broken
\* Each action is the set of the batches it leads to.
Compile(b, i) ==
  {c \in {IF Compiles(TextOf(b, i)) THEN [b EXCEPT !.objects[i] = [compiler |-> b.compiler, failed |-> FALSE]]
          ELSE [b EXCEPT !.rows[i] = FailedRow]} :
     b.phase = "running" /\ b.objects[i] = NotCompiled /\ ~Done(b, i) /\ (b.traced /\ i # 0 => Done(b, 0) /\ ~b.rows[0].failed)}
ScoreVariant(b, i) ==
  {c \in {[b EXCEPT !.rows[i] = RowOf(StrictScore(b.target, TextOf(b, i)), TRUE,
                                     IF b.traced THEN TracedState(b.objects[i].compiler, TextOf(b, i)) ELSE <<>>, b.objects[i].compiler)]} :
     b.phase = "running" /\ b.objects[i] # NotCompiled /\ ~Done(b, i)}
Edited(b) ==
  {c \in {[b EXCEPT !.source = Append(b.original, 0)], [b EXCEPT !.target = Append(b.digest, 0)]} : b.phase = "running"}
  \cup {c \in {[b EXCEPT !.compiler = 1]} : b.phase = "running" /\ b.traced}
Ranks(b, i, j) == b.rows[i].score > b.rows[j].score \/ (b.rows[i].score = b.rows[j].score /\ i < j)
\* Mutant: the first of a state that finished is kept, not the best.
FirstOfEach(b) ==
  LET good == {i \in DOMAIN b.rows : ~b.rows[i].failed}
  IN {i \in good : b.rows[i].score = Exactly} \cup {i \in good : \A j \in good : j < i => b.rows[j].key # b.rows[i].key}
TraceFrontier(b) ==
  LET good == {i \in DOMAIN b.rows : ~b.rows[i].failed}
  IN {i \in good : b.rows[i].score = Exactly} \cup {i \in good : \A j \in good \ {i} : Ranks(b, j, i) => b.rows[j].key # b.rows[i].key}
Fingerprints(b) == {b.rows[i].compiler : i \in DOMAIN b.rows} \ {-1}
Ranked(b) == SetToSortSeq(DOMAIN b.variants, LAMBDA i, j : Ranks(b, i, j))
KeptSources(b) ==
  [r \in {n \in DOMAIN b.variants : n <= KeepTop} |-> IF ~b.rows[Ranked(b)[r]].source THEN <<>> ELSE b.variants[Ranked(b)[r]].text]
Refused(b) == (b.traced /\ Cardinality(Fingerprints(b)) # 1) \/ b.source # b.original \/ b.target # b.digest
Reported(b) ==
  [b EXCEPT !.phase = "reported", !.report = [ranked |-> Ranked(b), written |-> KeptSources(b)],
            !.retained = IF b.traced THEN TraceFrontier(b) \cup {0} ELSE {},
            !.exit = IF \E i \in DOMAIN b.variants : b.rows[i].score = Exactly THEN 0 ELSE 1]
Finish(b) ==
  {c \in {[b EXCEPT !.phase = "refused"]} : b.phase = "running" /\ b.traced /\ b.rows[0].failed}
  \cup {c \in {IF Refused(b) THEN [b EXCEPT !.phase = "refused"] ELSE Reported(b)} : b.phase = "running" /\ \A i \in DOMAIN b.rows : Done(b, i)}
BatchSteps(b) == (UNION {Compile(b, i) \cup ScoreVariant(b, i) : i \in DOMAIN b.rows}) \cup Edited(b) \cup Finish(b)

(***************************************************************************)
(* What a report says, and why it is so.                                   *)
(***************************************************************************)
Good(b, i) == Compiles(TextOf(b, i)) /\ Defined(TextOf(b, i))
Goods(b) == {i \in DOMAIN b.rows : Good(b, i)}
RowIsRight(b, i) ==
  IF Good(b, i) THEN ~b.rows[i].failed /\ b.rows[i].score = Match(b.digest, TextOf(b, i))
  ELSE b.rows[i].failed /\ b.rows[i].score = 0
\* Every state has a representative among the retained traces that is no worse, and every match is there.
FrontierIsBest(b) ==
  \A i \in Goods(b) : /\ \E j \in b.retained : b.rows[j].key = b.rows[i].key /\ b.rows[j].score >= b.rows[i].score
                      /\ TextOf(b, i) = b.digest => i \in b.retained
ReportIsRight(b) ==
  b.phase = "reported" =>
    /\ \A i \in DOMAIN b.rows : RowIsRight(b, i)
    /\ b.exit = 0 <=> \E i \in DOMAIN b.variants : Good(b, i) /\ TextOf(b, i) = b.digest
    /\ b.traced => (\A i, j \in Goods(b) : b.rows[i].compiler = b.rows[j].compiler) /\ FrontierIsBest(b)

\* An edited target is never the one the batch began with again.
TargetIsWatched(b) ==
  /\ b.target # b.digest => b.phase # "reported"
  /\ b.target = b.digest => \A i \in DOMAIN b.rows : Done(b, i) => RowIsRight(b, i)
\* An object is of a text that compiles, and a row knows the compiler of its object.
RowsAreOfObjects(b) ==
  \A i \in DOMAIN b.rows :
    /\ b.objects[i] # NotCompiled => b.objects[i].compiler >= 0 /\ Compiles(TextOf(b, i))
    /\ Done(b, i) => IF Compiles(TextOf(b, i)) THEN b.rows[i].compiler >= 0 ELSE b.rows[i] = FailedRow
ReportIsOfRows(b) ==
  b.phase = "reported" =>
    /\ \A i \in DOMAIN b.rows : Done(b, i)
    /\ b.exit = 0 <=> \E i \in DOMAIN b.variants : b.rows[i].score = Exactly
    /\ b.traced => Cardinality(Fingerprints(b)) = 1 /\ b.retained = TraceFrontier(b) \cup {0}
BatchInv(b) == TargetIsWatched(b) /\ RowsAreOfObjects(b) /\ ReportIsOfRows(b)
=============================================================================
