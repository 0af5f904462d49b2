---------------------------- MODULE ToolsProofs -----------------------------
(***************************************************************************)
(* Theorems about the tools.  A batch of source variants, for any variants,*)
(* any number of workers in any order, and edits beside them: a report is  *)
(* of the target and, when traced, of the compiler the batch began with.   *)
(* The delinker, for any image, owner and rows: what it carves links back  *)
(* to the image's words.  The audit of functions, for any image and census:*)
(* the leaves it proposes are delimited by returns.                        *)
(***************************************************************************)
EXTENDS Trials, Delink, FunctionAudit, FiniteSetTheorems, SequenceTheorems, WellFoundedInduction, TLAPS

CONSTANT Labels
VARIABLE batch

Texts == Seq(Nat)
Scores == {0, -1, Exactly, Exactly - 1, Exactly - 2}
Rows == [score : Scores, failed : BOOLEAN, source : BOOLEAN, key : {<<>>} \cup {TracedState(c, t) : c \in -1 .. 1, t \in Texts}, compiler : -1 .. 1]
Objects == [compiler : -1 .. 1, failed : BOOLEAN]
Indices(b) == (IF b.traced THEN {0} ELSE {}) \cup DOMAIN b.variants
\* The report is a record of its own and keeps what it is.
Typed(b) ==
  b \in [original : Texts, variants : Seq([labels : Labels, text : Texts]), digest : Texts, traced : BOOLEAN, source : Texts, target : Texts,
         compiler : 0 .. 1, objects : [Indices(b) -> Objects], rows : [Indices(b) -> Rows], phase : {"running", "refused", "reported"},
         report : {b.report}, retained : {b.retained}, exit : -1 .. 1]

Init ==
  /\ Exactly \in Int /\ Exactly > 0
  /\ \E original, target \in Texts, variants \in Seq([labels : Labels, text : Texts]), traced \in BOOLEAN :
       batch = Batch(original, variants, target, traced)
Next == batch' \in BatchSteps(batch)
Spec == Init /\ [][Next]_batch

Sound(b) == Exactly \in Int /\ Exactly > 0 /\ Typed(b) /\ BatchInv(b)

-----------------------------------------------------------------------------
(* The values a batch is made of.                                          *)

LEMMA ScoreRange ==
  ASSUME Exactly \in Int, Exactly > 0, NEW t \in Texts, NEW u \in Texts
  PROVE  /\ Match(t, u) \in Scores
         /\ Match(t, u) = Exactly <=> u = t
         /\ StrictScore(t, u) = IF Defined(u) THEN [score |-> Match(t, u), failed |-> FALSE] ELSE [score |-> 0, failed |-> TRUE]
         /\ StrictScore(t, u) \in [score : Scores, failed : BOOLEAN]
  <1>1. Match(t, u) \in Scores /\ (Match(t, u) = Exactly <=> u = t)
    BY DEF Match, Scores
  <1> QED
    BY <1>1 DEF StrictScore, Scores

LEMMA TextsOfBatch ==
  ASSUME NEW b, Typed(b), NEW i \in Indices(b)
  PROVE  TextOf(b, i) \in Texts
  <1>1. CASE i = 0
    BY <1>1 DEF Typed, TextOf
  <1>2. CASE i # 0
    <2>1. b.variants \in Seq([labels : Labels, text : Texts]) /\ i \in DOMAIN b.variants
      BY <1>2 DEF Typed, Indices
    <2>2. b.variants[i] \in [labels : Labels, text : Texts]
      BY <2>1, ElementOfSeq, LenProperties
    <2> QED
      BY <1>2, <2>2 DEF TextOf
  <1> QED
    BY <1>1, <1>2

LEMMA RowKinds ==
  ASSUME Exactly \in Int, Exactly > 0
  PROVE  /\ NoRow \in Rows /\ FailedRow \in Rows /\ NotCompiled \in Objects
         /\ NoRow # FailedRow /\ FailedRow.failed /\ FailedRow.score = 0 /\ FailedRow.compiler = -1
         /\ \A s, f, k, c : RowOf([score |-> s, failed |-> f], TRUE, k, c) # NoRow
  BY DEF NoRow, FailedRow, NotCompiled, Rows, Objects, RowOf, Scores
\* No step but an edit of the inputs changes what the rows are of.
LEMMA TextsStay ==
  ASSUME NEW b, NEW c, c.original = b.original, c.variants = b.variants, c.traced = b.traced, c.digest = b.digest
  PROVE  /\ Indices(c) = Indices(b)
         /\ \A i : TextOf(c, i) = TextOf(b, i) /\ (Good(c, i) <=> Good(b, i))
  BY DEF Indices, TextOf, Good

LEMMA CompileSound ==
  ASSUME NEW b, Sound(b), NEW i \in DOMAIN b.rows, NEW c \in Compile(b, i)
  PROVE  Sound(c)
  <1>1. Typed(b) /\ i \in Indices(b) /\ DOMAIN b.rows = Indices(b) /\ DOMAIN b.objects = Indices(b)
    BY DEF Sound, Typed
  <1>2. b.phase = "running" /\ b.objects[i] = NotCompiled /\ ~Done(b, i)
    BY DEF Compile
  <1>3. c = IF Compiles(TextOf(b, i)) THEN [b EXCEPT !.objects[i] = [compiler |-> b.compiler, failed |-> FALSE]]
            ELSE [b EXCEPT !.rows[i] = FailedRow]
    BY DEF Compile
  <1>4. Exactly \in Int /\ Exactly > 0 /\ FailedRow \in Rows /\ [compiler |-> b.compiler, failed |-> FALSE] \in Objects
    BY RowKinds DEF Sound, Typed, Objects
  <1>5. CASE Compiles(TextOf(b, i))
    <2>1. c = [b EXCEPT !.objects[i] = [compiler |-> b.compiler, failed |-> FALSE]]
      BY <1>3, <1>5
    <2>2. /\ c.original = b.original /\ c.variants = b.variants /\ c.traced = b.traced /\ c.digest = b.digest
          /\ c.rows = b.rows /\ c.target = b.target /\ c.phase = "running"
          /\ c.objects = [b.objects EXCEPT ![i] = [compiler |-> b.compiler, failed |-> FALSE]]
      BY <2>1, <1>1, <1>2 DEF Typed
    <2>3. Typed(c)
      BY <2>1, <1>1, <1>4 DEF Typed, Indices
    <2>4. TargetIsWatched(c)
      BY <2>2, TextsStay DEF Sound, BatchInv, TargetIsWatched, RowIsRight, Done
    <2>5. RowsAreOfObjects(c)
      BY <2>2, <1>1, <1>2, <1>5, TextsStay DEF Sound, BatchInv, RowsAreOfObjects, Done, Typed
    <2> QED
      BY <2>2, <2>3, <2>4, <2>5 DEF Sound, BatchInv, ReportIsOfRows
  <1>6. CASE ~Compiles(TextOf(b, i))
    <2>1. c = [b EXCEPT !.rows[i] = FailedRow]
      BY <1>3, <1>6
    <2>2. /\ c.original = b.original /\ c.variants = b.variants /\ c.traced = b.traced /\ c.digest = b.digest
          /\ c.objects = b.objects /\ c.target = b.target /\ c.phase = "running"
          /\ c.rows = [b.rows EXCEPT ![i] = FailedRow]
      BY <2>1, <1>1, <1>2 DEF Typed
    <2>3. Typed(c)
      BY <2>1, <1>1, <1>4 DEF Typed, Indices
    <2>4. TargetIsWatched(c)
      BY <2>2, <1>1, <1>6, RowKinds, TextsStay DEF Sound, BatchInv, TargetIsWatched, RowIsRight, Done, Good
    <2>5. RowsAreOfObjects(c)
      BY <2>2, <1>1, <1>2, <1>6, TextsStay DEF Sound, BatchInv, RowsAreOfObjects, Done, Typed
    <2> QED
      BY <2>2, <2>3, <2>4, <2>5 DEF Sound, BatchInv, ReportIsOfRows
  <1> QED
    BY <1>5, <1>6
LEMMA ScoreSound ==
  ASSUME NEW b, Sound(b), NEW i \in DOMAIN b.rows, NEW c \in ScoreVariant(b, i)
  PROVE  Sound(c)
  <1> DEFINE scored == StrictScore(b.target, TextOf(b, i))
             key == IF b.traced THEN TracedState(b.objects[i].compiler, TextOf(b, i)) ELSE <<>>
             row == RowOf(scored, TRUE, key, b.objects[i].compiler)
  <1>1. Typed(b) /\ i \in Indices(b) /\ DOMAIN b.rows = Indices(b) /\ DOMAIN b.objects = Indices(b)
    BY DEF Sound, Typed
  <1>2. b.phase = "running" /\ b.objects[i] # NotCompiled /\ ~Done(b, i) /\ c = [b EXCEPT !.rows[i] = row]
    BY DEF ScoreVariant
  <1>3. Exactly \in Int /\ Exactly > 0 /\ TextOf(b, i) \in Texts /\ b.target \in Texts /\ b.objects[i] \in Objects
    BY <1>1, TextsOfBatch DEF Sound, Typed
  <1>4. scored \in [score : Scores, failed : BOOLEAN]
    BY <1>3, ScoreRange
  <1>5. row \in Rows /\ row # NoRow /\ row.score = scored.score /\ row.failed = scored.failed /\ row.compiler = b.objects[i].compiler
    <2>1. b.objects[i].compiler \in -1 .. 1
      BY <1>3 DEF Objects
    <2>2. key \in {<<>>} \cup {TracedState(k, t) : k \in -1 .. 1, t \in Texts}
      BY <1>3, <2>1
    <2> HIDE DEF scored, key
    <2> QED
      BY <1>4, <2>1, <2>2 DEF RowOf, NoRow, Rows
  <1>6. Compiles(TextOf(b, i)) /\ b.objects[i].compiler >= 0
    BY <1>1, <1>2 DEF Sound, BatchInv, RowsAreOfObjects
  <1>7. b.target = b.digest => IF Good(b, i) THEN ~row.failed /\ row.score = Match(b.digest, TextOf(b, i)) ELSE row.failed /\ row.score = 0
    <2>1. scored = IF Defined(TextOf(b, i)) THEN [score |-> Match(b.target, TextOf(b, i)), failed |-> FALSE] ELSE [score |-> 0, failed |-> TRUE]
      BY <1>3, ScoreRange
    <2> HIDE DEF scored, row
    <2> QED
      BY <1>5, <1>6, <2>1 DEF Good
  <1> HIDE DEF row
  <1>8. /\ c.original = b.original /\ c.variants = b.variants /\ c.traced = b.traced /\ c.digest = b.digest
        /\ c.objects = b.objects /\ c.target = b.target /\ c.phase = "running"
        /\ c.rows = [b.rows EXCEPT ![i] = row]
    BY <1>1, <1>2 DEF Typed
  <1>9. Typed(c)
    BY <1>1, <1>2, <1>5 DEF Typed, Indices
  <1>10. TargetIsWatched(c)
    BY <1>1, <1>7, <1>8, TextsStay DEF Sound, BatchInv, TargetIsWatched, RowIsRight, Done
  <1>11. RowsAreOfObjects(c)
    <2> SUFFICES ASSUME NEW j \in DOMAIN b.rows
                 PROVE  /\ b.objects[j] # NotCompiled => b.objects[j].compiler >= 0 /\ Compiles(TextOf(b, j))
                        /\ c.rows[j] # NoRow => IF Compiles(TextOf(b, j)) THEN c.rows[j].compiler >= 0 ELSE c.rows[j] = FailedRow
      BY <1>8, TextsStay DEF RowsAreOfObjects, Done
    <2>1. CASE j = i
      BY <1>5, <1>6, <1>8, <2>1
    <2>2. CASE j # i
      BY <1>8, <2>2 DEF Sound, BatchInv, RowsAreOfObjects, Done
    <2> QED
      BY <2>1, <2>2
  <1> QED
    BY <1>3, <1>8, <1>9, <1>10, <1>11 DEF Sound, BatchInv, ReportIsOfRows

LEMMA EditedSound ==
  ASSUME NEW b, Sound(b), NEW c \in Edited(b)
  PROVE  Sound(c)
  <1>1. Typed(b) /\ b.original \in Texts /\ b.digest \in Texts /\ b.phase = "running"
    BY DEF Sound, Typed, Edited
  <1>2. \/ c = [b EXCEPT !.source = Append(b.original, 0)]
        \/ c = [b EXCEPT !.target = Append(b.digest, 0)]
        \/ c = [b EXCEPT !.compiler = 1]
    BY DEF Edited
  <1>3. Append(b.original, 0) \in Texts /\ Append(b.digest, 0) \in Texts /\ Append(b.digest, 0) # b.digest
    BY <1>1 DEF Texts
  <1>4. /\ c.original = b.original /\ c.variants = b.variants /\ c.traced = b.traced /\ c.digest = b.digest
        /\ c.objects = b.objects /\ c.rows = b.rows /\ c.phase = "running"
        /\ c.target = b.target \/ c.target # c.digest
    BY <1>1, <1>2, <1>3 DEF Typed
  <1>5. Typed(c)
    <2>1. CASE c = [b EXCEPT !.source = Append(b.original, 0)]
      BY <1>1, <1>3, <2>1 DEF Typed, Indices
    <2>2. CASE c = [b EXCEPT !.target = Append(b.digest, 0)]
      BY <1>1, <1>3, <2>2 DEF Typed, Indices
    <2>3. CASE c = [b EXCEPT !.compiler = 1]
      BY <1>1, <2>3 DEF Typed, Indices
    <2> QED
      BY <1>2, <2>1, <2>2, <2>3
  <1> QED
    BY <1>4, <1>5, TextsStay DEF Sound, BatchInv, TargetIsWatched, RowIsRight, RowsAreOfObjects, Done, ReportIsOfRows

LEMMA FinishSound ==
  ASSUME NEW b, Sound(b), NEW c \in Finish(b)
  PROVE  Sound(c)
  <1>1. Typed(b) /\ b.phase = "running" /\ DOMAIN b.rows = Indices(b)
    BY DEF Sound, Typed, Finish
  <1>2. \/ c = [b EXCEPT !.phase = "refused"]
        \/ ~Refused(b) /\ c = Reported(b) /\ \A i \in DOMAIN b.rows : Done(b, i)
    BY DEF Finish
  <1>3. CASE c = [b EXCEPT !.phase = "refused"]
    <2>1. /\ c.original = b.original /\ c.variants = b.variants /\ c.traced = b.traced /\ c.digest = b.digest
          /\ c.objects = b.objects /\ c.rows = b.rows /\ c.target = b.target /\ c.phase = "refused"
      BY <1>1, <1>3 DEF Typed
    <2>2. Typed(c)
      BY <1>1, <1>3 DEF Typed, Indices
    <2> QED
      BY <2>1, <2>2, TextsStay DEF Sound, BatchInv, TargetIsWatched, RowIsRight, RowsAreOfObjects, Done, ReportIsOfRows
  <1>4. CASE ~Refused(b) /\ c = Reported(b) /\ \A i \in DOMAIN b.rows : Done(b, i)
    <2>1. /\ c.original = b.original /\ c.variants = b.variants /\ c.traced = b.traced /\ c.digest = b.digest
          /\ c.objects = b.objects /\ c.rows = b.rows /\ c.target = b.target /\ c.phase = "reported"
          /\ c.retained = (IF b.traced THEN TraceFrontier(b) \cup {0} ELSE {})
          /\ c.exit = (IF \E i \in DOMAIN b.variants : b.rows[i].score = Exactly THEN 0 ELSE 1)
      BY <1>1, <1>4 DEF Typed, Reported
    <2>2. Typed(c)
      <3> DEFINE report == [ranked |-> Ranked(b), written |-> KeptSources(b)]
                 retained == IF b.traced THEN TraceFrontier(b) \cup {0} ELSE {}
                 exit == IF \E i \in DOMAIN b.variants : b.rows[i].score = Exactly THEN 0 ELSE 1
      <3>1. c = [b EXCEPT !.phase = "reported", !.report = report, !.retained = retained, !.exit = exit] /\ exit \in -1 .. 1
        BY <1>4 DEF Reported
      <3> HIDE DEF report, retained, exit
      <3> QED
        BY <1>1, <3>1 DEF Typed, Indices
    <2>3. b.target = b.digest /\ (b.traced => Cardinality(Fingerprints(b)) = 1)
      BY <1>4 DEF Refused
    <2>4. Fingerprints(c) = Fingerprints(b) /\ TraceFrontier(c) = TraceFrontier(b)
      BY <2>1 DEF Fingerprints, TraceFrontier, Ranks
    <2>5. TargetIsWatched(c) /\ RowsAreOfObjects(c)
      BY <2>1, <2>3, TextsStay DEF Sound, BatchInv, TargetIsWatched, RowIsRight, RowsAreOfObjects, Done
    <2>6. ReportIsOfRows(c)
      BY <1>4, <2>1, <2>3, <2>4 DEF ReportIsOfRows, Done
    <2> QED
      BY <2>2, <2>5, <2>6 DEF Sound, BatchInv
  <1> QED
    BY <1>2, <1>3, <1>4
LEMMA BeginsSound == Init => Sound(batch)
  <1> SUFFICES ASSUME Init PROVE Sound(batch)
    OBVIOUS
  <1>1. PICK original \in Texts, target \in Texts, variants \in Seq([labels : Labels, text : Texts]), traced \in BOOLEAN :
          batch = Batch(original, variants, target, traced)
    BY DEF Init
  <1> DEFINE indices == (IF traced THEN {0} ELSE {}) \cup DOMAIN variants
  <1>2. batch = [original |-> original, variants |-> variants, digest |-> target, traced |-> traced, source |-> original, target |-> target, compiler |-> 0,
                 objects |-> [i \in indices |-> NotCompiled], rows |-> [i \in indices |-> NoRow], phase |-> "running", report |-> <<>>, retained |-> {}, exit |-> -1]
    BY <1>1 DEF Batch
  <1>3. Exactly \in Int /\ Exactly > 0 /\ NoRow \in Rows /\ NotCompiled \in Objects
    BY RowKinds DEF Init
  <1>4. Indices(batch) = indices
    BY <1>2 DEF Indices
  <1>5. Typed(batch)
    <2>1. batch.objects \in [indices -> Objects] /\ batch.rows \in [indices -> Rows]
      BY <1>2, <1>3
    <2> DEFINE objects == [i \in indices |-> NotCompiled]
               rows == [i \in indices |-> NoRow]
    <2>2. /\ objects \in [Indices(batch) -> Objects] /\ rows \in [Indices(batch) -> Rows]
          /\ batch = [original |-> original, variants |-> variants, digest |-> target, traced |-> traced, source |-> original, target |-> target, compiler |-> 0,
                      objects |-> objects, rows |-> rows, phase |-> "running", report |-> <<>>, retained |-> {}, exit |-> -1]
      BY <1>2, <1>4, <2>1
    <2> HIDE DEF indices, objects, rows
    <2>3. batch.report = <<>> /\ batch.retained = {}
      BY <2>2
    <2>4. -1 \in -1 .. 1 /\ 0 \in 0 .. 1
      OBVIOUS
    <2>5. variants \in Seq([labels : Labels, text : Texts]) /\ original \in Texts /\ target \in Texts
      BY <1>1
    <2> QED
      BY <2>2, <2>3, <2>4, <2>5 DEF Typed
  <1>6. \A i \in indices : batch.objects[i] = NotCompiled /\ ~Done(batch, i)
    BY <1>2 DEF Done
  <1>7. batch.target = batch.digest /\ batch.phase = "running" /\ DOMAIN batch.rows = indices
    BY <1>2
  <1> QED
    BY <1>3, <1>5, <1>6, <1>7 DEF Sound, BatchInv, TargetIsWatched, RowsAreOfObjects, ReportIsOfRows

-----------------------------------------------------------------------------
(* What a report says.                                                     *)

\* A set of numbers that are not negative has a least one.
LEMMA Least ==
  ASSUME NEW S \in SUBSET Nat, S # {}
  PROVE  \E m \in S : \A n \in S : m <= n
  <1>1. PICK m \in S : \A n \in S : ~(<<n, m>> \in OpToRel(<, Nat))
    BY NatLessThanWellFounded, WFMin
  <1>2. \A n \in S : ~(n < m)
    BY <1>1 DEF OpToRel
  <1> QED
    BY <1>2

\* The first of the rows with the best score of a state is retained.
LEMMA BestIsRetained ==
  ASSUME NEW b, Sound(b), NEW i \in DOMAIN b.rows, ~b.rows[i].failed
  PROVE  \E j \in TraceFrontier(b) : b.rows[j].key = b.rows[i].key /\ b.rows[j].score >= b.rows[i].score
  <1> DEFINE good == {j \in DOMAIN b.rows : ~b.rows[j].failed}
             same == {j \in good : b.rows[j].key = b.rows[i].key}
             above == {k \in Nat : \E j \in same : k = Exactly + 1 - b.rows[j].score}
  <1>1. Exactly \in Int /\ Exactly > 0 /\ DOMAIN b.rows \subseteq Nat
    BY DEF Sound, Typed, Indices
  <1>2. \A j \in DOMAIN b.rows : b.rows[j].score \in Int /\ b.rows[j].score <= Exactly
    <2>1. \A s \in Scores : s \in Int /\ s <= Exactly
      BY <1>1 DEF Scores
    <2>2. \A j \in DOMAIN b.rows : b.rows[j] \in Rows
      BY DEF Sound, Typed
    <2> QED
      BY <2>1, <2>2 DEF Rows
  <1>3. i \in same
    OBVIOUS
  <1>4. PICK m \in above : \A k \in above : m <= k
    <2>1. Exactly + 1 - b.rows[i].score \in above
      BY <1>1, <1>2, <1>3
    <2> HIDE DEF above
    <2>2. above \in SUBSET Nat
      BY DEF above
    <2> QED
      BY <2>1, <2>2, Least
  <1>5. PICK best \in same : m = Exactly + 1 - b.rows[best].score
    BY <1>4
  <1>6. \A j \in same : b.rows[j].score <= b.rows[best].score
    BY <1>1, <1>2, <1>4, <1>5
  <1> DEFINE first == {j \in same : b.rows[j].score = b.rows[best].score}
  <1>7. PICK j \in first : \A k \in first : j <= k
    <2>1. first \in SUBSET Nat /\ first # {}
      BY <1>1, <1>5
    <2> HIDE DEF first
    <2> QED
      BY <2>1, Least
  <1>8. \A k \in good \ {j} : Ranks(b, k, j) => b.rows[k].key # b.rows[j].key
    <2> SUFFICES ASSUME NEW k \in same, k # j, Ranks(b, k, j) PROVE FALSE
      BY <1>7
    <2>1. b.rows[k].score <= b.rows[j].score /\ k \in Nat /\ j \in Nat
      BY <1>1, <1>6, <1>7
    <2>2. b.rows[k].score = b.rows[j].score /\ k < j
      BY <1>2, <1>7, <2>1 DEF Ranks
    <2> QED
      BY <1>7, <2>1, <2>2
  <1>9. j \in TraceFrontier(b)
    BY <1>7, <1>8 DEF TraceFrontier
  <1> QED
    BY <1>2, <1>3, <1>6, <1>7, <1>9

LEMMA InvariantReports ==
  ASSUME NEW b, Sound(b)
  PROVE  ReportIsRight(b)
  <1> SUFFICES ASSUME b.phase = "reported" PROVE ReportIsRight(b)
    BY DEF ReportIsRight
  <1>1. /\ b.target = b.digest /\ Typed(b) /\ Exactly \in Int /\ Exactly > 0 /\ DOMAIN b.rows = Indices(b)
        /\ \A i \in DOMAIN b.rows : RowIsRight(b, i)
    BY DEF Sound, BatchInv, TargetIsWatched, ReportIsOfRows, Typed
  <1>2. b.digest \in Texts /\ DOMAIN b.variants \subseteq DOMAIN b.rows /\ \A i \in DOMAIN b.rows : TextOf(b, i) \in Texts
    BY <1>1, TextsOfBatch DEF Typed, Indices
  <1>3. \A i \in DOMAIN b.rows : b.rows[i].score = Exactly <=> Good(b, i) /\ TextOf(b, i) = b.digest
    BY <1>1, <1>2, ScoreRange DEF RowIsRight
  <1>4. b.exit = 0 <=> \E i \in DOMAIN b.variants : Good(b, i) /\ TextOf(b, i) = b.digest
    BY <1>2, <1>3 DEF Sound, BatchInv, ReportIsOfRows
  <1>5. ASSUME b.traced
        PROVE  (\A i, j \in Goods(b) : b.rows[i].compiler = b.rows[j].compiler) /\ FrontierIsBest(b)
    <2>1. Cardinality(Fingerprints(b)) = 1 /\ b.retained = TraceFrontier(b) \cup {0}
      BY <1>5 DEF Sound, BatchInv, ReportIsOfRows
    <2>2. \A i \in Goods(b) : i \in DOMAIN b.rows /\ ~b.rows[i].failed /\ b.rows[i].compiler \in Fingerprints(b)
      <3>1. \A i \in DOMAIN b.rows : b.rows[i] \in Rows
        BY <1>1 DEF Typed
      <3>2. \A i \in Goods(b) : b.rows[i].compiler >= 0
        BY DEF Sound, BatchInv, ReportIsOfRows, RowsAreOfObjects, Goods, Good
      <3> QED
        BY <1>1, <3>1, <3>2 DEF Rows, Fingerprints, Goods, RowIsRight
    <2>3. \E x : Fingerprints(b) = {x}
      <3>1. Fingerprints(b) \subseteq 0 .. 1
        BY <1>1 DEF Typed, Rows, Fingerprints
      <3>2. IsFiniteSet(Fingerprints(b))
        <4>1. \A n \in Int : IsFiniteSet(0 .. n)
          BY FS_Interval
        <4> QED
          BY <3>1, <4>1, FS_Subset
      <3> QED
        BY <2>1, <3>2, FS_Singleton
    <2>4. \A i, j \in Goods(b) : b.rows[i].compiler = b.rows[j].compiler
      BY <2>2, <2>3
    <2>5. ASSUME NEW i \in Goods(b)
          PROVE  /\ \E j \in b.retained : b.rows[j].key = b.rows[i].key /\ b.rows[j].score >= b.rows[i].score
                 /\ TextOf(b, i) = b.digest => i \in b.retained
      <3>1. i \in DOMAIN b.rows /\ ~b.rows[i].failed /\ Good(b, i)
        BY <2>2 DEF Goods
      <3>2. \E j \in b.retained : b.rows[j].key = b.rows[i].key /\ b.rows[j].score >= b.rows[i].score
        BY <2>1, <3>1, BestIsRetained
      <3>3. TextOf(b, i) = b.digest => i \in TraceFrontier(b)
        BY <1>3, <3>1 DEF TraceFrontier
      <3> QED
        BY <2>1, <3>2, <3>3
    <2> QED
      BY <2>4, <2>5 DEF FrontierIsBest
  <1> QED
    BY <1>1, <1>4, <1>5 DEF ReportIsRight

-----------------------------------------------------------------------------
(* The theorems.                                                           *)

LEMMA StepSound ==
  ASSUME NEW b, Sound(b), NEW c \in BatchSteps(b)
  PROVE  Sound(c)
  <1>1. CASE c \in Edited(b) \cup Finish(b)
    BY <1>1, EditedSound, FinishSound
  <1>2. CASE c \in UNION {Compile(b, i) \cup ScoreVariant(b, i) : i \in DOMAIN b.rows}
    <2>1. PICK i \in DOMAIN b.rows : c \in Compile(b, i) \cup ScoreVariant(b, i)
      BY <1>2
    <2> QED
      BY <2>1, CompileSound, ScoreSound
  <1> QED
    BY <1>1, <1>2 DEF BatchSteps

LEMMA SoundAlways == Spec => []Sound(batch)
  <1>1. Sound(batch) /\ [Next]_batch => Sound(batch)'
    BY StepSound DEF Next, Sound
  <1> QED
    BY <1>1, BeginsSound, PTL DEF Spec

\* What workers, edits of the inputs and the end of a batch keep: the inductive invariant
\* (hypotheses.py's run and _run_variant), for any variants and order of their workers.
THEOREM BatchInvariant == Spec => []BatchInv(batch)
  <1>1. Sound(batch) => BatchInv(batch)
    BY DEF Sound
  <1> QED
    BY <1>1, SoundAlways, PTL

\* A report's scores are those of the target the batch began with, a traced one is of one compiler, and
\* no state and no match is lost among the traces it keeps (hypotheses.py's run and trace_frontier).
THEOREM ReportsAreRight == Spec => []ReportIsRight(batch)
  <1>1. Sound(batch) => ReportIsRight(batch)
    BY InvariantReports
  <1> QED
    BY <1>1, SoundAlways, PTL
-----------------------------------------------------------------------------
(* Arithmetic of fields: quotients, halves and what a modulus keeps.       *)

\* Induction up to a bound, for a set of numbers.
LEMMA UpTo ==
  ASSUME NEW N \in Nat, NEW S, 0 \in S, \A n \in 0 .. N - 1 : n \in S => n + 1 \in S
  PROVE  \A n \in 0 .. N : n \in S
  <1> DEFINE Missing == {n \in 0 .. N : n \notin S}
  <1>1. SUFFICES ASSUME Missing # {} PROVE FALSE
    OBVIOUS
  <1>2. PICK m \in Missing : \A n \in Missing : m <= n
    <2>1. Missing \in SUBSET Nat
      OBVIOUS
    <2> HIDE DEF Missing
    <2> QED
      BY <1>1, <2>1, Least
  <1>3. m - 1 \in 0 .. N - 1 /\ m - 1 \notin Missing
    BY <1>2
  <1> QED
    BY <1>2, <1>3

LEMMA Quotient ==
  ASSUME NEW n \in Nat, n > 0, NEW a \in Int
  PROVE  a \div n \in Int /\ a % n \in 0 .. n - 1 /\ a = (a \div n) * n + (a % n)
  OBVIOUS
LEMMA QuotientIs ==
  ASSUME NEW n \in Nat, n > 0, NEW q \in Int, NEW r \in 0 .. n - 1, NEW a, a = q * n + r
  PROVE  a \div n = q /\ a % n = r
  OBVIOUS

LEMMA Multiples ==
  ASSUME NEW n \in Nat, n > 0, NEW q \in Int, NEW a \in Int
  PROVE  (q * n + a) % n = a % n
  <1>1. PICK k \in Int : a = k * n + (a % n)
    BY Quotient
  <1> DEFINE r == a % n
  <1>2. r \in 0 .. n - 1
    BY Quotient
  <1> HIDE DEF r
  <1>3. a = k * n + r
    BY <1>1 DEF r
  <1>4. q * n + a = (q + k) * n + r
    BY <1>2, <1>3
  <1>5. q + k \in Int
    OBVIOUS
  <1>6. (q * n + a) % n = r
    BY <1>2, <1>4, <1>5, QuotientIs
  <1> QED
    BY <1>6 DEF r
\* A difference that is kept modulo n and added again gives what it was taken from.
LEMMA Wraps ==
  ASSUME NEW n \in Nat, n > 0, NEW a \in Int, NEW b \in Int
  PROVE  (a + (b % n)) % n = (a + b) % n
  <1>1. PICK q \in Int : b = q * n + (b % n)
    BY Quotient
  <1> DEFINE r == b % n
  <1>2. r \in Int /\ b = q * n + r
    BY <1>1, Quotient
  <1> HIDE DEF r
  <1>3. a + b = q * n + (a + r) /\ a + r \in Int
    BY <1>2
  <1>4. (q * n + (a + r)) % n = (a + r) % n
    BY <1>3, Multiples
  <1> QED
    BY <1>3, <1>4 DEF r

LEMMA SpaceIs ==
  ASSUME DelinkAssumption
  PROVE  Radix \in Nat /\ Radix > 1 /\ Window \in Nat /\ Window > 0 /\ Space \in Nat /\ Space > 0
  BY DEF DelinkAssumption, Space
\* The high half of a number carries the sign of its low half and forgets what is beyond the space.
LEMMA HighIs ==
  ASSUME DelinkAssumption, NEW q \in Int, NEW v \in 0 .. Radix - 1
  PROVE  High(q * Radix + Low(v)) = q % Radix
  <1>1. Radix \in Nat /\ Radix > 0
    BY SpaceIs
  <1> DEFINE r == Low(v) + (Radix \div 2)
             a == q * Radix + Low(v) + (Radix \div 2)
  <1>2. r \in 0 .. Radix - 1 /\ Low(v) \in Int /\ Radix \div 2 \in Int
    BY <1>1 DEF Low
  <1>3. a = q * Radix + r
    BY <1>1, <1>2
  <1> HIDE DEF r, a
  <1>4. a \div Radix = q
    BY <1>1, <1>2, <1>3, QuotientIs
  <1> QED
    BY <1>4 DEF High, a
\* Every number is its high half and its signed low half.
LEMMA Halves ==
  ASSUME DelinkAssumption, NEW a \in Int
  PROVE  /\ a % Radix \in 0 .. Radix - 1 /\ Low(a % Radix) \in Int
         /\ \E q \in Int : a = q * Radix + Low(a % Radix)
  <1>1. Radix \in Nat /\ Radix > 0
    BY SpaceIs
  <1> DEFINE v == a % Radix
  <1>2. v \in 0 .. Radix - 1
    BY <1>1, Quotient
  <1>3. PICK q \in Int : a = q * Radix + v
    BY <1>1, Quotient
  <1> HIDE DEF v
  <1>4. v - Radix \in Int /\ v \in Int /\ q + 1 \in Int /\ a = (q + 1) * Radix + (v - Radix)
    BY <1>1, <1>2, <1>3
  <1>5. Low(v) = v \/ Low(v) = v - Radix
    BY DEF Low
  <1>6. Low(v) \in Int /\ \E k \in Int : a = k * Radix + Low(v)
    BY <1>3, <1>4, <1>5
  <1> QED
    BY <1>2, <1>6 DEF v
LEMMA HighWraps ==
  ASSUME DelinkAssumption, NEW a \in Int, NEW k \in Int
  PROVE  High(k * Space + a) = High(a)
  <1>1. Radix \in Nat /\ Radix > 0
    BY SpaceIs
  <1> DEFINE v == a % Radix
  <1>2. v \in 0 .. Radix - 1 /\ Low(v) \in Int /\ \E q \in Int : a = q * Radix + Low(v)
    BY Halves
  <1> HIDE DEF v
  <1>3. PICK q \in Int : a = q * Radix + Low(v)
    BY <1>2
  <1>4. k * Space + a = (k * Radix + q) * Radix + Low(v) /\ k * Radix + q \in Int
    BY <1>1, <1>2, <1>3 DEF Space
  <1>5. High((k * Radix + q) * Radix + Low(v)) = (k * Radix + q) % Radix
    BY <1>2, <1>4, HighIs
  <1>6. High(q * Radix + Low(v)) = q % Radix
    BY <1>2, HighIs
  <1>7. (k * Radix + q) % Radix = q % Radix
    BY <1>1, Multiples
  <1> QED
    BY <1>3, <1>4, <1>5, <1>6, <1>7
LEMMA HighRange ==
  ASSUME DelinkAssumption, NEW a \in Int
  PROVE  High(a) \in Int /\ High(a) \in 0 .. Radix - 1
  <1>1. Radix \in Nat /\ Radix > 0
    BY SpaceIs
  <1>2. (a + (Radix \div 2)) \div Radix \in Int
    <2>1. a + (Radix \div 2) \in Int
      BY <1>1
    <2> QED
      BY <1>1, <2>1, Quotient
  <1> QED
    BY <1>1, <1>2, Quotient DEF High
\* The two fields of an addend are decoded to it, as far as the space goes.
LEMMA FieldsDecode ==
  ASSUME DelinkAssumption, NEW a \in Int
  PROVE  \E k \in Int : a = k * Space + (High(a) * Radix + Low(a % Radix))
  <1>1. Radix \in Nat /\ Radix > 0
    BY SpaceIs
  <1> DEFINE v == a % Radix
             low == Low(v)
  <1>2. v \in 0 .. Radix - 1 /\ low \in Int /\ \E q \in Int : a = q * Radix + low
    BY Halves
  <1>3. PICK q \in Int : a = q * Radix + low
    BY <1>2
  <1>4. High(a) = q % Radix
    BY <1>2, <1>3, HighIs
  <1>5. PICK k \in Int : q = k * Radix + (q % Radix)
    BY <1>1, Quotient
  <1> DEFINE h == High(a)
  <1>6. h \in Int /\ q = k * Radix + h
    BY <1>1, <1>4, <1>5, Quotient
  <1> HIDE DEF low, h
  <1>7. a = k * (Radix * Radix) + (h * Radix + low)
    BY <1>1, <1>2, <1>3, <1>6
  <1> QED
    BY <1>7 DEF Space, low, h
\* What the linker makes of the fields of an addend is the high half of the symbol's address and the addend.
LEMMA PairLinks ==
  ASSUME DelinkAssumption, NEW S \in Int, NEW a \in Int
  PROVE  High(S + ((High(a) * Radix + Low(a % Radix)) % Space)) = High(S + a)
  <1>1. Space \in Nat /\ Space > 0 /\ Radix \in Nat /\ Radix > 0
    BY SpaceIs
  <1> DEFINE x == High(a) * Radix + Low(a % Radix)
  <1>2. High(a) \in Int /\ Low(a % Radix) \in Int
    BY HighRange, Halves
  <1>3. x \in Int
    BY <1>1, <1>2
  <1>4. PICK k \in Int : a = k * Space + x
    BY FieldsDecode
  <1> HIDE DEF x
  <1>5. PICK m \in Int : x = m * Space + (x % Space) /\ x % Space \in Int
    BY <1>1, <1>3, Quotient
  <1> DEFINE y == x % Space
  <1>6. y \in Int /\ x = m * Space + y
    BY <1>5
  <1> HIDE DEF y
  <1>7. S + a = (k + m) * Space + (S + y) /\ k + m \in Int /\ S + y \in Int
    BY <1>1, <1>4, <1>6
  <1>8. High((k + m) * Space + (S + y)) = High(S + y)
    BY <1>7, HighWraps
  <1> QED
    BY <1>7, <1>8 DEF x, y
LEMMA LowIs ==
  ASSUME DelinkAssumption, NEW h \in 0 .. Radix - 1, NEW l \in 0 .. Radix - 1, NEW a \in Int, NEW k \in Int,
         h * Radix + Low(l) = k * Space + a
  PROVE  a % Radix = l
  <1>1. Radix \in Nat /\ Radix > 0
    BY SpaceIs
  <1>2. h \in Int /\ l \in Int
    BY <1>1
  <1> DEFINE low == Low(l)
             m == h - (k * Radix)
  <1>3. low = l \/ low = l - Radix
    BY <1>1 DEF Low
  <1>4. h * Radix + low = k * (Radix * Radix) + a
    BY DEF Space
  <1> HIDE DEF low
  <1>5. m \in Int /\ a = m * Radix + low
    BY <1>1, <1>2, <1>3, <1>4
  <1> HIDE DEF m
  <1>6. CASE low = l
    BY <1>1, <1>5, <1>6, QuotientIs
  <1>7. CASE low = l - Radix
    <2>1. a = (m - 1) * Radix + l /\ m - 1 \in Int
      BY <1>1, <1>2, <1>5, <1>7
    <2> QED
      BY <1>1, <2>1, QuotientIs
  <1> QED
    BY <1>3, <1>6, <1>7
\* The fields of a pair are those of the address it decodes to.
LEMMA PairIs ==
  ASSUME DelinkAssumption, NEW h \in 0 .. Radix - 1, NEW l \in 0 .. Radix - 1
  PROVE  LET target == (h * Radix + Low(l)) % Space
         IN High(target) = h /\ target % Radix = l /\ target \in Int
  <1>1. Space \in Nat /\ Space > 0 /\ Radix \in Nat /\ Radix > 0
    BY SpaceIs
  <1>2. h \in Int /\ l \in Int /\ Low(l) \in Int /\ h % Radix = h
    BY <1>1 DEF Low
  <1> DEFINE x == h * Radix + Low(l)
             target == x % Space
  <1>3. x \in Int /\ High(x) = h
    BY <1>1, <1>2, HighIs
  <1>4. x = h * Radix + Low(l)
    OBVIOUS
  <1> HIDE DEF x
  <1>5. PICK k \in Int : x = k * Space + target /\ target \in Int
    <2>1. x \div Space \in Int /\ x % Space \in 0 .. Space - 1 /\ x = (x \div Space) * Space + (x % Space)
      BY <1>1, <1>3, Quotient
    <2>2. target \in Int
      BY <1>1, <2>1
    <2> QED
      BY <2>1, <2>2
  <1> HIDE DEF target
  <1>6. High(target) = h
    BY <1>3, <1>5, HighWraps
  <1>7. target % Radix = l
    BY <1>4, <1>5, LowIs
  <1> QED
    BY <1>5, <1>6, <1>7 DEF target, x
-----------------------------------------------------------------------------
(* Carving an owner row by row.                                            *)

\* One owner that is carved: c holds the arguments of Carve.
Blob(c) == Words(c.retail, c.owner.va, c.owner.size)
AfterRows(c, n) == CarveUpTo(c.retail, c.owner, c.rows, c.catalog, c.policy, c.rodata)[n]
Resolved(c, i) == ResolveSymbol(c.catalog, c.owner, c.rows[i], c.rodata)
Offset(c, i) == c.rows[i].site - c.owner.va
PairedOffset(c, i) == c.rows[i].paired - c.owner.va
Carvable(c) ==
  /\ DelinkAssumption
  /\ c.owner.va \in Int /\ c.owner.size \in Nat /\ c.owner.code \in BOOLEAN /\ c.policy \in {"safe", "reviewed", "all"}
  /\ Len(c.rows) \in Nat /\ DOMAIN c.rows = 1 .. Len(c.rows)
  /\ \A i \in DOMAIN c.rows :
       c.rows[i].site \in Int /\ c.rows[i].paired \in Int /\ c.rows[i].target \in Int /\ c.rows[i].name.at \in Int
  /\ \A o \in c.catalog.functions \cup c.catalog.data : o.va \in Int
  /\ c.rodata = <<>> \/ c.rodata[1] \in Int
  /\ \A a \in c.owner.va .. c.owner.va + c.owner.size - 1 : IsWord(c.retail[a])
  /\ \A i \in DOMAIN c.rows : IsRow(c.rows[i], c.catalog, c.policy)
  /\ c.owner.code \/ RowsApart(c.rows)
Fits(c, i) ==
  /\ i \in DOMAIN c.rows /\ Valid(Blob(c), c.owner, c.rows[i], c.catalog, c.policy)
  /\ c.owner.code => ~Ambiguous(c.rows, i, c.policy)

\* A row that may be used of its own site.
Contends(c, i) ==
  i \in DOMAIN c.rows /\ Competes(c.rows[i], c.policy) /\ (c.owner.code => ~Ambiguous(c.rows, i, c.policy))
Offsets(c, i) == {Offset(c, i)} \cup (IF c.rows[i].kind = "hi_lo" THEN {PairedOffset(c, i)} ELSE {})

LEMMA BlobIs ==
  ASSUME NEW c, Carvable(c)
  PROVE  /\ DOMAIN Blob(c) = 0 .. c.owner.size - 1
         /\ \A o \in 0 .. c.owner.size - 1 : Blob(c)[o] = c.retail[c.owner.va + o] /\ IsWord(Blob(c)[o])
  <1>1. DOMAIN Blob(c) = 0 .. c.owner.size - 1
    BY DEF Blob, Words
  <1>2. ASSUME NEW o \in 0 .. c.owner.size - 1
        PROVE  Blob(c)[o] = c.retail[c.owner.va + o] /\ IsWord(Blob(c)[o])
    <2>1. Blob(c)[o] = c.retail[c.owner.va + o]
      BY DEF Blob, Words
    <2>2. c.owner.va + o \in c.owner.va .. c.owner.va + c.owner.size - 1
      BY DEF Carvable
    <2> QED
      BY <2>1, <2>2 DEF Carvable
  <1> QED
    BY <1>1, <1>2

LEMMA ValidIs ==
  ASSUME NEW c, Carvable(c), NEW i \in DOMAIN c.rows, NEW blob, DOMAIN blob = 0 .. c.owner.size - 1,
         Valid(blob, c.owner, c.rows[i], c.catalog, c.policy)
  PROVE  /\ Offset(c, i) \in 0 .. c.owner.size - 1 /\ c.rows[i].site = c.owner.va + Offset(c, i)
         /\ c.rows[i].kind \in {"mips26", "hi_lo", "word"}
         /\ Competes(c.rows[i], c.policy)
         /\ c.rows[i].kind = "mips26" =>
              /\ blob[Offset(c, i)].op \in Jumps
              /\ DecodeMips26(c.rows[i].site, blob[Offset(c, i)]) = c.rows[i].target
         /\ c.rows[i].kind = "hi_lo" =>
              /\ PairedOffset(c, i) \in 0 .. c.owner.size - 1 /\ c.rows[i].paired = c.owner.va + PairedOffset(c, i)
              /\ Offset(c, i) < PairedOffset(c, i)
              /\ blob[Offset(c, i)].op = "lui" /\ blob[PairedOffset(c, i)].op \in SignedLows
              /\ DecodeHiLo(blob[Offset(c, i)], blob[PairedOffset(c, i)]) = c.rows[i].target
         /\ c.rows[i].kind = "word" =>
              /\ blob[Offset(c, i)].op = "data" /\ blob[Offset(c, i)].field = c.rows[i].target
  <1> DEFINE row == c.rows[i]
             o == row.site - c.owner.va
  <1>1. i \in DOMAIN c.rows /\ Valid(blob, c.owner, row, c.catalog, c.policy)
    OBVIOUS
  <1>2. /\ c.owner.va \in Int /\ c.owner.size \in Nat /\ row.site \in Int /\ row.paired \in Int
        /\ IsRow(row, c.catalog, c.policy) /\ c.policy \in {"safe", "reviewed", "all"}
    BY <1>1 DEF Carvable
  <1>3. o \in 0 .. c.owner.size - 1 /\ Admitted(row, c.policy)
    BY <1>1 DEF Valid
  <1>4. row.site = c.owner.va + o
    BY <1>2
  <1>5. CASE row.kind = "mips26"
    <2>1. /\ blob[o].op = row.opcode /\ DecodeMips26(row.site, blob[o]) = row.target
          /\ row.opcode \in Jumps /\ (c.policy = "safe" => row.region = "load")
      BY <1>1, <1>2, <1>5 DEF Valid, IsRow
    <2>2. Competes(row, c.policy)
      BY <1>2, <1>3, <2>1 DEF Competes, Reviewed, Admitted
    <2> QED
      BY <1>3, <1>4, <1>5, <2>1, <2>2 DEF Offset
  <1>6. CASE row.kind = "hi_lo"
    <2> DEFINE p == row.paired - c.owner.va
    <2>1. /\ row.region = "load" \/ Reviewed(row, c.policy)
          /\ Holds(c.owner, row.paired) /\ blob[o].op = "lui" /\ blob[p].op \in SignedLows
          /\ DecodeHiLo(blob[o], blob[p]) = row.target /\ row.site < row.paired
      BY <1>1, <1>2, <1>6 DEF Valid, IsRow
    <2>2. p \in 0 .. c.owner.size - 1 /\ row.paired = c.owner.va + p /\ o < p
      BY <1>2, <2>1 DEF Holds, Covers
    <2>3. Competes(row, c.policy)
      BY <1>2, <1>3, <2>1 DEF Competes, Reviewed, Admitted
    <2> QED
      BY <1>3, <1>4, <1>6, <2>1, <2>2, <2>3 DEF Offset, PairedOffset
  <1>7. CASE row.kind = "word"
    <2>1. Reviewed(row, c.policy) /\ blob[o].op = "data" /\ blob[o].field = row.target
      BY <1>1, <1>7 DEF Valid
    <2>2. Competes(row, c.policy)
      BY <1>3, <2>1 DEF Competes, Admitted
    <2> QED
      BY <1>3, <1>4, <1>7, <2>1, <2>2 DEF Offset
  <1>8. row.kind \in {"mips26", "hi_lo", "word"}
    BY <1>1 DEF Valid
  <1> QED
    BY <1>5, <1>6, <1>7, <1>8

LEMMA FitsIs ==
  ASSUME NEW c, Carvable(c), NEW i, Fits(c, i)
  PROVE  /\ Offset(c, i) \in 0 .. c.owner.size - 1 /\ c.rows[i].site = c.owner.va + Offset(c, i)
         /\ c.rows[i].kind \in {"mips26", "hi_lo", "word"}
         /\ Contends(c, i)
         /\ c.rows[i].kind = "mips26" =>
              /\ Blob(c)[Offset(c, i)].op \in Jumps
              /\ DecodeMips26(c.rows[i].site, Blob(c)[Offset(c, i)]) = c.rows[i].target
         /\ c.rows[i].kind = "hi_lo" =>
              /\ PairedOffset(c, i) \in 0 .. c.owner.size - 1 /\ c.rows[i].paired = c.owner.va + PairedOffset(c, i)
              /\ Offset(c, i) < PairedOffset(c, i)
              /\ Blob(c)[Offset(c, i)].op = "lui" /\ Blob(c)[PairedOffset(c, i)].op \in SignedLows
              /\ DecodeHiLo(Blob(c)[Offset(c, i)], Blob(c)[PairedOffset(c, i)]) = c.rows[i].target
         /\ c.rows[i].kind = "word" =>
              /\ Blob(c)[Offset(c, i)].op = "data" /\ Blob(c)[Offset(c, i)].field = c.rows[i].target
  <1>1. i \in DOMAIN c.rows /\ DOMAIN Blob(c) = 0 .. c.owner.size - 1 /\ Valid(Blob(c), c.owner, c.rows[i], c.catalog, c.policy)
    BY BlobIs DEF Fits
  <1>2. Competes(c.rows[i], c.policy)
    BY <1>1, ValidIs
  <1>3. Contends(c, i)
    BY <1>1, <1>2 DEF Fits, Contends
  <1> QED
    BY <1>1, <1>3, ValidIs
\* Whether a row is valid depends on the words at its sites.
LEMMA ValidLikewise ==
  ASSUME NEW c, Carvable(c), NEW i \in DOMAIN c.rows, NEW blob, DOMAIN blob = 0 .. c.owner.size - 1,
         Valid(blob, c.owner, c.rows[i], c.catalog, c.policy),
         \A o \in Offsets(c, i) : blob[o] = Blob(c)[o]
  PROVE  Valid(Blob(c), c.owner, c.rows[i], c.catalog, c.policy)
  <1>1. DOMAIN Blob(c) = DOMAIN blob
    BY BlobIs
  <1>2. blob[c.rows[i].site - c.owner.va] = Blob(c)[c.rows[i].site - c.owner.va]
    BY DEF Offsets, Offset
  <1>3. c.rows[i].kind = "hi_lo" => blob[c.rows[i].paired - c.owner.va] = Blob(c)[c.rows[i].paired - c.owner.va]
    BY DEF Offsets, PairedOffset
  <1> QED
    BY <1>1, <1>2, <1>3 DEF Valid

LEMMA TwoOf ==
  ASSUME NEW S, IsFiniteSet(S), NEW x \in S, NEW y \in S, x # y
  PROVE  Cardinality(S) > 1
  <1>1. IsFiniteSet({x}) /\ Cardinality({x}) = 1
    BY FS_Singleton
  <1>2. Cardinality({x} \cup {y}) = 2
    BY <1>1, FS_AddElement
  <1>3. {x} \cup {y} \subseteq S
    OBVIOUS
  <1>4. Cardinality({x} \cup {y}) <= Cardinality(S) /\ Cardinality(S) \in Nat
    BY <1>3, FS_Subset, FS_CardinalityType
  <1> QED
    BY <1>2, <1>4
\* Two rows that may be used share no site.
LEMMA ContendersApart ==
  ASSUME NEW c, Carvable(c), NEW i, Contends(c, i), NEW j, Contends(c, j), i # j
  PROVE  Sites(c.rows[i]) \cap Sites(c.rows[j]) = {}
  <1>1. i \in DOMAIN c.rows /\ j \in DOMAIN c.rows
    BY DEF Contends
  <1>2. CASE ~c.owner.code
    BY <1>1, <1>2 DEF Carvable, RowsApart
  <1>3. CASE c.owner.code
    <2> SUFFICES ASSUME NEW s \in Sites(c.rows[i]), s \in Sites(c.rows[j]) PROVE FALSE
      OBVIOUS
    <2> DEFINE K == {k \in DOMAIN c.rows : Competes(c.rows[k], c.policy) /\ s \in Sites(c.rows[k])}
    <2>1. i \in K /\ j \in K
      BY <1>1 DEF Contends
    <2>2. IsFiniteSet(K)
      <3>1. IsFiniteSet(1 .. Len(c.rows)) /\ DOMAIN c.rows = 1 .. Len(c.rows)
        BY FS_Interval DEF Carvable
      <3> QED
        BY <3>1, FS_Subset
    <2>3. Cardinality(K) > 1
      <3> HIDE DEF K
      <3> QED
        BY <2>1, <2>2, TwoOf
    <2>4. Ambiguous(c.rows, i, c.policy)
      BY <2>3 DEF Ambiguous
    <2> QED
      BY <1>3, <2>4 DEF Contends
  <1> QED
    BY <1>2, <1>3 DEF Carvable

LEMMA OffsetsApart ==
  ASSUME NEW c, Carvable(c), NEW i, Contends(c, i), NEW j, Contends(c, j), i # j
  PROVE  Offsets(c, i) \cap Offsets(c, j) = {}
  <1>1. Sites(c.rows[i]) \cap Sites(c.rows[j]) = {}
    BY ContendersApart
  <1>2. /\ c.owner.va \in Int
        /\ c.rows[i].site \in Int /\ c.rows[i].paired \in Int /\ c.rows[j].site \in Int /\ c.rows[j].paired \in Int
    BY DEF Carvable, Contends
  <1>3. ASSUME NEW k, c.rows[k].site \in Int, c.rows[k].paired \in Int, NEW o \in Offsets(c, k)
        PROVE  c.owner.va + o \in Sites(c.rows[k])
    BY <1>2, <1>3 DEF Offsets, Offset, PairedOffset, Sites
  <1> QED
    BY <1>1, <1>2, <1>3

\* What is carved of n rows is defined by what is carved of the rows before: the recursive function exists.
LEMMA AfterRowsIs ==
  ASSUME NEW c, Len(c.rows) \in Nat
  PROVE  /\ AfterRows(c, 0) = Uncarved(c.retail, c.owner)
         /\ \A n \in 1 .. Len(c.rows) :
              AfterRows(c, n) = CarveRow(AfterRows(c, n - 1), c.rows, n, c.owner, c.catalog, c.policy, c.rodata)
  <1> DEFINE Step(d, n) == CarveRow(d, c.rows, n, c.owner, c.catalog, c.policy, c.rodata)
             base == Uncarved(c.retail, c.owner)
             N == Len(c.rows)
             Equation(g, k) == g = [n \in 0 .. k |-> IF n = 0 THEN base ELSE Step(g[n - 1], n)]
             Reached == {k \in 0 .. N : \E g : Equation(g, k)}
  <1> HIDE DEF base, N
  <1>0. N \in Nat
    BY DEF N
  <1>1. 0 \in Reached
    <2>1. Equation([n \in 0 .. 0 |-> base], 0)
      OBVIOUS
    <2> HIDE DEF Equation
    <2>2. \E g : Equation(g, 0)
      BY <2>1
    <2> QED
      BY <1>0, <2>2
  <1>2. \A k \in 0 .. N - 1 : k \in Reached => k + 1 \in Reached
    <2> SUFFICES ASSUME NEW k \in 0 .. N - 1, k \in Reached PROVE k + 1 \in Reached
      OBVIOUS
    <2>1. PICK f : Equation(f, k)
      OBVIOUS
    <2> DEFINE h == [n \in 0 .. k + 1 |-> IF n = k + 1 THEN Step(f[k], k + 1) ELSE f[n]]
    <2>2. \A n \in 0 .. k + 1 : h[n] = IF n = 0 THEN base ELSE Step(h[n - 1], n)
      <3> SUFFICES ASSUME NEW n \in 0 .. k + 1
                   PROVE  h[n] = IF n = 0 THEN base ELSE Step(h[n - 1], n)
        OBVIOUS
      <3>1. k \in Nat /\ n \in Nat /\ n <= k + 1
        BY <1>0
      <3>2. CASE n = k + 1
        BY <3>1, <3>2
      <3>3. CASE n # k + 1 /\ n = 0
        BY <3>1, <3>3, <2>1
      <3>4. CASE n # k + 1 /\ n # 0
        <4>1. h[n] = f[n] /\ h[n - 1] = f[n - 1] /\ n \in 0 .. k
          BY <3>1, <3>4
        <4>2. f[n] = Step(f[n - 1], n)
          BY <4>1, <3>4, <2>1
        <4> QED
          BY <4>1, <4>2, <3>4
      <3> QED
        BY <3>2, <3>3, <3>4
    <2>3. Equation(h, k + 1)
      BY <2>2
    <2> HIDE DEF Equation
    <2>4. \E g : Equation(g, k + 1)
      BY <2>3
    <2> QED
      BY <1>0, <2>4
  <1>3. N \in Reached
    <2> HIDE DEF Reached
    <2>1. \A k \in 0 .. N : k \in Reached
      BY <1>0, <1>1, <1>2, UpTo, Zenon
    <2> QED
      BY <1>0, <2>1
  <1>4. \E g : Equation(g, N)
    BY <1>3
  <1> DEFINE all == CarveUpTo(c.retail, c.owner, c.rows, c.catalog, c.policy, c.rodata)
  <1>5. Equation(all, N)
    BY <1>4 DEF CarveUpTo, base, N
  <1>6. \A n \in 0 .. N : all[n] = IF n = 0 THEN base ELSE Step(all[n - 1], n)
    BY <1>5
  <1> QED
    BY <1>0, <1>6 DEF AfterRows, base, N
-----------------------------------------------------------------------------
(* What is applied of a row, and what is carved of the rows so far.        *)

Cited(c, i) ==
  LET symbol == Resolved(c, i).symbol IN
  CASE c.rows[i].kind = "mips26" -> <<Reloc(Offset(c, i), "26", symbol)>>
    [] c.rows[i].kind = "hi_lo" -> <<Reloc(Offset(c, i), "HI16", symbol), Reloc(PairedOffset(c, i), "LO16", symbol)>>
    [] c.rows[i].kind = "word" -> <<Reloc(Offset(c, i), "32", symbol)>>
Wrote(c, i, blob) ==
  LET addend == Resolved(c, i).addend
      o == Offset(c, i)
      p == PairedOffset(c, i)
  IN /\ c.rows[i].kind = "mips26" => blob[o] = [Blob(c)[o] EXCEPT !.field = addend % Window]
     /\ c.rows[i].kind = "hi_lo" => /\ blob[o] = [Blob(c)[o] EXCEPT !.field = High(addend)]
                                    /\ blob[p] = [Blob(c)[p] EXCEPT !.field = addend % Radix]
     /\ c.rows[i].kind = "word" => blob[o] = [Blob(c)[o] EXCEPT !.field = addend % Space]
CitedAt(c, i, relocs, m) ==
  \A j \in DOMAIN Cited(c, i) : m + j - 1 \in DOMAIN relocs /\ relocs[m + j - 1] = Cited(c, i)[j]
\* What stands in the words and relocations once the rows of U are used.
Shows(c, U, blob, relocs) ==
  /\ \A i \in U : Fits(c, i) /\ Wrote(c, i, blob)
  /\ \A o \in 0 .. c.owner.size - 1 : (\A i \in U : o \notin Offsets(c, i)) => blob[o] = Blob(c)[o]
  /\ \A i \in U : \E m \in DOMAIN relocs : CitedAt(c, i, relocs, m)
  /\ \A k \in DOMAIN relocs : \E i \in U, m \in DOMAIN relocs : CitedAt(c, i, relocs, m) /\ k - m + 1 \in DOMAIN Cited(c, i)
Relocs(c) == {Reloc(o, k, s) : o \in 0 .. c.owner.size - 1, k \in {"26", "32", "HI16", "LO16"},
                               s \in {Resolved(c, i).symbol : i \in DOMAIN c.rows}}
CarvedSoFar(c, n, d) ==
  /\ d = [blob |-> d.blob, relocs |-> d.relocs, used |-> d.used, withheld |-> d.withheld]
  /\ DOMAIN d.blob = 0 .. c.owner.size - 1 /\ d.blob = [o \in DOMAIN d.blob |-> d.blob[o]]
  /\ d.relocs \in Seq(Relocs(c))
  /\ \E U \in SUBSET (1 .. n) : Shows(c, U, d.blob, d.relocs)

LEMMA CitedIs ==
  ASSUME NEW c, Carvable(c), NEW i, Fits(c, i)
  PROVE  /\ Cited(c, i) \in Seq(Relocs(c))
         /\ c.rows[i].kind # "hi_lo" => Len(Cited(c, i)) = 1
         /\ c.rows[i].kind = "hi_lo" => Len(Cited(c, i)) = 2
  <1> DEFINE symbol == Resolved(c, i).symbol
  <1>1. i \in DOMAIN c.rows
    BY DEF Fits
  <1>2. \A o \in 0 .. c.owner.size - 1, k \in {"26", "32", "HI16", "LO16"} : Reloc(o, k, symbol) \in Relocs(c)
    BY <1>1 DEF Relocs
  <1> HIDE DEF symbol
  <1>3. CASE c.rows[i].kind = "mips26"
    <2>1. Cited(c, i) = <<Reloc(Offset(c, i), "26", symbol)>>
      BY <1>3 DEF Cited, symbol
    <2> QED
      BY <1>2, <1>3, <2>1, FitsIs
  <1>4. CASE c.rows[i].kind = "hi_lo"
    <2>1. Cited(c, i) = <<Reloc(Offset(c, i), "HI16", symbol), Reloc(PairedOffset(c, i), "LO16", symbol)>>
      BY <1>4 DEF Cited, symbol
    <2> QED
      BY <1>2, <1>4, <2>1, FitsIs
  <1>5. CASE c.rows[i].kind = "word"
    <2>1. Cited(c, i) = <<Reloc(Offset(c, i), "32", symbol)>>
      BY <1>5 DEF Cited, symbol
    <2> QED
      BY <1>2, <1>5, <2>1, FitsIs
  <1> QED
    BY <1>3, <1>4, <1>5, FitsIs

\* Applying a row writes its addend into its words, and nothing else.
LEMMA ApplyIs ==
  ASSUME NEW c, Carvable(c), NEW i, Fits(c, i),
         NEW blob, DOMAIN blob = 0 .. c.owner.size - 1, blob = [o \in DOMAIN blob |-> blob[o]],
         \A o \in Offsets(c, i) : blob[o] = Blob(c)[o]
  PROVE  LET applied == ApplyRelocation(blob, c.owner, c.rows[i], c.catalog, c.rodata)
         IN /\ applied.relocs = Cited(c, i) /\ Wrote(c, i, applied.blob)
            /\ DOMAIN applied.blob = 0 .. c.owner.size - 1 /\ applied.blob = [o \in DOMAIN applied.blob |-> applied.blob[o]]
            /\ \A o \in 0 .. c.owner.size - 1 : o \notin Offsets(c, i) => applied.blob[o] = blob[o]
  <1> DEFINE applied == ApplyRelocation(blob, c.owner, c.rows[i], c.catalog, c.rodata)
             to == Resolved(c, i)
             o == Offset(c, i)
             p == PairedOffset(c, i)
  <1>1. o \in DOMAIN blob /\ blob[o] = Blob(c)[o]
    BY FitsIs DEF Offsets
  <1>2. CASE c.rows[i].kind = "mips26"
    <2>1. applied = [blob |-> [blob EXCEPT ![o] = EncodeMips26(@, to.addend)], relocs |-> <<Reloc(o, "26", to.symbol)>>]
      BY <1>2 DEF ApplyRelocation, Resolved, Offset
    <2>2. applied.relocs = Cited(c, i)
      BY <1>2, <2>1 DEF Cited
    <2>3. applied.blob = [blob EXCEPT ![o] = EncodeMips26(@, to.addend)]
      BY <2>1
    <2> HIDE DEF applied, to, o
    <2>4. Wrote(c, i, applied.blob)
      BY <1>1, <1>2, <2>3 DEF Wrote, EncodeMips26, to, o
    <2> QED
      BY <1>1, <1>2, <2>2, <2>3, <2>4 DEF Offsets, o, applied
  <1>3. CASE c.rows[i].kind = "hi_lo"
    <2>0. p \in DOMAIN blob /\ blob[p] = Blob(c)[p] /\ o < p /\ o \in Int /\ p \in Int
      BY <1>3, FitsIs DEF Offsets
    <2>1. applied = [blob |-> [blob EXCEPT ![o].field = High(to.addend), ![p].field = to.addend % Radix],
                     relocs |-> <<Reloc(o, "HI16", to.symbol), Reloc(p, "LO16", to.symbol)>>]
      BY <1>3 DEF ApplyRelocation, Resolved, Offset, PairedOffset
    <2>2. applied.relocs = Cited(c, i)
      BY <1>3, <2>1 DEF Cited
    <2>3. applied.blob = [blob EXCEPT ![o].field = High(to.addend), ![p].field = to.addend % Radix]
      BY <2>1
    <2> HIDE DEF applied, to, o, p
    <2>4. Wrote(c, i, applied.blob)
      BY <1>1, <1>3, <2>0, <2>3 DEF Wrote, to, o, p
    <2> QED
      BY <1>1, <1>3, <2>0, <2>2, <2>3, <2>4 DEF Offsets, o, p, applied
  <1>4. CASE c.rows[i].kind = "word"
    <2>1. applied = [blob |-> [blob EXCEPT ![o].field = to.addend % Space], relocs |-> <<Reloc(o, "32", to.symbol)>>]
      BY <1>4 DEF ApplyRelocation, Resolved, Offset
    <2>2. applied.relocs = Cited(c, i)
      BY <1>4, <2>1 DEF Cited
    <2>3. applied.blob = [blob EXCEPT ![o].field = to.addend % Space]
      BY <2>1
    <2> HIDE DEF applied, to, o
    <2>4. Wrote(c, i, applied.blob)
      BY <1>1, <1>4, <2>3 DEF Wrote, to, o
    <2> QED
      BY <1>1, <1>4, <2>2, <2>3, <2>4 DEF Offsets, o, applied
  <1> QED
    BY <1>2, <1>3, <1>4, FitsIs

\* The relocations of a row that is used follow those of the rows before.
LEMMA CitedAppended ==
  ASSUME NEW c, Carvable(c), NEW U, NEW i, Fits(c, i), NEW relocs \in Seq(Relocs(c)),
         \A j \in U : Fits(c, j),
         \A j \in U : \E m \in DOMAIN relocs : CitedAt(c, j, relocs, m),
         \A k \in DOMAIN relocs : \E j \in U, m \in DOMAIN relocs : CitedAt(c, j, relocs, m) /\ k - m + 1 \in DOMAIN Cited(c, j)
  PROVE  LET more == relocs \o Cited(c, i)
             all == U \cup {i}
         IN /\ more \in Seq(Relocs(c))
            /\ \A j \in all : \E m \in DOMAIN more : CitedAt(c, j, more, m)
            /\ \A k \in DOMAIN more : \E j \in all, m \in DOMAIN more : CitedAt(c, j, more, m) /\ k - m + 1 \in DOMAIN Cited(c, j)
  <1> DEFINE more == relocs \o Cited(c, i)
             L == Len(relocs)
             C == Cited(c, i)
  <1>1. /\ C \in Seq(Relocs(c)) /\ Len(C) \in 1 .. 2 /\ DOMAIN C = 1 .. Len(C)
        /\ L \in Nat /\ DOMAIN relocs = 1 .. L
    BY CitedIs, LenProperties
  <1>2. /\ more \in Seq(Relocs(c)) /\ Len(more) = L + Len(C) /\ DOMAIN more = 1 .. L + Len(C)
        /\ \A k \in 1 .. L : more[k] = relocs[k]
        /\ \A k \in 1 .. Len(C) : more[L + k] = C[k]
    <2>1. \A k \in 1 .. Len(C) : L + k > L /\ (L + k) - L = k /\ L + k \in 1 .. L + Len(C)
      BY <1>1
    <2> QED
      BY <1>1, <2>1, ConcatProperties, LenProperties
  <1> HIDE DEF more, L, C
  <1>3. ASSUME NEW j \in U, NEW m \in DOMAIN relocs, CitedAt(c, j, relocs, m)
        PROVE  m \in DOMAIN more /\ CitedAt(c, j, more, m)
    <2>1. ASSUME NEW k \in DOMAIN relocs PROVE k \in DOMAIN more /\ more[k] = relocs[k]
      <3>1. k \in 1 .. L /\ Len(C) \in Nat
        BY <1>1
      <3>2. k \in 1 .. L + Len(C)
        BY <1>1, <3>1
      <3> QED
        BY <1>2, <3>1, <3>2
    <2> QED
      BY <1>3, <2>1 DEF CitedAt
  <1>4. L + 1 \in DOMAIN more /\ CitedAt(c, i, more, L + 1)
    <2>1. \A k \in DOMAIN C : (L + 1) + k - 1 = L + k /\ L + k \in DOMAIN more /\ more[L + k] = C[k]
      <3>1. ASSUME NEW k \in DOMAIN C PROVE (L + 1) + k - 1 = L + k /\ L + k \in 1 .. L + Len(C) /\ k \in 1 .. Len(C)
        BY <1>1
      <3> QED
        BY <1>2, <3>1, Zenon
    <2>2. L + 1 \in DOMAIN more
      <3>1. L + 1 \in 1 .. L + Len(C)
        BY <1>1
      <3> QED
        BY <1>2, <3>1, Zenon
    <2> QED
      BY <2>1, <2>2 DEF CitedAt, C
  <1>5. \A j \in U \cup {i} : \E m \in DOMAIN more : CitedAt(c, j, more, m)
    BY <1>3, <1>4
  <1>6. ASSUME NEW k \in DOMAIN more
        PROVE  \E j \in U \cup {i}, m \in DOMAIN more : CitedAt(c, j, more, m) /\ k - m + 1 \in DOMAIN Cited(c, j)
    <2>1. CASE k \in DOMAIN relocs
      <3>1. PICK j \in U, m \in DOMAIN relocs : CitedAt(c, j, relocs, m) /\ k - m + 1 \in DOMAIN Cited(c, j)
        BY <2>1
      <3> QED
        BY <3>1, <1>3
    <2>2. CASE k \notin DOMAIN relocs
      <3>1. k - (L + 1) + 1 \in DOMAIN C
        BY <1>1, <1>2, <2>2
      <3> QED
        BY <3>1, <1>4 DEF C
    <2> QED
      BY <2>1, <2>2
  <1> QED
    BY <1>2, <1>5, <1>6 DEF more

\* Words that a row has not written are those that other rows have.
LEMMA WroteStays ==
  ASSUME NEW c, Carvable(c), NEW j, Fits(c, j), NEW blob, NEW next, Wrote(c, j, blob),
         \A o \in Offsets(c, j) : next[o] = blob[o]
  PROVE  Wrote(c, j, next)
  <1>1. next[Offset(c, j)] = blob[Offset(c, j)]
    BY DEF Offsets
  <1>2. c.rows[j].kind = "hi_lo" => next[PairedOffset(c, j)] = blob[PairedOffset(c, j)]
    BY DEF Offsets
  <1> QED
    BY <1>1, <1>2 DEF Wrote

LEMMA RowCarved ==
  ASSUME NEW c, Carvable(c), NEW n \in 1 .. Len(c.rows), NEW d, CarvedSoFar(c, n - 1, d)
  PROVE  CarvedSoFar(c, n, CarveRow(d, c.rows, n, c.owner, c.catalog, c.policy, c.rodata))
  <1> DEFINE next == CarveRow(d, c.rows, n, c.owner, c.catalog, c.policy, c.rodata)
             refused == (c.owner.code /\ Ambiguous(c.rows, n, c.policy)) \/ ~Valid(d.blob, c.owner, c.rows[n], c.catalog, c.policy)
  <1>1. n \in DOMAIN c.rows /\ n \in Nat /\ n > 0 /\ c.owner.size \in Nat
    BY DEF Carvable
  <1>2. PICK U \in SUBSET (1 .. n - 1) : Shows(c, U, d.blob, d.relocs)
    BY DEF CarvedSoFar
  <1>3. U \in SUBSET (1 .. n) /\ n \notin U
    BY <1>1, <1>2
  <1>4. CASE refused
    <2>1. next = [d EXCEPT !.withheld = Append(@, n)]
      BY <1>4 DEF CarveRow
    <2>2. /\ next.blob = d.blob /\ next.relocs = d.relocs
          /\ next = [blob |-> next.blob, relocs |-> next.relocs, used |-> next.used, withheld |-> next.withheld]
      BY <2>1 DEF CarvedSoFar
    <2> HIDE DEF next
    <2> QED
      BY <1>2, <1>3, <2>2 DEF CarvedSoFar, next
  <1>5. CASE ~refused
    <2> DEFINE applied == ApplyRelocation(d.blob, c.owner, c.rows[n], c.catalog, c.rodata)
               all == U \cup {n}
    <2>1. next = [blob |-> applied.blob, relocs |-> d.relocs \o applied.relocs, used |-> Append(d.used, n), withheld |-> d.withheld]
      BY <1>5 DEF CarveRow
    <2>2. DOMAIN d.blob = 0 .. c.owner.size - 1 /\ d.blob = [o \in DOMAIN d.blob |-> d.blob[o]] /\ d.relocs \in Seq(Relocs(c))
      BY DEF CarvedSoFar
    <2>3. Contends(c, n)
      BY <1>1, <1>5, <2>2, ValidIs DEF Contends
    <2>4. \A j \in U : Fits(c, j) /\ Contends(c, j) /\ Offsets(c, j) \cap Offsets(c, n) = {}
      BY <1>2, <1>3, <2>3, FitsIs, OffsetsApart DEF Shows
    <2>5. \A o \in Offsets(c, n) : o \in 0 .. c.owner.size - 1
      BY <1>1, <1>5, <2>2, ValidIs DEF Offsets
    <2>6. \A o \in Offsets(c, n) : d.blob[o] = Blob(c)[o]
      BY <1>2, <2>4, <2>5 DEF Shows
    <2>7. Fits(c, n)
      BY <1>1, <1>5, <2>2, <2>6, ValidLikewise DEF Fits
    <2>8. /\ applied.relocs = Cited(c, n) /\ Wrote(c, n, applied.blob)
          /\ DOMAIN applied.blob = 0 .. c.owner.size - 1 /\ applied.blob = [o \in DOMAIN applied.blob |-> applied.blob[o]]
          /\ \A o \in 0 .. c.owner.size - 1 : o \notin Offsets(c, n) => applied.blob[o] = d.blob[o]
      BY <2>2, <2>6, <2>7, ApplyIs
    <2> HIDE DEF applied, next
    <2>9. \A j \in all : Fits(c, j) /\ Wrote(c, j, applied.blob)
      <3>1. ASSUME NEW j \in U PROVE Fits(c, j) /\ Wrote(c, j, applied.blob)
        <4>1. Fits(c, j) /\ Wrote(c, j, d.blob)
          BY <1>2 DEF Shows
        <4>2. \A o \in Offsets(c, j) : o \in 0 .. c.owner.size - 1
          BY <4>1, FitsIs DEF Offsets
        <4>3. \A o \in Offsets(c, j) : applied.blob[o] = d.blob[o]
          BY <2>4, <2>8, <4>2
        <4> QED
          BY <4>1, <4>3, WroteStays
      <3> QED
        BY <2>7, <2>8, <3>1
    <2>10. \A o \in 0 .. c.owner.size - 1 : (\A j \in all : o \notin Offsets(c, j)) => applied.blob[o] = Blob(c)[o]
      BY <1>2, <2>8 DEF Shows
    <2>11. LET more == d.relocs \o Cited(c, n)
           IN /\ more \in Seq(Relocs(c))
              /\ \A j \in all : \E m \in DOMAIN more : CitedAt(c, j, more, m)
              /\ \A k \in DOMAIN more : \E j \in all, m \in DOMAIN more : CitedAt(c, j, more, m) /\ k - m + 1 \in DOMAIN Cited(c, j)
      <3>1. \A j \in U : Fits(c, j)
        BY <2>4
      <3>2. /\ \A j \in U : \E m \in DOMAIN d.relocs : CitedAt(c, j, d.relocs, m)
            /\ \A k \in DOMAIN d.relocs : \E j \in U, m \in DOMAIN d.relocs : CitedAt(c, j, d.relocs, m) /\ k - m + 1 \in DOMAIN Cited(c, j)
        BY <1>2 DEF Shows
      <3> QED
        BY <2>2, <2>7, <3>1, <3>2, CitedAppended
    <2>12. next.blob = applied.blob /\ next.relocs = d.relocs \o Cited(c, n)
      BY <2>1, <2>8
    <2>13. Shows(c, all, next.blob, next.relocs)
      BY <2>9, <2>10, <2>11, <2>12 DEF Shows
    <2>14. all \in SUBSET (1 .. n)
      <3>1. n \in 1 .. n
        BY <1>1
      <3> QED
        BY <1>3, <3>1
    <2>15. next = [blob |-> next.blob, relocs |-> next.relocs, used |-> next.used, withheld |-> next.withheld]
      BY <2>1
    <2> QED
      BY <2>8, <2>11, <2>12, <2>13, <2>14, <2>15 DEF CarvedSoFar, next
  <1> QED
    BY <1>4, <1>5

LEMMA AllCarved ==
  ASSUME NEW c, Carvable(c)
  PROVE  CarvedSoFar(c, Len(c.rows), Carve(c.retail, c.owner, c.rows, c.catalog, c.policy, c.rodata))
  <1> DEFINE N == Len(c.rows)
             Carries(n) == CarvedSoFar(c, n, AfterRows(c, n))
             Reached == {n \in 0 .. N : Carries(n)}
  <1>1. N \in Nat
    BY DEF Carvable
  <1>2. Carries(0)
    <2>1. AfterRows(c, 0) = [blob |-> Blob(c), relocs |-> <<>>, used |-> <<>>, withheld |-> <<>>]
      BY <1>1, AfterRowsIs DEF Uncarved, Blob
    <2>2. Shows(c, {}, Blob(c), <<>>)
      BY DEF Shows
    <2>3. Blob(c) = [o \in DOMAIN Blob(c) |-> Blob(c)[o]]
      BY DEF Blob, Words
    <2> DEFINE d == AfterRows(c, 0)
    <2>4. d.blob = Blob(c) /\ d.relocs = <<>> /\ d = [blob |-> d.blob, relocs |-> d.relocs, used |-> d.used, withheld |-> d.withheld]
      BY <2>1
    <2>5. <<>> \in Seq(Relocs(c)) /\ {} \in SUBSET (1 .. 0)
      BY EmptySeq
    <2> HIDE DEF d
    <2>6. CarvedSoFar(c, 0, d)
      BY <2>2, <2>3, <2>4, <2>5, BlobIs DEF CarvedSoFar
    <2> QED
      BY <2>6 DEF d
  <1>3. ASSUME NEW n \in 0 .. N - 1, Carries(n) PROVE Carries(n + 1)
    <2>1. n + 1 \in 1 .. N /\ (n + 1) - 1 = n
      BY <1>1
    <2>2. AfterRows(c, n + 1) = CarveRow(AfterRows(c, n), c.rows, n + 1, c.owner, c.catalog, c.policy, c.rodata)
      BY <1>1, <2>1, AfterRowsIs
    <2> QED
      BY <1>3, <2>1, <2>2, RowCarved
  <1> HIDE DEF Carries
  <1>4. 0 \in Reached /\ \A n \in 0 .. N - 1 : n \in Reached => n + 1 \in Reached
    BY <1>1, <1>2, <1>3
  <1>5. \A n \in 0 .. N : n \in Reached
    <2> HIDE DEF Reached, N
    <2> QED
      BY <1>1, <1>4, UpTo, Zenon
  <1>6. Carries(N)
    BY <1>1, <1>5
  <1> QED
    BY <1>6 DEF Carries, Carve, AfterRows
-----------------------------------------------------------------------------
(* Linking: the addends of a row and the address of its symbol are its     *)
(* target, and the target's fields are those of the image.                 *)

\* A symbol that stands where it must is as far from the row's target as the addend says.
LEMMA ResolvedStands ==
  ASSUME NEW c, Carvable(c), NEW i \in DOMAIN c.rows, SpelledRight(c.catalog), NEW address,
         Stands(address, Resolved(c, i).symbol, c.owner, c.catalog, c.rodata)
  PROVE  /\ address[Resolved(c, i).symbol] \in Int /\ Resolved(c, i).addend \in Int
         /\ address[Resolved(c, i).symbol] + Resolved(c, i).addend = c.rows[i].target
  <1> DEFINE row == c.rows[i]
             target == row.target
             to == Resolved(c, i)
             At(symbol, addend) == [symbol |-> symbol, addend |-> addend]
             referents == Referents(c.catalog, row.name)
             named == CHOOSE d \in referents : TRUE
             starts == {f \in c.catalog.functions : f.va = target}
             holding == {d \in c.catalog.data : Covers(d.va, d.size, target)}
             InRodata(a) == c.rodata # <<>> /\ Covers(c.rodata[1], c.rodata[2], a)
             reference == row.status = "reviewed" /\ row.kind \in {"hi_lo", "word"} /\ referents # {}
             objects == c.catalog.functions \cup c.catalog.data
             start == CHOOSE f \in starts : TRUE
             holder == CHOOSE d \in holding : TRUE
             Means(symbol, addend) ==
               Stands(address, symbol, c.owner, c.catalog, c.rodata) =>
                 address[symbol] \in Int /\ addend \in Int /\ address[symbol] + addend = target
  <1>1. /\ target \in Int /\ row.name.at \in Int /\ c.owner.va \in Int /\ \A o \in objects : o.va \in Int
        /\ row.name \notin {Text, Rodata}
        /\ c.rodata = <<>> \/ c.rodata[1] \in Int
        /\ \A f \in c.catalog.functions : f.symbol = row.name => f.va = target
    BY DEF Carvable, IsRow
  <1>2. Text # Rodata
    BY DEF Text, Rodata, Plain, Symbol
  <1>3. Means(Text, target - c.owner.va)
    <2> SUFFICES ASSUME Stands(address, Text, c.owner, c.catalog, c.rodata)
                 PROVE  address[Text] \in Int /\ target - c.owner.va \in Int /\ address[Text] + (target - c.owner.va) = target
      OBVIOUS
    <2>1. address[Text] = c.owner.va
      BY <1>2 DEF Stands
    <2> QED
      BY <1>1, <2>1
  <1>4. c.rodata # <<>> => Means(Rodata, target - c.rodata[1])
    <2> SUFFICES ASSUME c.rodata # <<>>, Stands(address, Rodata, c.owner, c.catalog, c.rodata)
                 PROVE  address[Rodata] \in Int /\ target - c.rodata[1] \in Int /\ address[Rodata] + (target - c.rodata[1]) = target
      OBVIOUS
    <2>1. address[Rodata] = c.rodata[1]
      BY <1>2 DEF Stands
    <2>2. c.rodata[1] \in Int
      BY <1>1
    <2> QED
      BY <1>1, <2>1, <2>2
  \* A symbol of the catalog stands at the object it is of.
  <1>5. ASSUME NEW o \in objects, NEW symbol, symbol = o.symbol PROVE Means(symbol, target - o.va)
    <2>1. symbol \notin {Text, Rodata} /\ o.va \in Int
      BY <1>1, <1>5 DEF SpelledRight
    <2>2. o.va \in {p.va : p \in {q \in objects : q.symbol = symbol}}
      BY <1>5
    <2>3. AddressBook(c.catalog, symbol) = {address[symbol]} => address[symbol] = o.va
      BY <2>2 DEF AddressBook
    <2> QED
      BY <1>1, <2>1, <2>3 DEF Stands
  \* So does one that spells its address.
  <1>6. ASSUME NEW symbol, symbol.name = "DAT", symbol.at \in Int, symbol \notin {Text, Rodata} PROVE Means(symbol, target - symbol.at)
    <2>1. \A o \in objects : o.symbol = symbol => o.va = symbol.at
      BY <1>6 DEF SpelledRight
    <2>2. AddressBook(c.catalog, symbol) = {address[symbol]} => address[symbol] = symbol.at
      BY <1>6, <2>1 DEF AddressBook
    <2> QED
      BY <1>1, <1>6, <2>2 DEF Stands
  <1>7. referents # {} =>
          /\ named \in c.catalog.data /\ named.va \in Int
          /\ IF row.name.name = "DAT" THEN named.va = row.name.at ELSE named.symbol = row.name
    BY <1>1 DEF Referents
  <1>8. to = CASE reference /\ InRodata(named.va) -> At(Rodata, target - c.rodata[1])
       [] reference /\ ~InRodata(named.va) -> At(named.symbol, target - named.va)
       [] ~reference /\ Holds(c.owner, target) -> At(Text, target - c.owner.va)
       [] ~reference /\ ~Holds(c.owner, target) /\ InRodata(target) -> At(Rodata, target - c.rodata[1])
       [] OTHER -> CASE starts # {} -> At(start.symbol, 0)
            [] starts = {} /\ row.name.name = "DAT" ->
                 At(IF referents # {} THEN named.symbol ELSE row.name, target - row.name.at)
            [] starts = {} /\ row.name.name \notin {"", "DAT"} ->
                 At(row.name, IF referents # {} THEN target - named.va ELSE 0)
            [] starts = {} /\ row.name.name = "" /\ holding # {} ->
                 At(holder.symbol, target - holder.va)
            [] OTHER -> At(Dat(target), 0)
    BY DEF Resolved, ResolveSymbol, NamedAddend
  <1>9. starts # {} => Means(start.symbol, 0)
    <2> SUFFICES ASSUME starts # {} PROVE Means(start.symbol, 0)
      OBVIOUS
    <2>1. start \in objects /\ start.va = target
      OBVIOUS
    <2> HIDE DEF start, Means
    <2>2. Means(start.symbol, target - start.va) /\ target - start.va = 0
      BY <1>1, <1>5, <2>1
    <2> QED
      BY <2>2
  <1>10. holding # {} => Means(holder.symbol, target - holder.va)
    <2> SUFFICES ASSUME holding # {} PROVE Means(holder.symbol, target - holder.va)
      OBVIOUS
    <2>1. holder \in objects
      OBVIOUS
    <2> HIDE DEF holder, Means
    <2> QED
      BY <1>5, <2>1
  <1>11. referents # {} => Means(named.symbol, target - named.va)
    BY <1>5, <1>7
  <1>12. row.name.name = "DAT" => Means(row.name, target - row.name.at)
    BY <1>1, <1>6
  \* A name that is neither a datum's nor spells an address is the target function's.
  <1>13. row.name.name # "DAT" /\ referents = {} => Means(row.name, 0)
    <2> SUFFICES ASSUME row.name.name # "DAT", referents = {}, Stands(address, row.name, c.owner, c.catalog, c.rodata)
                 PROVE  address[row.name] = target
      BY <1>1
    <2>1. AddressBook(c.catalog, row.name) = {address[row.name]}
      BY <1>1 DEF Stands
    <2>2. AddressBook(c.catalog, row.name) = {o.va : o \in {p \in objects : p.symbol = row.name}}
      BY DEF AddressBook
    <2>3. PICK o \in objects : o.symbol = row.name /\ o.va = address[row.name]
      BY <2>1, <2>2
    <2>4. o \notin c.catalog.data
      BY <2>3 DEF Referents
    <2> QED
      BY <1>1, <2>3, <2>4
  <1>14. Means(Dat(target), 0)
    <2>1. Dat(target).name = "DAT" /\ Dat(target).at = target /\ Dat(target) \notin {Text, Rodata}
      BY DEF Dat, Symbol, Text, Rodata, Plain
    <2>2. Means(Dat(target), target - target)
      BY <1>1, <1>6, <2>1
    <2> QED
      BY <1>1, <2>2
  <1> HIDE DEF Means, named, referents, starts, holding, start, holder, InRodata, reference
  <1>15. Means(to.symbol, to.addend)
    <2>1. CASE reference /\ InRodata(named.va)
      <3>1. to = At(Rodata, target - c.rodata[1])
        BY <1>8, <2>1
      <3>2. c.rodata # <<>>
        BY <2>1 DEF InRodata
      <3> QED
        BY <1>4, <3>1, <3>2
    <2>2. CASE reference /\ ~InRodata(named.va)
      <3>1. to = At(named.symbol, target - named.va)
        BY <1>8, <2>2
      <3>2. referents # {}
        BY <2>2 DEF reference
      <3> QED
        BY <1>11, <3>1, <3>2
    <2>3. CASE ~reference /\ Holds(c.owner, target)
      <3>1. to = At(Text, target - c.owner.va)
        BY <1>8, <2>3
      <3> QED
        BY <1>3, <3>1
    <2>4. CASE ~reference /\ ~Holds(c.owner, target) /\ InRodata(target)
      <3>1. to = At(Rodata, target - c.rodata[1])
        BY <1>8, <2>4
      <3>2. c.rodata # <<>>
        BY <2>4 DEF InRodata
      <3> QED
        BY <1>4, <3>1, <3>2
    <2>5. CASE ~reference /\ ~Holds(c.owner, target) /\ ~InRodata(target)
      <3>0. to = CASE starts # {} -> At(start.symbol, 0)
            [] starts = {} /\ row.name.name = "DAT" ->
                 At(IF referents # {} THEN named.symbol ELSE row.name, target - row.name.at)
            [] starts = {} /\ row.name.name \notin {"", "DAT"} ->
                 At(row.name, IF referents # {} THEN target - named.va ELSE 0)
            [] starts = {} /\ row.name.name = "" /\ holding # {} ->
                 At(holder.symbol, target - holder.va)
            [] OTHER -> At(Dat(target), 0)
        BY <1>8, <2>5
      <3>1. CASE starts # {}
        <4>1. to = At(start.symbol, 0)
          BY <3>0, <3>1
        <4> QED
          BY <1>9, <3>1, <4>1
      <3>2. CASE starts = {} /\ row.name.name = "DAT"
        <4>1. to = At(IF referents # {} THEN named.symbol ELSE row.name, target - row.name.at)
          BY <3>0, <3>2
        <4> QED
          BY <1>7, <1>11, <1>12, <3>2, <4>1
      <3>3. CASE starts = {} /\ row.name.name \notin {"", "DAT"}
        <4>1. to = At(row.name, IF referents # {} THEN target - named.va ELSE 0)
          BY <3>0, <3>3
        <4>2. CASE referents # {}
          <5>1. row.name = named.symbol
            BY <1>7, <3>3, <4>2
          <5>2. to.symbol = named.symbol /\ to.addend = target - named.va
            BY <4>1, <4>2, <5>1
          <5> QED
            BY <1>11, <4>2, <5>2
        <4>3. CASE referents = {}
          <5>1. to.symbol = row.name /\ to.addend = 0
            BY <4>1, <4>3
          <5> QED
            BY <1>13, <3>3, <4>3, <5>1
        <4> QED
          BY <4>2, <4>3
      <3>4. CASE starts = {} /\ row.name.name = "" /\ holding # {}
        <4>1. to = At(holder.symbol, target - holder.va)
          BY <3>0, <3>4
        <4>2. to.symbol = holder.symbol /\ to.addend = target - holder.va
          BY <4>1
        <4> QED
          BY <1>10, <3>4, <4>2
      <3>5. CASE starts = {} /\ row.name.name = "" /\ holding = {}
        <4>1. to = At(Dat(target), 0)
          BY <3>0, <3>5
        <4> QED
          BY <1>14, <4>1
      <3> QED
        BY <3>1, <3>2, <3>3, <3>4, <3>5
    <2> QED
      BY <2>1, <2>2, <2>3, <2>4, <2>5
  <1> QED
    BY <1>15 DEF Means

\* The relocations of an offset are one: rows that are used share no site.
LEMMA OneReloc ==
  ASSUME NEW c, Carvable(c), NEW U, NEW blob, NEW relocs \in Seq(Relocs(c)), Shows(c, U, blob, relocs),
         NEW i \in U, NEW m \in DOMAIN relocs, CitedAt(c, i, relocs, m), NEW j \in DOMAIN Cited(c, i)
  PROVE  {r \in Range(relocs) : r.offset = Cited(c, i)[j].offset} = {Cited(c, i)[j]}
  <1>1. Fits(c, i) /\ DOMAIN Cited(c, i) = 1 .. Len(Cited(c, i))
    BY CitedIs, LenProperties DEF Shows
  <1>2. ASSUME NEW k, Fits(c, k), NEW n \in DOMAIN Cited(c, k)
        PROVE  /\ Cited(c, k)[n].offset \in Offsets(c, k)
               /\ \A x \in DOMAIN Cited(c, k) : Cited(c, k)[x].offset = Cited(c, k)[n].offset => x = n
    <2>1. /\ c.rows[k].kind \in {"mips26", "hi_lo", "word"}
          /\ c.rows[k].kind = "hi_lo" => Offset(c, k) # PairedOffset(c, k)
      BY <1>2, FitsIs
    <2> QED
      BY <1>2, <2>1 DEF Cited, Offsets, Reloc
  <1>3. Cited(c, i)[j] \in Range(relocs)
    BY DEF CitedAt, Range
  <1>4. ASSUME NEW r \in Range(relocs), r.offset = Cited(c, i)[j].offset PROVE r = Cited(c, i)[j]
    <2>1. PICK k \in DOMAIN relocs : r = relocs[k]
      BY DEF Range
    <2>2. PICK x \in U, n \in DOMAIN relocs : CitedAt(c, x, relocs, n) /\ k - n + 1 \in DOMAIN Cited(c, x)
      BY <2>1 DEF Shows
    <2>3. Fits(c, x) /\ DOMAIN relocs = 1 .. Len(relocs) /\ Len(relocs) \in Nat
      BY LenProperties DEF Shows
    <2>4. n + (k - n + 1) - 1 = k
      BY <2>1, <2>2, <2>3
    <2>5. r = Cited(c, x)[k - n + 1]
      BY <2>1, <2>2, <2>4 DEF CitedAt
    <2>6. r.offset \in Offsets(c, x) /\ r.offset \in Offsets(c, i)
      BY <1>1, <1>2, <1>4, <2>2, <2>3, <2>5
    <2>7. x = i
      BY <1>1, <2>3, <2>6, FitsIs, OffsetsApart
    <2> QED
      BY <1>1, <1>2, <1>4, <2>2, <2>5, <2>7
  <1> QED
    BY <1>3, <1>4

\* The high half of a pair takes its own low half, as no pair of the symbol crosses it.
LEMMA PairIsOwn ==
  ASSUME NEW c, Carvable(c), NEW U, NEW blob, NEW relocs \in Seq(Relocs(c)), Shows(c, U, blob, relocs), ~Crossed(relocs),
         NEW i \in U, NEW m \in DOMAIN relocs, CitedAt(c, i, relocs, m), c.rows[i].kind = "hi_lo"
  PROVE  PairOf([blob |-> blob, relocs |-> relocs], Cited(c, i)[1]).offset = PairedOffset(c, i)
  <1> DEFINE section == [blob |-> blob, relocs |-> relocs]
             symbol == Resolved(c, i).symbol
             hi == Reloc(Offset(c, i), "HI16", symbol)
             lo == Reloc(PairedOffset(c, i), "LO16", symbol)
             Follows(l) == l.kind = "LO16" /\ l.symbol = hi.symbol /\ l.offset > hi.offset
  <1>1. Fits(c, i) /\ Cited(c, i) = <<hi, lo>>
    BY DEF Shows, Cited
  <1>2. m \in DOMAIN relocs /\ relocs[m] = hi /\ m + 1 \in DOMAIN relocs /\ relocs[m + 1] = lo
    <2>1. 1 \in DOMAIN Cited(c, i) /\ 2 \in DOMAIN Cited(c, i) /\ Cited(c, i)[1] = hi /\ Cited(c, i)[2] = lo
      BY <1>1
    <2>2. m + 1 - 1 = m /\ m + 2 - 1 = m + 1
      BY LenProperties
    <2> QED
      BY <2>1, <2>2 DEF CitedAt
  <1>3. Offset(c, i) \in Int /\ PairedOffset(c, i) \in Int /\ Offset(c, i) < PairedOffset(c, i)
    <2>1. c.owner.size \in Nat
      BY DEF Carvable
    <2>2. /\ Offset(c, i) \in 0 .. c.owner.size - 1 /\ PairedOffset(c, i) \in 0 .. c.owner.size - 1
          /\ Offset(c, i) < PairedOffset(c, i)
      BY <1>1, FitsIs
    <2> QED
      BY <2>1, <2>2
  <1>4. Follows(lo) /\ lo \in Range(relocs)
    BY <1>2, <1>3 DEF Reloc, Range
  <1>5. ASSUME NEW q \in Range(relocs), Follows(q) PROVE q.offset \in Int /\ PairedOffset(c, i) <= q.offset
    <2>1. PICK k \in DOMAIN relocs : q = relocs[k]
      BY DEF Range
    <2>2. q \in Relocs(c)
      BY <2>1, ElementOfSeq, LenProperties
    <2>3. q.offset \in Int
      BY <2>2 DEF Relocs, Reloc, Carvable
    <2>4. ~(hi.offset < q.offset /\ q.offset < lo.offset)
      BY <1>2, <1>5, <2>1 DEF Crossed, Reloc
    <2> QED
      BY <1>3, <1>5, <2>3, <2>4 DEF Reloc
  <1> DEFINE Nearest(l) == Follows(l) /\ \A q \in Range(relocs) : Follows(q) => l.offset <= q.offset
  <1>6. Nearest(lo) /\ lo.offset = PairedOffset(c, i)
    BY <1>4, <1>5 DEF Reloc
  <1>7. PairOf(section, hi) = CHOOSE l \in Range(relocs) : Nearest(l)
    BY DEF PairOf
  <1> DEFINE chosen == CHOOSE l \in Range(relocs) : Nearest(l)
  <1> HIDE DEF Nearest
  <1>8. chosen \in Range(relocs) /\ Nearest(chosen)
    BY <1>4, <1>6
  <1>9. Follows(chosen) /\ chosen.offset <= lo.offset
    BY <1>4, <1>8 DEF Nearest
  <1>10. chosen.offset \in Int /\ PairedOffset(c, i) <= chosen.offset
    BY <1>5, <1>8, <1>9
  <1>11. chosen.offset = PairedOffset(c, i)
    <2> HIDE DEF chosen
    <2> QED
      BY <1>3, <1>6, <1>9, <1>10
  <1>12. Cited(c, i)[1] = hi
    BY <1>1
  <1> HIDE DEF chosen, hi
  <1>13. PairOf(section, hi) = chosen
    BY <1>7 DEF chosen
  <1> QED
    BY <1>11, <1>12, <1>13

\* What the linker writes for each relocation of a row is the image's field.
LEMMA FieldBack ==
  ASSUME NEW c, Carvable(c), NEW U, NEW blob, NEW relocs \in Seq(Relocs(c)), Shows(c, U, blob, relocs), ~Crossed(relocs),
         SpelledRight(c.catalog), NEW address, NEW i \in U, NEW m \in DOMAIN relocs, CitedAt(c, i, relocs, m),
         Stands(address, Resolved(c, i).symbol, c.owner, c.catalog, c.rodata), NEW j \in DOMAIN Cited(c, i)
  PROVE  LinkedWord([blob |-> blob, relocs |-> relocs], address, Cited(c, i)[j]) = Blob(c)[Cited(c, i)[j].offset]
  <1> DEFINE section == [blob |-> blob, relocs |-> relocs]
             to == Resolved(c, i)
             S == address[to.symbol]
             target == c.rows[i].target
             o == Offset(c, i)
             p == PairedOffset(c, i)
             own == Blob(c)[o]
             low == Blob(c)[p]
  <1>1. Fits(c, i) /\ Wrote(c, i, blob) /\ i \in DOMAIN c.rows /\ DelinkAssumption
    BY DEF Shows, Fits, Carvable
  <1>2. S \in Int /\ to.addend \in Int /\ S + to.addend = target /\ target \in Int
    BY <1>1, ResolvedStands DEF Carvable
  <1>3. /\ Radix \in Nat /\ Radix > 0 /\ Window \in Nat /\ Window > 0 /\ Space \in Nat /\ Space > 0
    BY <1>1, SpaceIs
  <1>4. IsWord(own) /\ (c.rows[i].kind = "hi_lo" => IsWord(low))
    BY <1>1, FitsIs, BlobIs
  <1>5. CASE c.rows[i].kind = "mips26"
    <2>1. own.op \in Jumps /\ DecodeMips26(c.rows[i].site, own) = target /\ blob[o] = [own EXCEPT !.field = to.addend % Window]
      BY <1>1, <1>5, FitsIs DEF Wrote
    <2>2. own.field \in 0 .. Window - 1 /\ own = [op |-> own.op, reg |-> own.reg, field |-> own.field]
      BY <1>4, <2>1 DEF IsWord, FieldWidth
    <2>3. j = 1 /\ Cited(c, i)[j] = Reloc(o, "26", to.symbol)
      BY <1>5 DEF Cited
    <2>4. (S + (to.addend % Window)) % Window = target % Window
      BY <1>2, <1>3, Wraps
    <2>5. target % Window = own.field
      <3> DEFINE page == (c.rows[i].site + 1) \div Window
                 field == own.field
      <3>1. page \in Int
        BY <1>1, <1>3, Quotient DEF Carvable
      <3>2. target = page * Window + field
        BY <2>1 DEF DecodeMips26
      <3>3. field \in 0 .. Window - 1
        BY <2>2
      <3> HIDE DEF page, field, target
      <3>4. target % Window = field
        BY <1>3, <3>1, <3>2, <3>3, QuotientIs
      <3> QED
        BY <3>4 DEF field
    <2>6. LinkedField(section, address, Reloc(o, "26", to.symbol)) = own.field
      <3>1. blob[o].field = to.addend % Window
        BY <2>1, <2>2
      <3> QED
        BY <2>4, <2>5, <3>1 DEF LinkedField, Reloc
    <2> HIDE DEF own, to, section
    <2> QED
      BY <2>1, <2>2, <2>3, <2>6 DEF LinkedWord, Reloc, own, to, section
  <1>6. CASE c.rows[i].kind = "word"
    <2>1. own.op = "data" /\ own.field = target /\ blob[o] = [own EXCEPT !.field = to.addend % Space]
      BY <1>1, <1>6, FitsIs DEF Wrote
    <2>2. own.field \in 0 .. Space - 1 /\ own = [op |-> own.op, reg |-> own.reg, field |-> own.field]
      BY <1>4, <2>1 DEF IsWord, FieldWidth, Jumps
    <2>3. j = 1 /\ Cited(c, i)[j] = Reloc(o, "32", to.symbol)
      BY <1>6 DEF Cited
    <2>4. (S + (to.addend % Space)) % Space = target % Space
      BY <1>2, <1>3, Wraps
    <2>5. target % Space = own.field
      <3> DEFINE field == own.field
      <3>1. field \in 0 .. Space - 1 /\ target = field
        BY <2>1, <2>2
      <3> HIDE DEF field, target
      <3>2. field % Space = field
        BY <1>3, <3>1
      <3> QED
        BY <3>1, <3>2 DEF field
    <2>6. LinkedField(section, address, Reloc(o, "32", to.symbol)) = own.field
      <3>1. blob[o].field = to.addend % Space
        BY <2>1, <2>2
      <3> QED
        BY <2>4, <2>5, <3>1 DEF LinkedField, Reloc
    <2> HIDE DEF own, to, section
    <2> QED
      BY <2>1, <2>2, <2>3, <2>6 DEF LinkedWord, Reloc, own, to, section
  <1>7. CASE c.rows[i].kind = "hi_lo"
    <2>1. /\ own.op = "lui" /\ low.op \in SignedLows /\ DecodeHiLo(own, low) = target
          /\ blob[o] = [own EXCEPT !.field = High(to.addend)] /\ blob[p] = [low EXCEPT !.field = to.addend % Radix]
      BY <1>1, <1>7, FitsIs DEF Wrote
    <2>2. /\ own.field \in 0 .. Radix - 1 /\ own = [op |-> own.op, reg |-> own.reg, field |-> own.field]
          /\ low.field \in 0 .. Radix - 1 /\ low = [op |-> low.op, reg |-> low.reg, field |-> low.field]
      BY <1>4, <1>7, <2>1 DEF IsWord, FieldWidth, Jumps, SignedLows
    <2>3. High(target) = own.field /\ target % Radix = low.field
      <3> DEFINE h == own.field
                 l == low.field
      <3>1. target = (h * Radix + Low(l)) % Space
        BY <2>1 DEF DecodeHiLo, SignedLows
      <3>2. h \in 0 .. Radix - 1 /\ l \in 0 .. Radix - 1
        BY <2>2
      <3> HIDE DEF h, l, target
      <3>3. High(target) = h /\ target % Radix = l
        BY <1>1, <3>1, <3>2, PairIs
      <3> QED
        BY <3>3 DEF h, l
    <2>4. blob[o].field = High(to.addend) /\ blob[p].field = to.addend % Radix /\ blob[p].op = low.op
      BY <2>1, <2>2
    <2>5. CASE j = 1
      <3>1. Cited(c, i)[j] = Reloc(o, "HI16", to.symbol)
        BY <1>7, <2>5 DEF Cited
      <3>2. PairOf(section, Reloc(o, "HI16", to.symbol)).offset = p
        BY <1>7, <2>5, <3>1, PairIsOwn
      <3>3. LinkedField(section, address, Reloc(o, "HI16", to.symbol)) = High(S + DecodeHiLo(blob[o], blob[p]))
        BY <3>2 DEF LinkedField, Reloc
      <3>4. DecodeHiLo(blob[o], blob[p]) = (High(to.addend) * Radix + Low(to.addend % Radix)) % Space
        BY <2>1, <2>4 DEF DecodeHiLo, SignedLows
      <3>5. High(S + DecodeHiLo(blob[o], blob[p])) = High(target)
        BY <1>1, <1>2, <3>4, PairLinks
      <3>6. LinkedField(section, address, Reloc(o, "HI16", to.symbol)) = own.field
        BY <2>3, <3>3, <3>5
      <3> HIDE DEF own, to, section
      <3> QED
        BY <2>1, <2>2, <3>1, <3>6 DEF LinkedWord, Reloc, own, to, section
    <2>6. CASE j = 2
      <3>1. Cited(c, i)[j] = Reloc(p, "LO16", to.symbol)
        BY <1>7, <2>6 DEF Cited
      <3>2. (S + (to.addend % Radix)) % Radix = target % Radix
        BY <1>2, <1>3, Wraps
      <3>3. LinkedField(section, address, Reloc(p, "LO16", to.symbol)) = low.field
        BY <2>3, <2>4, <3>2 DEF LinkedField, Reloc
      <3> HIDE DEF low, to, section
      <3> QED
        BY <2>1, <2>2, <3>1, <3>3 DEF LinkedWord, Reloc, low, to, section
    <2>7. j \in {1, 2}
      BY <1>7 DEF Cited
    <2> QED
      BY <2>5, <2>6, <2>7
  <1> QED
    BY <1>1, <1>5, <1>6, <1>7, FitsIs

\* The linker gives every word of the section back.
LEMMA SectionBack ==
  ASSUME NEW c, Carvable(c), NEW U, NEW blob, NEW relocs \in Seq(Relocs(c)), Shows(c, U, blob, relocs), ~Crossed(relocs),
         DOMAIN blob = 0 .. c.owner.size - 1, SpelledRight(c.catalog), NEW address,
         \A r \in Range(relocs) : Stands(address, r.symbol, c.owner, c.catalog, c.rodata)
  PROVE  Linked([blob |-> blob, relocs |-> relocs], address) = Blob(c)
  <1> DEFINE section == [blob |-> blob, relocs |-> relocs]
             Here(o) == {r \in Range(relocs) : r.offset = o}
             Chosen(o) == CHOOSE r \in Here(o) : TRUE
             word(o) == IF Here(o) = {} THEN blob[o]
                        ELSE LinkedWord(section, address, Chosen(o))
  <1>1. Linked(section, address) = [o \in 0 .. c.owner.size - 1 |-> word(o)]
    BY DEF Linked
  <1>2. DOMAIN relocs = 1 .. Len(relocs) /\ Len(relocs) \in Nat
    BY LenProperties
  <1>3. ASSUME NEW o \in 0 .. c.owner.size - 1 PROVE word(o) = Blob(c)[o]
    <2>1. CASE Here(o) = {}
      <3>1. ASSUME NEW i \in U, o \in Offsets(c, i) PROVE FALSE
        <4>1. Fits(c, i) /\ c.rows[i].kind \in {"mips26", "hi_lo", "word"}
          BY FitsIs DEF Shows
        <4>2. PICK m \in DOMAIN relocs : CitedAt(c, i, relocs, m)
          BY DEF Shows
        <4>3. PICK j \in DOMAIN Cited(c, i) : Cited(c, i)[j].offset = o
          BY <3>1, <4>1 DEF Offsets, Cited, Reloc
        <4>4. Cited(c, i)[j] \in Range(relocs)
          BY <4>2 DEF CitedAt, Range
        <4>5. Cited(c, i)[j] \in Here(o)
          BY <4>3, <4>4
        <4> QED
          BY <2>1, <4>5
      <3> QED
        BY <2>1, <3>1 DEF Shows
    <2>2. CASE Here(o) # {}
      <3>1. PICK r \in Range(relocs) : r.offset = o
        BY <2>2
      <3>2. PICK k \in DOMAIN relocs : relocs[k] = r
        BY DEF Range
      <3>3. PICK i \in U, m \in DOMAIN relocs : CitedAt(c, i, relocs, m) /\ k - m + 1 \in DOMAIN Cited(c, i)
        BY DEF Shows
      <3> DEFINE j == k - m + 1
      <3>4. m + j - 1 = k
        BY <1>2
      <3>5. Cited(c, i)[j] = r /\ j \in DOMAIN Cited(c, i)
        BY <3>2, <3>3, <3>4 DEF CitedAt
      <3> HIDE DEF j
      <3>6. Here(o) = {r}
        BY <3>1, <3>3, <3>5, OneReloc
      <3>7. Chosen(o) = r
        BY <3>6
      <3>8. r.symbol = Resolved(c, i).symbol
        <4>1. c.rows[i].kind \in {"mips26", "hi_lo", "word"}
          BY FitsIs DEF Shows
        <4> QED
          BY <3>5, <4>1 DEF Cited, Reloc
      <3>9. Stands(address, Resolved(c, i).symbol, c.owner, c.catalog, c.rodata)
        BY <3>8
      <3>10. LinkedWord(section, address, Cited(c, i)[j]) = Blob(c)[Cited(c, i)[j].offset]
        BY <3>3, <3>5, <3>9, FieldBack
      <3>11. LinkedWord(section, address, r) = Blob(c)[o]
        BY <3>1, <3>5, <3>10
      <3> QED
        BY <2>2, <3>7, <3>11
    <2> QED
      BY <2>1, <2>2
  <1>4. Blob(c) = [o \in 0 .. c.owner.size - 1 |-> Blob(c)[o]]
    BY BlobIs DEF Blob, Words
  <1> HIDE DEF word
  <1>5. [o \in 0 .. c.owner.size - 1 |-> word(o)] = [o \in 0 .. c.owner.size - 1 |-> Blob(c)[o]]
    BY <1>3
  <1> QED
    BY <1>1, <1>4, <1>5

\* Whatever the image, the owner and the rows, the words that are carved link back to the image: no relocation
\* that delink.py writes changes a byte of the build, under any policy.
THEOREM CarvedRelinks ==
  ASSUME NEW retail, NEW owner, owner.va \in Int, owner.size \in Nat, owner.code \in BOOLEAN,
         NEW R, \A r \in R : r.site \in Int /\ r.paired \in Int /\ r.target \in Int /\ r.name.at \in Int,
         NEW rows \in Seq(R), NEW catalog, \A o \in catalog.functions \cup catalog.data : o.va \in Int,
         NEW policy \in {"safe", "reviewed", "all"}, NEW rodata, rodata = <<>> \/ rodata[1] \in Int, NEW address
  PROVE  RelinksTo(retail, owner, rows, catalog, policy, rodata, address)
  <1> DEFINE carved == Carve(retail, owner, rows, catalog, policy, rodata)
             c == [retail |-> retail, owner |-> owner, rows |-> rows, catalog |-> catalog, policy |-> policy, rodata |-> rodata]
  <1> SUFFICES ASSUME \A a \in owner.va .. owner.va + owner.size - 1 : IsWord(retail[a]),
                      \A i \in DOMAIN rows : IsRow(rows[i], catalog, policy),
                      owner.code \/ RowsApart(rows), SpelledRight(catalog), ~Crossed(carved.relocs),
                      \A r \in Range(carved.relocs) : Stands(address, r.symbol, owner, catalog, rodata)
               PROVE  Linked([blob |-> carved.blob, relocs |-> carved.relocs], address) = Words(retail, owner.va, owner.size)
    BY DEF RelinksTo
  <1>1. c.retail = retail /\ c.owner = owner /\ c.rows = rows /\ c.catalog = catalog /\ c.policy = policy /\ c.rodata = rodata
    OBVIOUS
  <1> HIDE DEF c
  <1>2. Len(rows) \in Nat /\ DOMAIN rows = 1 .. Len(rows) /\ \A i \in DOMAIN rows : rows[i] \in R
    BY LenProperties, ElementOfSeq
  <1>3. Carvable(c)
    BY <1>1, <1>2, DelinkAssumption DEF Carvable
  <1>4. CarvedSoFar(c, Len(c.rows), carved)
    BY <1>1, <1>3, AllCarved
  <1>5. PICK U \in SUBSET (1 .. Len(c.rows)) : Shows(c, U, carved.blob, carved.relocs)
    BY <1>4 DEF CarvedSoFar
  <1>6. DOMAIN carved.blob = 0 .. c.owner.size - 1 /\ carved.relocs \in Seq(Relocs(c))
    BY <1>4 DEF CarvedSoFar
  <1> HIDE DEF carved
  <1>7. Linked([blob |-> carved.blob, relocs |-> carved.relocs], address) = Blob(c)
    BY <1>1, <1>3, <1>5, <1>6, SectionBack
  <1> QED
    BY <1>1, <1>7 DEF Blob
-----------------------------------------------------------------------------
(* Boundaries of functions.                                                *)

\* The least of integers above a bound.
LEMMA MinIs ==
  ASSUME NEW S \in SUBSET Int, S # {}, NEW b \in Int, \A x \in S : b <= x
  PROVE  Min(S) \in S /\ \A x \in S : Min(S) <= x
  <1> DEFINE T == {x - b : x \in S}
  <1>1. T \in SUBSET Nat /\ T # {}
    <2>1. \A x \in S : x \in Int /\ x - b \in Nat
      OBVIOUS
    <2> QED
      BY <2>1
  <1>2. PICK m \in T : \A n \in T : m <= n
    <2> HIDE DEF T
    <2> QED
      BY <1>1, Least
  <1>3. PICK x \in S : m = x - b
    OBVIOUS
  <1>4. \A y \in S : x <= y
    <2> SUFFICES ASSUME NEW y \in S PROVE x <= y
      OBVIOUS
    <2>1. y - b \in T
      OBVIOUS
    <2> HIDE DEF T
    <2> QED
      BY <1>2, <1>3, <2>1
  <1>5. \E z \in S : \A y \in S : z =< y
    BY <1>4
  <1> QED
    BY <1>5 DEF Min

LEMMA EndIs ==
  ASSUME NEW image, NEW first \in Int, NEW last \in Int, DOMAIN image = first .. last, first <= last
  PROVE  End(image) = last + 1
  <1>1. last \in DOMAIN image /\ \A y \in DOMAIN image : last >= y
    OBVIOUS
  <1>2. \A x \in DOMAIN image : (\A y \in DOMAIN image : x >= y) => x = last
    <2> SUFFICES ASSUME NEW x \in DOMAIN image, \A y \in DOMAIN image : x >= y PROVE x = last
      OBVIOUS
    <2>1. x >= last /\ x \in Int /\ x <= last
      BY <1>1
    <2> QED
      BY <2>1
  <1>3. Max(DOMAIN image) = last
    <2> DEFINE Greatest(x) == \A y \in DOMAIN image : x >= y
    <2>1. Max(DOMAIN image) = CHOOSE x \in DOMAIN image : Greatest(x)
      BY DEF Max
    <2>2. Greatest(last) /\ \A x \in DOMAIN image : Greatest(x) => x = last
      BY <1>1, <1>2
    <2> HIDE DEF Greatest
    <2> QED
      BY <1>1, <2>1, <2>2
  <1> QED
    BY <1>3 DEF End

\* A function that starts before a word that no function has ends before it.
LEMMA NoOwner ==
  ASSUME NEW extents, FunctionsApart(extents), \A e \in extents : e.start \in Int /\ e.end \in Int /\ e.start < e.end,
         NEW a \in Int, ExtentOwner(extents, a) = {}, NEW e \in extents, e.start <= a
  PROVE  e.end <= a
  <1> DEFINE before == {f \in extents : f.start <= a}
             Latest(f) == \A x \in before : x.start <= f.start
             last == CHOOSE f \in before : Latest(f)
             Gaps == {a - f.start : f \in before}
  <1>1. e \in before
    OBVIOUS
  <1>2. Gaps \in SUBSET Nat /\ Gaps # {}
    BY <1>1
  <1>3. PICK m \in Gaps : \A n \in Gaps : m <= n
    <2> HIDE DEF Gaps
    <2> QED
      BY <1>2, Least
  <1>4. PICK f \in before : m = a - f.start
    OBVIOUS
  <1>5. Latest(f)
    <2> SUFFICES ASSUME NEW x \in before PROVE x.start <= f.start
      OBVIOUS
    <2>1. a - x.start \in Gaps
      OBVIOUS
    <2>2. m <= a - x.start
      BY <1>3, <2>1
    <2>3. x.start \in Int /\ f.start \in Int
      OBVIOUS
    <2> QED
      BY <1>4, <2>2, <2>3
  <1>6. last \in before /\ Latest(last)
    <2> HIDE DEF Latest
    <2> QED
      BY <1>5
  <1>7. ~(before = {} \/ a >= last.end) => ExtentOwner(extents, a) = {last}
    BY DEF ExtentOwner
  <1>8. a >= last.end /\ last \in extents /\ e.start <= last.start
    BY <1>1, <1>6, <1>7
  <1> HIDE DEF last
  <1>9. e = last \/ e.end <= last.start \/ last.end <= e.start
    BY <1>8 DEF FunctionsApart
  <1> QED
    BY <1>8, <1>9

\* What the audit finds from one address is one row, that starts there; a strong one has a word.
LEMMA RatedIs ==
  ASSUME NEW image, NEW extents, NEW relocated, NEW a \in Int, NEW r \in Rated(image, extents, relocated, a)
  PROVE  /\ r.start = a /\ \A q \in Rated(image, extents, relocated, a) : q = r
         /\ r.confidence \in {"strong", "frame-return", "referenced-code"}
         /\ r.confidence = "strong" => r.end \in Int /\ r.end > a
  <1> DEFINE returns == UNION {MatchingReturn(image, a, size) : size \in FrameAt(image, a)}
             refs == PointerRefs(image) \cup TailRefs(image, extents)
             known == ExtentOwner(extents, a) = {} \/ BoundaryBefore(image, a) \/ a \in refs \cup relocated
  <1>1. PlausibleCode(image, a) /\ Rated(image, extents, relocated, a) =
          IF returns # {} THEN {AuditRow(a, Min(returns) + 2, IF known THEN "strong" ELSE "frame-return")}
          ELSE IF a \in refs THEN {AuditRow(a, a, "referenced-code")} ELSE {}
    BY DEF Rated
  <1>2. \A x \in returns : x \in Int /\ a + 1 <= x
    BY DEF MatchingReturn
  <1>3. returns # {} => Min(returns) \in Int /\ a + 1 <= Min(returns)
    <2> HIDE DEF returns
    <2>1. returns \in SUBSET Int /\ a + 1 \in Int
      BY <1>2
    <2>2. returns # {} => Min(returns) \in returns
      BY <1>2, <2>1, MinIs
    <2> QED
      BY <1>2, <2>2
  <1> HIDE DEF returns, refs, known
  <1>4. CASE returns # {}
    <2>1. r = AuditRow(a, Min(returns) + 2, IF known THEN "strong" ELSE "frame-return")
      BY <1>1, <1>4
    <2> QED
      BY <1>1, <1>3, <1>4, <2>1 DEF AuditRow
  <1>5. CASE returns = {}
    <2>1. r = AuditRow(a, a, "referenced-code")
      BY <1>1, <1>5
    <2> QED
      BY <1>1, <1>5, <2>1 DEF AuditRow
  <1> QED
    BY <1>4, <1>5

\* The first return of a linear stretch, before it is stopped.
LEMMA LinearIs ==
  ASSUME NEW image, NEW first \in Int, NEW last \in Int, DOMAIN image = first .. last, first <= last, LeafReach \in Int,
         NEW a \in Int, NEW stop \in Int, NEW s \in LinearReturn(image, a, stop)
  PROVE  /\ s \in Int /\ a <= s /\ s < stop /\ s < last /\ IsReturn(image, s)
         /\ \A x \in a .. s - 1 : ~IsReturn(image, x)
  <1> DEFINE limits == {last, a + LeafReach, stop}
             low == IF stop <= last THEN IF stop <= a + LeafReach THEN stop ELSE a + LeafReach
                    ELSE IF last <= a + LeafReach THEN last ELSE a + LeafReach
  <1>1. End(image) - 1 = last
    <2>1. End(image) = last + 1
      BY EndIs
    <2> QED
      BY <2>1
  <1>2. s \in a .. Min(limits) - 1 /\ IsReturn(image, s) /\ \A x \in a .. s - 1 : ~IsReturn(image, x)
    BY <1>1 DEF LinearReturn
  <1>3. limits \in SUBSET Int /\ limits # {} /\ low \in Int /\ \A x \in limits : low <= x
    OBVIOUS
  <1>4. Min(limits) \in limits /\ \A x \in limits : Min(limits) <= x
    <2> HIDE DEF limits, low
    <2> QED
      BY <1>3, MinIs
  <1>5. Min(limits) \in Int /\ Min(limits) <= stop /\ Min(limits) <= last
    BY <1>4
  <1> HIDE DEF limits
  <1> QED
    BY <1>2, <1>5

\* No start lies between an address and its stop.
LEMMA StopIs ==
  ASSUME NEW image, NEW starts \in SUBSET Int, NEW a \in Int, End(image) \in Int
  PROVE  Stop(image, starts, a) \in Int /\ \A x \in starts : x > a => Stop(image, starts, a) <= x
  <1> DEFINE next == {x \in starts : x > a}
  <1>1. Stop(image, starts, a) = IF next = {} THEN End(image) ELSE Min(next)
    BY DEF Stop
  <1>2. next \in SUBSET Int /\ \A x \in next : a <= x
    <2>1. \A x \in next : x \in Int /\ a <= x
      OBVIOUS
    <2> QED
      BY <2>1
  <1>3. next # {} => Min(next) \in next /\ \A x \in next : Min(next) <= x
    <2> HIDE DEF next
    <2> QED
      BY <1>2, MinIs
  <1> QED
    BY <1>1, <1>3

\* What follows a return: its slot and at most three words of padding.
LEMMA PaddingIs ==
  ASSUME NEW image, NEW site \in Int
  PROVE  /\ AfterPadding(image, site) \in Int /\ AfterPadding(image, site) >= site + 2
         /\ \A x \in site + 2 .. AfterPadding(image, site) - 1 : x \in DOMAIN image /\ image[x].op = "zero"
  <1> DEFINE Padded(k) == \A x \in site + 2 .. site + 1 + k : x \in DOMAIN image /\ image[x].op = "zero"
             widths == {k \in 0 .. 3 : Padded(k)}
             Greatest(k) == \A y \in widths : k >= y
  <1>1. 0 \in widths
    OBVIOUS
  <1>2. \E k \in widths : Greatest(k)
    <2> DEFINE best == IF 3 \in widths THEN 3 ELSE IF 2 \in widths THEN 2 ELSE IF 1 \in widths THEN 1 ELSE 0
    <2>1. widths \in SUBSET {0, 1, 2, 3}
      OBVIOUS
    <2> HIDE DEF widths
    <2>2. best \in widths /\ \A y \in widths : best >= y
      BY <1>1, <2>1
    <2> QED
      BY <2>2
  <1>3. Max(widths) = CHOOSE k \in widths : Greatest(k)
    BY DEF Max
  <1> DEFINE k == Max(widths)
  <1>4. k \in widths
    <2> HIDE DEF Greatest
    <2> QED
      BY <1>2, <1>3
  <1>5. AfterPadding(image, site) = site + 2 + k
    BY DEF AfterPadding
  <1>6. k \in 0 .. 3 /\ Padded(k)
    BY <1>4
  <1> HIDE DEF k
  <1> QED
    BY <1>5, <1>6

Image(image, extents) ==
  /\ \E first, last \in Int : first <= last /\ DOMAIN image = first .. last
  /\ FunctionsApart(extents) /\ \A e \in extents : e.start \in Int /\ e.end \in Int /\ e.start < e.end
  /\ LeafReach \in Int
Strong(framed) == {r \in framed : r.confidence = "strong"}
Leaves(image, extents, relocated) == LeafRows(image, extents, FramedRows(image, extents, relocated))

LEMMA FramedIs ==
  ASSUME NEW image, NEW extents, NEW relocated, Image(image, extents), NEW r \in FramedRows(image, extents, relocated)
  PROVE  /\ r.start \in Int /\ r.confidence \in {"strong", "frame-return", "referenced-code"}
         /\ r.confidence = "strong" => r.end \in Int /\ r.end > r.start
         /\ \A q \in FramedRows(image, extents, relocated) : q.start = r.start => q = r
  <1> DEFINE candidates == (PointerRefs(image) \cup TailRefs(image, extents) \cup {a \in DOMAIN image : FrameAt(image, a) # {}})
                           \ {e.start : e \in extents}
  <1>1. FramedRows(image, extents, relocated) = UNION {Rated(image, extents, relocated, a) : a \in candidates}
    BY DEF FramedRows
  <1>2. \A a \in candidates : a \in Int
    BY DEF PointerRefs, TailRefs, Image
  <1> HIDE DEF candidates
  <1>3. PICK a \in candidates : r \in Rated(image, extents, relocated, a)
    BY <1>1
  <1>4. r.start = a /\ a \in Int
    BY <1>2, <1>3, RatedIs
  <1>5. ASSUME NEW q \in FramedRows(image, extents, relocated), q.start = r.start PROVE q = r
    <2>1. PICK b \in candidates : q \in Rated(image, extents, relocated, b)
      BY <1>1
    <2>2. q.start = b
      BY <1>2, <2>1, RatedIs
    <2>3. b = a
      BY <1>4, <1>5, <2>2
    <2> QED
      BY <1>3, <1>4, <2>1, <2>3, RatedIs
  <1> QED
    BY <1>3, <1>4, <1>5, RatedIs

LEMMA LeafIs ==
  ASSUME NEW image, NEW extents, NEW relocated, Image(image, extents), NEW l \in Leaves(image, extents, relocated)
  PROVE  /\ l.start \in Int /\ l.end \in Int /\ l.start <= l.end - 2 /\ l.confidence = "strong-leaf"
         /\ l.start \in DOMAIN image /\ l.end - 2 \in DOMAIN image /\ IsReturn(image, l.end - 2)
         /\ \A x \in l.start .. l.end - 3 : ~IsReturn(image, x)
         /\ l.start + 1 \in DOMAIN image
         /\ ExtentOwner(extents, l.start) = {} /\ \A e \in extents : e.start > l.start => e.start > l.end - 2
         /\ \A r \in Strong(FramedRows(image, extents, relocated)) : r.start \notin Within(l)
         /\ l = AuditRow(l.start, l.end, "strong-leaf")
         /\ \E r \in DOMAIN image : IsReturn(image, r) /\ l.start = AfterPadding(image, r)
  <1> DEFINE framed == FramedRows(image, extents, relocated)
             strong == Strong(framed)
             starts == {e.start : e \in extents} \cup {r.start : r \in strong}
             Free(a) == /\ a \in DOMAIN image /\ ExtentOwner(extents, a) = {}
                        /\ \A r \in strong : a \notin r.start .. r.end - 1
                        /\ \A r \in framed : r.start = a => r.confidence = "referenced-code"
             Clean(a, s) == \A x \in a .. s + 1 : image[x].valid
  <1>1. PICK first \in Int, last \in Int : first <= last /\ DOMAIN image = first .. last
    BY DEF Image
  <1>2. Leaves(image, extents, relocated) =
          UNION {{AuditRow(a, s + 2, "strong-leaf") : s \in {x \in LinearReturn(image, a, Stop(image, starts, a)) : Clean(a, x)}} :
                   a \in {b \in {AfterPadding(image, r) : r \in {s \in DOMAIN image : IsReturn(image, s)}} : Free(b)}}
    BY DEF Leaves, LeafRows, Strong
  <1>3. PICK r \in DOMAIN image : IsReturn(image, r) /\ Free(AfterPadding(image, r))
              /\ \E s \in LinearReturn(image, AfterPadding(image, r), Stop(image, starts, AfterPadding(image, r))) :
                   l = AuditRow(AfterPadding(image, r), s + 2, "strong-leaf")
    <2> HIDE DEF Free, Clean, starts
    <2> QED
      BY <1>2
  <1> DEFINE a == AfterPadding(image, r)
  <1>4. a \in Int /\ Free(a)
    BY <1>3, PaddingIs, <1>1
  <1>5. starts \in SUBSET Int
    <2>1. \A q \in strong : q.start \in Int
      BY FramedIs DEF Strong
    <2>2. \A e \in extents : e.start \in Int
      BY DEF Image
    <2> HIDE DEF strong
    <2> QED
      BY <2>1, <2>2
  <1> DEFINE stop == Stop(image, starts, a)
  <1>6. stop \in Int /\ \A x \in starts : x > a => stop <= x
    <2>1. End(image) \in Int
      BY <1>1, EndIs
    <2> HIDE DEF starts, a
    <2> QED
      BY <1>4, <1>5, <2>1, StopIs
  <1>7. PICK s \in LinearReturn(image, a, stop) : l = AuditRow(a, s + 2, "strong-leaf")
    BY <1>3
  <1>8. /\ s \in Int /\ a <= s /\ s < stop /\ s < last /\ IsReturn(image, s)
        /\ \A x \in a .. s - 1 : ~IsReturn(image, x)
    <2>1. LeafReach \in Int
      BY DEF Image
    <2> HIDE DEF a, stop
    <2> QED
      BY <1>1, <1>4, <1>6, <1>7, <2>1, LinearIs
  <1>9. l.start = a /\ l.end = s + 2 /\ l.confidence = "strong-leaf" /\ l = AuditRow(l.start, l.end, "strong-leaf")
    BY <1>7 DEF AuditRow
  <1>10. a \in DOMAIN image /\ ExtentOwner(extents, a) = {} /\ \A q \in strong : a \notin q.start .. q.end - 1
    BY <1>4
  <1>11. \A e \in extents : e.start > a => e.start > s
    <2> SUFFICES ASSUME NEW e \in extents, e.start > a PROVE e.start > s
      OBVIOUS
    <2>1. e.start \in starts /\ e.start \in Int
      BY DEF Image
    <2> HIDE DEF starts, stop, a
    <2> QED
      BY <1>6, <1>8, <2>1
  <1>12. ASSUME NEW q \in strong PROVE q.start \notin a .. s
    <2>1. q.start \in Int /\ q.end \in Int /\ q.end > q.start /\ q.start \in starts
      BY FramedIs DEF Strong
    <2>2. q.start # a
      <3> HIDE DEF a, strong
      <3> QED
        BY <1>4, <1>10, <2>1
    <2>3. q.start > a => q.start > s
      <3> HIDE DEF starts, stop, a, strong
      <3> QED
        BY <1>6, <1>8, <2>1
    <2> HIDE DEF a, strong, starts
    <2> QED
      BY <1>4, <1>8, <2>1, <2>2, <2>3
  <1> HIDE DEF a, strong, starts, stop
  <1>13. s + 2 - 2 = s /\ s + 2 - 3 = s - 1 /\ s + 2 \in Int /\ s \in first .. last /\ a + 1 \in first .. last
    BY <1>1, <1>4, <1>8, <1>10
  <1>14. Within(l) = a .. s
    BY <1>9, <1>13 DEF Within
  <1>15. \A q \in Strong(FramedRows(image, extents, relocated)) : q.start \notin Within(l)
    BY <1>12, <1>14 DEF strong
  <1>16. l.start = AfterPadding(image, r) /\ IsReturn(image, r)
    BY <1>3, <1>9 DEF a
  <1> QED
    BY <1>1, <1>4, <1>8, <1>9, <1>10, <1>11, <1>13, <1>15, <1>16

\* Two paddings that reach the same stretch follow the same return, unless a return lies in the other's slot.
LEMMA SamePadding ==
  ASSUME NEW image, NEW first \in Int, NEW last \in Int, DOMAIN image = first .. last, ~Nested(image),
         NEW r \in DOMAIN image, IsReturn(image, r), NEW q \in DOMAIN image, IsReturn(image, q), q < r
  PROVE  AfterPadding(image, q) <= r
  <1>1. /\ AfterPadding(image, q) \in Int
        /\ \A x \in q + 2 .. AfterPadding(image, q) - 1 : x \in DOMAIN image /\ image[x].op = "zero"
    BY PaddingIs
  <1>2. r # q + 1
    BY DEF Nested
  <1>3. r \notin q + 2 .. AfterPadding(image, q) - 1
    BY <1>1 DEF IsReturn
  <1> QED
    BY <1>1, <1>2, <1>3

\* A leaf ends at the first return, so a start has one.
LEMMA OneLeaf ==
  ASSUME NEW image, NEW extents, NEW relocated, Image(image, extents),
         NEW l \in Leaves(image, extents, relocated), NEW m \in Leaves(image, extents, relocated), l.start = m.start
  PROVE  l = m
  <1>1. /\ l.start \in Int /\ l.end \in Int /\ l.start <= l.end - 2 /\ IsReturn(image, l.end - 2)
        /\ \A x \in l.start .. l.end - 3 : ~IsReturn(image, x)
        /\ l = AuditRow(l.start, l.end, "strong-leaf")
    BY LeafIs
  <1>2. /\ m.start \in Int /\ m.end \in Int /\ m.start <= m.end - 2 /\ IsReturn(image, m.end - 2)
        /\ \A x \in m.start .. m.end - 3 : ~IsReturn(image, x)
        /\ m = AuditRow(m.start, m.end, "strong-leaf")
    BY LeafIs
  <1>3. ~(l.end < m.end)
    <2>1. l.end < m.end => l.end - 2 \in m.start .. m.end - 3
      BY <1>1, <1>2
    <2> QED
      BY <1>1, <1>2, <2>1
  <1>4. ~(m.end < l.end)
    <2>1. m.end < l.end => m.end - 2 \in l.start .. l.end - 3
      BY <1>1, <1>2
    <2> QED
      BY <1>1, <1>2, <2>1
  <1>5. l.end = m.end
    BY <1>1, <1>2, <1>3, <1>4
  <1> QED
    BY <1>1, <1>2, <1>5

\* Leaves are told apart by the returns they end at.
LEMMA LeavesApart ==
  ASSUME NEW image, NEW extents, NEW relocated, Image(image, extents), ~Nested(image),
         NEW l \in Leaves(image, extents, relocated), NEW m \in Leaves(image, extents, relocated), l # m
  PROVE  m.start \notin Within(l)
  <1>1. PICK first \in Int, last \in Int : DOMAIN image = first .. last
    BY DEF Image
  <1>2. PICK r \in DOMAIN image : IsReturn(image, r) /\ l.start = AfterPadding(image, r)
    BY LeafIs
  <1>3. PICK q \in DOMAIN image : IsReturn(image, q) /\ m.start = AfterPadding(image, q)
    BY LeafIs
  <1>4. /\ l.start \in Int /\ l.end \in Int /\ l.start <= l.end - 2 /\ IsReturn(image, l.end - 2)
        /\ \A x \in l.start .. l.end - 3 : ~IsReturn(image, x)
        /\ l = AuditRow(l.start, l.end, "strong-leaf")
        /\ m.start \in Int /\ m.end \in Int /\ m.start <= m.end - 2 /\ IsReturn(image, m.end - 2)
        /\ \A x \in m.start .. m.end - 3 : ~IsReturn(image, x)
        /\ m = AuditRow(m.start, m.end, "strong-leaf")
    BY LeafIs
  <1>5. r \in Int /\ q \in Int /\ m.start >= q + 2 /\ l.start >= r + 2
    BY <1>1, <1>2, <1>3, PaddingIs
  <1>6. CASE m.start = l.start
    BY <1>6, OneLeaf
  <1>7. CASE m.start # l.start
    <2>1. SUFFICES ASSUME m.start > l.start, m.start <= l.end - 2 PROVE FALSE
      BY <1>4, <1>7 DEF Within
    <2>2. r # q
      BY <1>2, <1>3, <1>4, <2>1
    <2>3. CASE q < r
      <3>1. m.start <= r
        BY <1>1, <1>2, <1>3, <2>3, SamePadding
      <3> QED
        BY <1>4, <1>5, <2>1, <3>1
    <2>4. CASE r < q
      <3>1. l.start <= q
        BY <1>1, <1>2, <1>3, <2>4, SamePadding
      <3>2. q \in l.start .. l.end - 3
        BY <1>4, <1>5, <2>1, <3>1
      <3> QED
        BY <1>3, <1>4, <3>2
    <2> QED
      BY <1>5, <2>2, <2>3, <2>4
  <1> QED
    BY <1>6, <1>7

\* Whatever the words of an image and its known functions: a leaf that the audit proposes is delimited by returns,
\* lies in words that nothing else has, and no address is proposed twice.
THEOREM LeavesDelimited ==
  ASSUME LeafReach \in Int, NEW image, ImageOf(image), DOMAIN image \in SUBSET Int, NEW extents, FunctionsApart(extents),
         \A e \in extents : e.start \in Int /\ e.end \in Int /\ e.start < e.end, NEW relocated
  PROVE  Delimited(image, extents, AuditImage(image, extents, relocated))
  <1> DEFINE framed == FramedRows(image, extents, relocated)
             leaves == Leaves(image, extents, relocated)
             rows == AuditImage(image, extents, relocated)
  <1>1. Image(image, extents)
    <2>1. PICK first \in DOMAIN image, last \in DOMAIN image : DOMAIN image = first .. last
      BY DEF ImageOf
    <2>2. first \in Int /\ last \in Int /\ first <= last
      BY <2>1
    <2> QED
      BY <2>1, <2>2 DEF Image
  <1>2. rows = leaves \cup {r \in framed : \A l \in leaves : l.start # r.start}
    BY DEF AuditImage, Leaves
  <1>3. \A r \in framed : r.confidence # "strong-leaf" /\ r.start \in Int
    BY <1>1, FramedIs
  <1>4. {r \in rows : r.confidence = "strong-leaf"} \subseteq leaves
    BY <1>2, <1>3
  <1>5. ASSUME NEW l \in leaves
        PROVE  /\ {s \in Within(l) : IsReturn(image, s)} = {l.end - 2}
               /\ \A e \in extents : Within(l) \cap (e.start .. e.end - 1) = {}
               /\ \A r \in rows : r # l /\ r.confidence \in {"strong", "strong-leaf"} /\ ~Nested(image) => r.start \notin Within(l)
    <2>1. /\ l.start \in Int /\ l.end \in Int /\ l.start <= l.end - 2 /\ IsReturn(image, l.end - 2)
          /\ \A x \in l.start .. l.end - 3 : ~IsReturn(image, x)
          /\ ExtentOwner(extents, l.start) = {} /\ \A e \in extents : e.start > l.start => e.start > l.end - 2
          /\ \A r \in Strong(framed) : r.start \notin Within(l)
      BY <1>1, LeafIs
    <2>2. {s \in Within(l) : IsReturn(image, s)} = {l.end - 2}
      <3>1. \A s \in Within(l) : s \in l.start .. l.end - 3 \/ s = l.end - 2
        BY <2>1 DEF Within
      <3>2. l.end - 2 \in Within(l)
        BY <2>1 DEF Within
      <3> QED
        BY <2>1, <3>1, <3>2
    <2>3. ASSUME NEW e \in extents PROVE Within(l) \cap (e.start .. e.end - 1) = {}
      <3>1. e.start <= l.start => e.end <= l.start
        BY <2>1, NoOwner
      <3> QED
        BY <2>1, <3>1 DEF Within
    <2>4. ASSUME NEW r \in rows, r # l, r.confidence \in {"strong", "strong-leaf"}, ~Nested(image) PROVE r.start \notin Within(l)
      <3>1. CASE r \in leaves
        BY <1>1, <2>4, <3>1, LeavesApart
      <3>2. CASE r \notin leaves
        <4>1. r \in Strong(framed)
          BY <1>2, <1>3, <2>4, <3>2 DEF Strong
        <4> QED
          BY <2>1, <4>1
      <3> QED
        BY <3>1, <3>2
    <2> QED
      BY <2>2, <2>3, <2>4
  <1>6. ASSUME NEW q \in rows, NEW r \in rows, q.start = r.start PROVE q = r
    <2>1. CASE q \in leaves /\ r \in leaves
      BY <1>1, <1>6, <2>1, OneLeaf
    <2>2. CASE q \notin leaves /\ r \notin leaves
      <3>1. q \in framed /\ r \in framed
        BY <1>2, <2>2
      <3> QED
        BY <1>1, <1>6, <3>1, FramedIs
    <2>3. CASE q \in leaves /\ r \notin leaves
      BY <1>2, <1>6, <2>3
    <2>4. CASE q \notin leaves /\ r \in leaves
      BY <1>2, <1>6, <2>4
    <2> QED
      BY <2>1, <2>2, <2>3, <2>4
  <1> HIDE DEF rows, leaves, framed
  <1> QED
    BY <1>4, <1>5, <1>6 DEF Delimited, rows
==============================================================================
