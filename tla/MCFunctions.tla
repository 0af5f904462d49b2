----------------------------- MODULE MCFunctions -----------------------------
EXTENDS ControlFlow, FunctionAudit, Signatures, TLC
(***************************************************************************)
(* Basic blocks and values along the paths of one function.                *)
(***************************************************************************)
\* f lies at 4 in the image; the object's text holds g, a word, before it or not.  h is beyond the window.
FlowAddresses == [f |-> {4}, g |-> {2}, h |-> {15}, lost |-> {}]
CodeWord(op, reg, target, field) == [op |-> op, reg |-> reg, target |-> target, field |-> field]
Nop == CodeWord("nop", "any", 0, 0)
Return == CodeWord("jr", "ra", 0, 0)
\* A word and the name its relocation cites: jumps to f itself through the section, to g, to h.
FlowKinds ==
  {<<Nop, "">>, <<Return, "">>, <<CodeWord("jr", "any", 0, 0), "">>, <<CodeWord("bne", "any", 4, 0), "">>,
   <<CodeWord("beq", "same", 6, 0), "">>, <<CodeWord("bltzal", "any", 7, 0), "">>, <<CodeWord("j", "any", 0, 2), "section">>,
   <<CodeWord("j", "any", 0, 0), "g">>, <<CodeWord("jal", "any", 0, 0), "h">>, <<CodeWord("jal", "any", 0, 3), "section">>,
   <<CodeWord("syscall", "any", 0, 0), "">>}
Endings == {<<<<Return, "">>, <<Nop, "">>>>, <<<<Nop, "">>, <<CodeWord("beq", "same", 4, 0), "">>>>,
            <<<<CodeWord("bne", "any", 5, 0), "">>, <<Nop, "">>>>}
Insert(s, k, x) == SubSeq(s, 1, k - 1) \o <<x>> \o SubSeq(s, k, Len(s))
FlowInput(in) ==
  \E a, b, c \in FlowKinds, ending \in Endings, value \in 0 .. 1 :
  \E change \in {<<"same", 1>>, <<"nop", 1>>, <<"nop", 3>>, <<"return", 2>>, <<"drop", 2>>} :
    in = [rows |-> <<a, b, c>> \o ending, value |-> value, change |-> change]
Changed(rows, change) ==
  CASE change[1] = "nop" -> Insert(rows, change[2], <<Nop, "">>)
    [] change[1] = "return" -> [rows EXCEPT ![change[2]] = <<Return, "">>]
    [] change[1] = "drop" -> SubSeq(rows, 1, change[2] - 1) \o SubSeq(rows, change[2] + 1, Len(rows))
    [] OTHER -> rows
SymbolOf(name, value) ==
  [name |-> name, local |-> name \in {"section", "g"}, value |-> 0]
ObjectOf(rows, value) ==
  LET before == [k \in 1 .. value |-> Nop]
  IN [words |-> before \o [k \in DOMAIN rows |-> IF rows[k][2] = "section" THEN [rows[k][1] EXCEPT !.field = @ + value] ELSE rows[k][1]],
      value |-> value, size |-> Len(rows),
      functions |-> {[name |-> "f", value |-> value, size |-> Len(rows)]}
                    \cup {g \in {[name |-> "g", value |-> 0, size |-> 1]} : value = 1},
      relocs |-> {[offset |-> value + k - 1, kind |-> "R_MIPS_26",
                   symbol |-> [SymbolOf(rows[k][2], value) EXCEPT !.local = rows[k][2] = "section" \/ (rows[k][2] = "g" /\ value = 1)]] :
                   k \in {j \in DOMAIN rows : rows[j][2] # ""}}]
\* External: what the processor does.  A transfer takes effect after the next word; a callee returns to the
\* word after that; a system call does not return.
Out == 99
Meant(row) == CASE row[2] = "section" -> 4 + row[1].field [] row[2] = "g" -> 2 [] row[2] = "h" -> 15 [] OTHER -> row[1].target
Turns(row, pc) ==
  LET op == row[1].op IN
  CASE op = "jr" -> {Out}
    [] op = "j" -> {Meant(row)}
    [] op \in {"jal", "bltzal"} -> {Meant(row), pc + 2}
    [] op = "bne" -> {Meant(row), pc + 2}
    [] op = "beq" -> {Meant(row)}
    [] OTHER -> {}
RunStep(rows, state) ==
  LET pc == state[1]
      row == rows[pc - 3]
  IN IF pc \notin 4 .. 3 + Len(rows) \/ row[1].op = "syscall" THEN {}
     ELSE IF state[2] # None THEN {<<state[2], None>>}
     ELSE IF Turns(row, pc) = {} THEN {<<pc + 1, None>>}
     ELSE {<<pc + 1, t>> : t \in Turns(row, pc)}
Executed(rows) ==
  LET Grow(states, k) == states \cup UNION {RunStep(rows, s) : s \in states}
      states == FoldLeft(Grow, {<<4, None>>}, [k \in 1 .. 4 * Len(rows) |-> k])
  IN {s[1] : s \in states} \cap (4 .. 3 + Len(rows))
FlowOf(rows, value) == ObjectFlow(ObjectOf(rows, value), 4, 1, {2, 4, 15}, FlowAddresses)
BlocksRun(rows, graph) == {n \in DOMAIN graph.blocks : Inside(graph.blocks[n]) \cap Executed(rows) # {}}
Built(flow) == flow.graph /\ ~flow.built.issues
RunsItsBlocks(rows, graph) ==
  /\ Executed(rows) \subseteq UNION {Inside(graph.blocks[n]) : n \in DOMAIN graph.blocks}
  /\ BlocksRun(rows, graph) = {n \in DOMAIN graph.blocks : ~graph.flags[n].unreachable}
FlowIsExecution(in) ==
  LET Holds(flow) == Built(flow) => RunsItsBlocks(in.rows, flow.built)
  IN Holds(FlowOf(in.rows, in.value))
\* The blocks that the words after a block's last one lead to.
Ends(rows, graph) == [n \in DOMAIN graph.blocks |->
  LET last == CHOOSE va \in Inside(graph.blocks[n]) : \A w \in Inside(graph.blocks[n]) : w <= va
  IN {BlockFor(graph.blocks, s[1]) : s \in UNION {RunStep(rows, <<last, t>>) : t \in
        IF last - 1 \in Inside(graph.blocks[n]) /\ Turns(rows[last - 4], last - 1) # {}
        THEN Turns(rows[last - 4], last - 1) ELSE {None}}}]
SamePaths(rows, want, changed, have) ==
  BlocksRun(rows, want) = BlocksRun(changed, have) /\ Ends(rows, want) = Ends(changed, have)
AgreementIsOfPaths(in) ==
  LET changed == Changed(in.rows, in.change)
      Judged(differs, want, have) ==
        ~differs.edges /\ ~differs.controls => ~differs.frontiers /\ SamePaths(in.rows, want, changed, have)
      Holds(want, have) == Built(want) /\ Built(have) => Judged(CompareFlow(want.built, have.built), want.built, have.built)
  IN Holds(FlowOf(in.rows, in.value), FlowOf(changed, in.value))
(***************************************************************************)
(* Boundaries of functions in an image.                                    *)
(***************************************************************************)
AuditWord(op, n, valid) == [op |-> op, n |-> n, valid |-> valid]
AuditWords == {AuditWord("adjust", -2, TRUE), AuditWord("adjust", 2, TRUE), AuditWord("save", 1, TRUE), AuditWord("return", 0, TRUE),
               AuditWord("zero", 0, TRUE), AuditWord("code", 0, TRUE), AuditWord("pointer", 4, FALSE)}
\* Seven words: those of a function at the start, three or four of any kind, and a known function at the end or none.
AuditInput(in) ==
  \E a, b, c, d \in AuditWords, e \in {AuditWord("return", 0, TRUE), AuditWord("jump", 5, TRUE)},
     tail \in {<<>>, <<AuditWord("return", 0, TRUE), AuditWord("code", 0, TRUE)>>} :
  \E known \in {0, 4, 6, 7} :
    in = [words |-> <<AuditWord("return", 0, TRUE), AuditWord("code", 0, TRUE), a, b, c, d, e, AuditWord("code", 0, TRUE)>> \o tail,
          known |-> known]
Extents(in) == {[start |-> 1, end |-> 3]} \cup {[start |-> k, end |-> 8] : k \in {in.known} \ {0}}
LeavesAreDelimited(in) == Delimited(in.words, Extents(in), AuditImage(in.words, Extents(in), {}))

(***************************************************************************)
(* Searches of short patterns; then images linked from two objects, whose  *)
(* relocated words come out as the linker likes.                           *)
(***************************************************************************)
Cells(words, masks) == [k \in DOMAIN words |-> [word |-> words[k], mask |-> masks[k]]]
SearchInput(in) == \E w \in [1 .. 4 -> 0 .. 1], m \in [1 .. 4 -> {0, 2}], p \in [1 .. 6 -> 0 .. 1] :
                     w[1] = 0 /\ in = [cells |-> Cells(w, m), payload |-> p]
SearchIsExact(in) ==
  LET found == FindMasked(in.cells, in.payload) IN
  LongestAnchor(in.cells) # {} =>
    /\ Range(found) = {s \in 1 .. 6 : MatchesAt(in.cells, in.payload, s)}
    /\ \A k \in 1 .. Len(found) - 1 : found[k] < found[k + 1]

Library(module, cells, xdefs, locals, debug) ==
  [library |-> "L", module |-> module, cells |-> cells, xdefs |-> xdefs, locals |-> locals, debug |-> debug]
ObjectA(in) == Library("A", Cells(<<3, 1, 2>>, in.maskA), {<<0, 1>>}, in.locals, in.debug)
ObjectB(in) == Library("B", Cells(in.wordsB, <<2, 2, 1>>), {<<0, in.nameB>>}, {}, {})
LinkedWords(o, fill) == [k \in DOMAIN o.cells |-> IF o.cells[k].mask = 2 THEN o.cells[k].word ELSE 2 * (o.cells[k].word \div 2) + fill]
True(in, k) == IF in.real[k] = "A" THEN ObjectA(in) ELSE ObjectB(in)
SignatureImages(in) ==
  [GAME |-> LinkedWords(True(in, 1), in.fill[1]) \o <<0>> \o LinkedWords(True(in, 2), in.fill[2]), OPEN |-> <<0, 3, 1, 3, 0>>]
Structural(in) ==
  {[image |-> "GAME", va |-> 1, size |-> IF in.evidence THEN 3 ELSE 4, body |-> 3, name |-> 0, labels |-> <<9>>],
   [image |-> "GAME", va |-> 5, size |-> 3, body |-> 3, name |-> 2, labels |-> <<>>]}
Matching(in, at) == {Member(o) : o \in {x \in {ObjectA(in), ObjectB(in)} : at \in Range(FindMasked(x.cells, SignatureImages(in).GAME))}}
EvidenceRows(in) ==
  {[image |-> "GAME", va |-> 1, size |-> 3, member |-> Member(True(in, 1)), candidates |-> Matching(in, 1),
    occurrences |-> Len(FindMasked(True(in, 1).cells, SignatureImages(in).GAME))] : x \in {y \in {in} : y.evidence}}
PatternsOf(in) ==
  {[library |-> "P", module |-> "C", cells |-> Cells(<<3, 1, 3>>, in.maskP), labels |-> {<<0, l>>}] : l \in in.labels}
SignatureInput(in) ==
  \E maskA \in {<<2, 2, 1>>, <<2, 2, 2>>, <<1, 2, 2>>}, wordsB \in {<<3, 1, 2>>, <<3, 1, 3>>, <<2, 1, 2>>}, nameB \in {2, 11},
     locals \in {{}, {<<1, 9>>}, {<<0, 3>>}}, debug \in {{}, {<<0, 3, 1>>}}, real \in {"A", "B"} \X {"A", "B"},
     fill \in (0 .. 1) \X (0 .. 1), evidence \in BOOLEAN, complete \in BOOLEAN, maskP \in {<<2, 2, 1>>, <<2, 2, 2>>}, labels \in {{4}, {9}, {4, 5}} :
    in = [maskA |-> maskA, wordsB |-> wordsB, nameB |-> nameB, locals |-> locals, debug |-> debug, real |-> real, fill |-> fill,
          evidence |-> evidence, complete |-> complete, maskP |-> maskP, labels |-> labels]
CompleteRows(in) ==
  {[image |-> "GAME", va |-> 5, member |-> Member(True(in, 2)), name |-> (CHOOSE d \in True(in, 2).xdefs : TRUE)[2]] : x \in {y \in {in} : y.complete}}
Seeded(in, patterns) ==
  VendoredRows(Structural(in), EvidenceRows(in), CompleteRows(in), {ObjectA(in), ObjectB(in)}, patterns, SignatureImages(in))
NamesAreTrue(in) ==
  LET corpus == BuildCorpus({ObjectA(in), ObjectB(in)})
      Real(f) == True(in, IF f.va = 1 THEN 1 ELSE 2)
      Whole(f) == \E s \in corpus : Member(s) = Member(Real(f)) /\ s.offset = 0 /\ Len(s.cells) = 3
  IN \A rows \in Seeded(in, PatternsOf(in)), older \in Seeded(in, {}) :
       /\ \A f \in Structural(in) :
            Key(f) \in DOMAIN rows /\ rows[Key(f)].confidence \in {"exact", "exact-complete", "fid"} /\ Whole(f) =>
              rows[Key(f)].name \in {d[2] : d \in Real(f).xdefs \cup Real(f).locals} /\ Real(f).module \in rows[Key(f)].modules
       /\ \A k \in DOMAIN older : rows[k].confidence = older[k].confidence /\ (older[k].name # 0 => rows[k].name = older[k].name)
       /\ \A k \in DOMAIN rows \ DOMAIN older : rows[k].confidence \in {"later", "later-ambiguous"}
==============================================================================
