----------------------------- MODULE ControlFlow -----------------------------
(***************************************************************************)
(* scripts/kf/sema: mips.py decodes the transfers of a function's words,   *)
(* cfg.py cuts the body into blocks with their delay slots and decides     *)
(* which are reachable; trial_flow.py places an object's function at its   *)
(* retail entry, builds the same graph and compares the two.               *)
(*                                                                         *)
(* Addresses count words.  A word is [op, reg, target, field]: reg is      *)
(* "ra", "zero", "same" (rs = rt) or "any"; a branch holds its target, a   *)
(* jump its field of the window of addresses it lies in.                   *)
(***************************************************************************)
EXTENDS Integers, Sequences, FiniteSets, SequencesExt

CONSTANT JumpWindow  \* words that one jump field can tell apart

None == -1
IsTransfer(word) == word.op \in {"j", "jal"}
JumpTarget(va, word) == ((va + 1) \div JumpWindow) * JumpWindow + word.field

(***************************************************************************)
(* mips.py                                                                 *)
(***************************************************************************)
Control(kind, target, delay, conditional, call, annulled) ==
  [kind |-> kind, target |-> target, delay |-> delay, conditional |-> conditional, call |-> call, annulled |-> annulled]
NoControl == Control("none", None, FALSE, FALSE, FALSE, FALSE)
Likely == {"beql", "bnel", "blezl", "bgtzl", "bltzl", "bgezl", "bltzall", "bgezall", "bc2tl"}
Linking == {"bltzal", "bgezal", "bltzall", "bgezall"}
Branches == Likely \cup Linking \cup {"beq", "bne", "blez", "bgtz", "bltz", "bgez", "bc2t"}
DecodeControl(va, word) ==
  CASE word.op = "jr" -> Control(IF word.reg = "ra" THEN "return" ELSE "indirect-jump", None, TRUE, FALSE, FALSE, FALSE)
    [] word.op = "jalr" -> IF word.reg = "zero" THEN Control("indirect-jump", None, TRUE, FALSE, FALSE, FALSE)
                           ELSE Control("indirect-call", None, TRUE, FALSE, TRUE, FALSE)
    [] word.op \in {"syscall", "break"} -> Control("trap", None, FALSE, FALSE, FALSE, FALSE)
    [] word.op = "j" -> Control("jump", JumpTarget(va, word), TRUE, FALSE, FALSE, FALSE)
    [] word.op = "jal" -> Control("call", JumpTarget(va, word), TRUE, FALSE, TRUE, FALSE)
    [] word.op \in Branches -> Control(IF word.op \in Linking THEN "call" ELSE "branch", word.target, TRUE, TRUE,
                                       word.op \in Linking, word.op \in Likely)
    [] OTHER -> NoControl
TerminatesBlock(c) == c.conditional \/ c.kind \in {"branch", "jump", "return", "indirect-jump", "trap"}
After(va, c) == va + IF c.delay THEN 2 ELSE 1
\* "both" unless the operands of a branch that does not link prove its result.
Outcome(word) ==
  CASE word.op \in {"beq", "bne"} /\ word.reg = "same" -> IF word.op = "beq" THEN "taken" ELSE "never"
    [] word.op \in {"blez", "bgtz"} /\ word.reg = "zero" -> IF word.op = "blez" THEN "taken" ELSE "never"
    [] word.op \in {"bltz", "bgez"} /\ word.reg = "zero" -> IF word.op = "bgez" THEN "taken" ELSE "never"
    [] OTHER -> "both"

(***************************************************************************)
(* cfg.py.  A function is [va, words, missing]: words of the body that the *)
(* payload lacks are missing.                                              *)
(***************************************************************************)
Body(f) == f.va .. f.va + Len(f.words) - 1
WordAt(f, va) == f.words[va - f.va + 1]
ControlAt(f, va) == DecodeControl(va, WordAt(f, va))
Sites(f) == {va \in Body(f) : ControlAt(f, va).kind # "none"}
SlotOwners(f) == {va \in Sites(f) : ControlAt(f, va).delay}
DelaySlots(f) == {va + 1 : va \in SlotOwners(f)} \cap Body(f)
Candidates(f) ==
  {f.va} \cup (({ControlAt(f, va).target : va \in Sites(f)}
                \cup {After(va, ControlAt(f, va)) : va \in {s \in Sites(f) : TerminatesBlock(ControlAt(f, s))}}) \cap Body(f))
Leaders(f) == Candidates(f) \ DelaySlots(f)
StaticIssues(f) ==
  [extent |-> f.missing > 0, slot |-> \E va \in SlotOwners(f) : va + 1 \notin Body(f),
   annulled |-> \E va \in Sites(f) : ControlAt(f, va).annulled,
   nested |-> DelaySlots(f) \cap Sites(f) # {}, entered |-> Candidates(f) \cap DelaySlots(f) # {}]

\* A block runs to the next leader or through the slot of its first terminating transfer.
Bound(f, leaders, start) == CHOOSE b \in leaders \cup {f.va + Len(f.words)} :
                              b > start /\ \A l \in leaders : l > start => b <= l
EndOf(f, start, bound) ==
  LET Ends(va) == va \in start .. bound - 1 /\ TerminatesBlock(ControlAt(f, va))
      last == CHOOSE va \in start .. bound : va = bound \/ (Ends(va) /\ \A w \in start .. va - 1 : ~Ends(w))
  IN IF last = bound THEN bound
     ELSE IF ControlAt(f, last).delay /\ last + 1 \in Body(f) THEN last + 2 ELSE last + 1
BlocksFrom(f, leaders) ==
  LET starts == SetToSortSeq(leaders, <)
  IN [n \in DOMAIN starts |-> [start |-> starts[n], end |-> EndOf(f, starts[n], Bound(f, leaders, starts[n]))]]
Blocks(f) == BlocksFrom(f, Leaders(f))
Inside(block) == block.start .. block.end - 1
BlockFor(blocks, va) ==
  LET owners == {n \in DOMAIN blocks : va \in Inside(blocks[n])}
  IN IF va = None \/ owners = {} THEN None ELSE CHOOSE n \in owners : \A m \in owners : n <= m

Edge(source, site, kind, target, to) == [source |-> source, site |-> site, kind |-> kind, target |-> target, to |-> to]
CallEdges(f, blocks, n) ==
  LET calls == SetToSortSeq({va \in Inside(blocks[n]) : ControlAt(f, va).call}, <)
      EdgeOf(va) == LET c == ControlAt(f, va)
                    IN IF c.kind = "indirect-call" THEN Edge(n, va, c.kind, None, None)
                       ELSE Edge(n, va, "call", c.target, BlockFor(blocks, c.target))
  IN [i \in DOMAIN calls |-> EdgeOf(calls[i])]
\* Mutant: a call on a condition ends its block like a jump.
ContinuesBranch(f, c, word) == c.kind = "branch" /\ Outcome(word) # "taken"
Continues(f, c, word) == c.kind \in {"branch", "call"} /\ ~(c.kind = "branch" /\ Outcome(word) = "taken")
Fall(blocks, n, from, target) == <<Edge(n, from, "fallthrough", target, BlockFor(blocks, target))>>
TransferEdges(f, blocks, functions, n, site, c, to) ==
  (IF c.kind = "branch" /\ Outcome(WordAt(f, site)) # "never"
   THEN <<Edge(n, site, IF to # None THEN "taken" ELSE "taken-external", c.target, to)>> ELSE <<>>)
  \o (IF Continues(f, c, WordAt(f, site)) /\ BlockFor(blocks, After(site, c)) # None
      THEN Fall(blocks, n, site, After(site, c)) ELSE <<>>)
  \o (IF c.kind = "jump"
      THEN <<Edge(n, site, IF to # None THEN "jump" ELSE IF c.target \in functions THEN "tail" ELSE "jump-external",
                  c.target, to)>>
      ELSE IF c.kind \in {"return", "indirect-jump", "trap"} THEN <<Edge(n, site, c.kind, None, None)>> ELSE <<>>)
BlockEdges(f, blocks, functions, n) ==
  LET block == blocks[n]
      terminals == {va \in Inside(block) : TerminatesBlock(ControlAt(f, va))}
      terminal == CHOOSE va \in terminals : \A w \in terminals : w <= va
      Transfer(site) == TransferEdges(f, blocks, functions, n, site, ControlAt(f, site), BlockFor(blocks, ControlAt(f, site).target))
  IN CallEdges(f, blocks, n) \o
     IF terminals # {} THEN Transfer(terminal)
     ELSE IF n < Len(blocks) /\ block.end = blocks[n + 1].start THEN Fall(blocks, n, block.end - 1, block.end) ELSE <<>>
Edges(f, blocks, functions) == [n \in DOMAIN blocks |-> BlockEdges(f, blocks, functions, n)]

Successors(edges, n) == {edges[n][i].to : i \in DOMAIN edges[n]} \ {None}
Closure(edges, from) ==
  LET Step(reached, k) == reached \cup UNION {Successors(edges, n) : n \in reached}
  IN FoldLeft(Step, from, [k \in DOMAIN edges |-> k])
Reachable(edges) == IF edges = <<>> THEN {} ELSE Closure(edges, {1})
Predecessors(edges, n) ==
  {m \in DOMAIN edges : \E i \in DOMAIN edges[m] : edges[m][i].to = n /\ edges[m][i].kind # "call"}
Indirect(edges, n) == \E i \in DOMAIN edges[n] : edges[n][i].kind = "indirect-jump"
Complete(f, edges, reachable) ==
  f.words # <<>> /\ TRUE \notin Range(StaticIssues(f)) /\ \A n \in reachable : ~Indirect(edges, n)
Flags(edges, n, complete, reached) ==
  [unreachable |-> complete /\ ~reached, unknown |-> ~complete /\ ~reached,
   unresolved |-> Indirect(edges, n), loop |-> \E m \in Predecessors(edges, n) : m > n]
Graph(f, blocks, edges, reachable, complete) ==
  [function |-> f, blocks |-> blocks, edges |-> edges, issues |-> ~complete,
   flags |-> [n \in DOMAIN blocks |-> Flags(edges, n, complete, n \in reachable)]]
BuildGraph(f, functions) ==
  LET From(blocks, edges, reachable) == Graph(f, blocks, edges, reachable, Complete(f, edges, reachable))
      Over(blocks, edges) == From(blocks, edges, Reachable(edges))
      Of(blocks) == Over(blocks, Edges(f, blocks, functions))
  IN Of(Blocks(f))

(***************************************************************************)
(* trial_flow.py.  An object is [words, value, size, functions, relocs]:   *)
(* one text section, the function's symbol in it, the other functions of   *)
(* the section and the relocations of its words, [offset, kind, symbol].   *)
(* A symbol is [name, local, value]; a "section" symbol stands for .text.  *)
(***************************************************************************)
Owners(object, local) == {g \in object.functions : g.value <= local /\ local < g.value + g.size}
\* The address a jump of the section means, or None where the code refuses it.
Destination(object, va, reloc, word, addresses) ==
  LET local == reloc.symbol.value + word.field
      owners == Owners(object, local)
      owner == CHOOSE g \in owners : TRUE
      section == reloc.symbol.name = "section"
      name == IF section THEN owner.name ELSE reloc.symbol.name
      addend == IF section THEN local - owner.value ELSE word.field
      placed == addresses[name]
      outside == (CHOOSE a \in placed : TRUE) + addend
  IN IF reloc.symbol.local /\ object.value <= local /\ local < object.value + object.size THEN va + local - object.value
     ELSE IF (section /\ Cardinality(owners) # 1) \/ Cardinality(placed) # 1 THEN None
     ELSE IF va <= outside /\ outside < va + object.size THEN None ELSE outside
Refusals(object, va, addresses) ==
  LET mine == {r \in object.relocs : object.value <= r.offset /\ r.offset < object.value + object.size}
      At(r) == object.words[r.offset + 1]
      site(r) == va + r.offset - object.value
  IN {r \in mine : IF r.kind # "R_MIPS_26" THEN DecodeControl(site(r), At(r)).kind # "none"
                   ELSE \/ ~IsTransfer(At(r)) \/ \E q \in mine : q # r /\ q.offset = r.offset
                        \/ LET d == Destination(object, va, r, At(r), addresses)
                           IN d = None \/ d \div JumpWindow # (site(r) + 1) \div JumpWindow}
PlacedWords(object, va, addresses) ==
  [k \in 1 .. object.size |->
    LET word == object.words[object.value + k]
        relocs == {r \in object.relocs : r.offset = object.value + k - 1 /\ r.kind = "R_MIPS_26"}
        r == CHOOSE q \in relocs : TRUE
    IN IF relocs = {} THEN word
       ELSE [word EXCEPT !.field = Destination(object, va, r, word, addresses) % JumpWindow]]
ObjectFlow(object, va, fragments, functions, addresses) ==
  LET unproven == \E k \in 1 .. object.size :
                    /\ IsTransfer(object.words[object.value + k])
                    /\ ~\E r \in object.relocs : r.kind = "R_MIPS_26" /\ r.offset = object.value + k - 1
      extent == object.size > 0 /\ object.value + object.size <= Len(object.words)
  IN IF ~extent \/ fragments # 1 \/ unproven \/ Refusals(object, va, addresses) # {} THEN [graph |-> FALSE]
     ELSE [graph |-> TRUE, built |-> BuildGraph([va |-> va, words |-> PlacedWords(object, va, addresses), missing |-> 0],
                                                functions)]

(***************************************************************************)
(* compare_flow: blocks are compared by number, words by what the operands *)
(* of their transfer are.                                                  *)
(***************************************************************************)
\* Mutant: a destination tells only whether it lies in the function.
WhereSide(graph, target) ==
  [block |-> IF BlockFor(graph.blocks, target) = None THEN None ELSE 1, at |-> 0]
Where(graph, target) ==
  LET n == BlockFor(graph.blocks, target)
  IN IF n = None THEN [block |-> None, at |-> target] ELSE [block |-> n, at |-> target - graph.blocks[n].start]
Listed(graph) == [n \in DOMAIN graph.edges |->
  [i \in DOMAIN graph.edges[n] |-> <<graph.edges[n][i].kind, Where(graph, graph.edges[n][i].target)>>]]
Operands(word) == IF word.op \in Branches THEN [word EXCEPT !.target = 0]
                  ELSE IF IsTransfer(word) THEN [word EXCEPT !.field = 0] ELSE word
Controls(graph) ==
  LET f == graph.function
      Of(n) == LET sites == SetToSortSeq(Inside(graph.blocks[n]) \cap Sites(f), <)
               IN [i \in DOMAIN sites |-> <<n, ControlAt(f, sites[i]).kind, Operands(WordAt(f, sites[i])),
                                            Where(graph, ControlAt(f, sites[i]).target)>>]
  IN FlattenSeq([n \in DOMAIN graph.blocks |-> Of(n)])
ReturnFrontier(graph) ==
  LET Returns(n) == \E va \in Inside(graph.blocks[n]) \cap Sites(graph.function) : ControlAt(graph.function, va).kind = "return"
  IN {<<e.to, e.source, e.kind>> :
        e \in {x \in UNION {Range(graph.edges[n]) : n \in DOMAIN graph.edges} :
                 x.to # None /\ x.to # x.source /\ Returns(x.to)}}
CompareFlow(want, have) ==
  [frontiers |-> ReturnFrontier(want) # ReturnFrontier(have), edges |-> Listed(want) # Listed(have),
   controls |-> Controls(want) # Controls(have)]
==============================================================================
