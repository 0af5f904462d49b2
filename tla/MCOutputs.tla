------------------------------ MODULE MCOutputs ------------------------------
EXTENDS SourceView, Export, Disc, TLC
(***************************************************************************)
(* Texts.                                                                  *)
(***************************************************************************)
Characters == {"slash", "star", "quote", "backslash", "newline", "a", "licence"}
TextInput(in) == \E n \in 0 .. 5 : \E text \in [1 .. n -> Characters], rust \in BOOLEAN : in = <<text, rust>>
\* The class of every character, read one after another.
Read(text, i, s, rust) ==
  LET c == text[i]
      Then(next) == i < Len(text) /\ text[i + 1] = next
      Class(class, mode, skip, depth) == [classes |-> Append(s.classes, class), mode |-> mode, skip |-> skip, depth |-> depth]
  IN CASE s.skip -> Class(IF s.mode = "code" THEN "comment" ELSE IF s.mode = "quote" THEN "literal" ELSE "comment", s.mode, FALSE, s.depth)
       [] s.mode = "line" -> IF c = "newline" /\ (rust \/ text[i - 1] # "backslash") THEN Class("code", "code", FALSE, 0) ELSE Class("comment", "line", FALSE, 0)
       [] s.mode = "block" /\ c = "star" /\ Then("slash") -> Class("comment", IF s.depth = 1 THEN "code" ELSE "block", TRUE, s.depth - 1)
       [] s.mode = "block" /\ rust /\ c = "slash" /\ Then("star") -> Class("comment", "block", TRUE, s.depth + 1)
       [] s.mode = "block" -> Class("comment", "block", FALSE, s.depth)
       [] s.mode = "quote" /\ c = "backslash" -> Class("literal", "quote", TRUE, 0)
       [] s.mode = "quote" -> Class("literal", IF c = "quote" THEN "code" ELSE "quote", FALSE, 0)
       [] c = "slash" /\ Then("slash") -> Class("comment", "line", TRUE, 0)
       [] c = "slash" /\ Then("star") -> Class("comment", "block", TRUE, 1)
       [] c = "quote" -> Class("literal", "quote", FALSE, 0)
       [] OTHER -> Class("code", "code", FALSE, 0)
ReadAll(text, rust) ==
  FoldLeft(LAMBDA s, i : Read(text, i, s, rust), [classes |-> <<>>, mode |-> "code", skip |-> FALSE, depth |-> 0], [i \in 1 .. Len(text) |-> i])
Of(token) == IF token.is \in {"comment", "literal"} THEN token.is ELSE "code"
Plain(tokens) == SelectSeq(tokens, LAMBDA t : t.is # "comment" /\ t.of \notin {<<"space">>, <<"newline">>})
Lines(text) == Len(Newlines(text))
Notices(tokens) == SelectSeq(tokens, LAMBDA t : t.is = "comment" /\ Licence(t.of))
TokensHold(text, rust, tokens, read) ==
  /\ Whole(tokens) <=> read.mode \in {"code", "line"}
  /\ Whole(tokens) =>
       LET stripped == StripComments(tokens)
           again == Tokens(stripped, rust)
       IN /\ FlattenSeq([n \in DOMAIN tokens |-> tokens[n].of]) = text
          /\ FlattenSeq([n \in DOMAIN tokens |-> [k \in DOMAIN tokens[n].of |-> Of(tokens[n])]]) = read.classes
          /\ Plain(again) = Plain(tokens) /\ Lines(stripped) = Lines(text)
          /\ SelectSeq(again, LAMBDA t : t.is = "comment") = Notices(tokens)
TextIsKept(in) == TokensHold(in[1], in[2], Tokens(in[1], in[2]), ReadAll(in[1], in[2]))

(***************************************************************************)
(* Conditionals.                                                           *)
(***************************************************************************)
Directive(is, of) == [is |-> is, of |-> of, tokens |-> <<>>]
Text(n) == [is |-> "text", of |-> "", tokens |-> <<Token("word", ToString(n))>>]
Directives == {Directive("if", "modern"), Directive("if", "classic"), Directive("ifdef", "X"), Directive("elif", "classic"),
               Directive("else", ""), Directive("endif", "")}
Rare == Directives \cup {Directive("if", "mixed"), Directive("elif", "Y"), Directive("elif", "mixed"), Directive("if", "Y"), Directive("if", "cplusplus")}
Spaced(directives) == [n \in 1 .. 2 * Len(directives) + 1 |-> IF n % 2 = 0 THEN directives[n \div 2] ELSE Text(n)]
Depth(lines, n) ==
  Cardinality({k \in 1 .. n : lines[k].is \in Opening}) - Cardinality({k \in 1 .. n : lines[k].is = "endif"})
Balanced(lines) ==
  /\ Depth(lines, Len(lines)) = 0 /\ \A n \in DOMAIN lines : Depth(lines, n) >= 0
  /\ \A n \in DOMAIN lines : lines[n].is \in Arms => Depth(lines, n) > 0
ViewInput(in) ==
  \/ \E n \in {5, 6} : \E directives \in {d \in [1 .. n -> Directives] : d[1].is \in Opening /\ d[n].is = "endif" /\ Balanced(d)}, modern \in BOOLEAN : in = <<Spaced(directives), modern>>
  \/ \E n \in 0 .. 4 : \E directives \in [1 .. n -> Rare], modern \in BOOLEAN : in = <<Spaced(directives), modern>>
\* What a preprocessor keeps: in every group that is open at a line, the line's arm is the first that holds.
Kept(lines, holds) ==
  LET EndOf(o) == CHOOSE e \in o + 1 .. Len(lines) : Depth(lines, e) = Depth(lines, o) - 1 /\ \A k \in o .. e - 1 : Depth(lines, k) >= Depth(lines, o)
      ArmsOf(o) == {o} \cup {k \in o + 1 .. EndOf(o) - 1 : lines[k].is \in Arms /\ Depth(lines, k) = Depth(lines, o)}
      Holds(k) == lines[k].is = "else" \/ holds[lines[k].of]
      On(o, n) == \E k \in ArmsOf(o) : k < n /\ (\A j \in ArmsOf(o) : j > k => j > n) /\ Holds(k) /\ \A j \in ArmsOf(o) : j < k => ~Holds(j)
  IN SelectSeq([n \in DOMAIN lines |-> n], LAMBDA n : lines[n].is = "text" /\ \A o \in 1 .. n : lines[o].is \in Opening /\ EndOf(o) > n => On(o, n))
KeptTexts(lines, holds) == LET kept == Kept(lines, holds) IN [k \in DOMAIN kept |-> lines[kept[k]]]
Condition(modern, x, y, mixed) == [c \in {"modern", "classic", "cplusplus", "X", "Y", "mixed"} |->
  CASE c \in {"modern", "cplusplus"} -> modern [] c = "classic" -> ~modern [] c = "X" -> x [] c = "Y" -> y [] OTHER -> mixed]
ViewHolds(lines, modern, resolved) ==
  /\ ~Balanced(lines) => resolved.failed
  /\ Balanced(lines) /\ (\A line \in Range(lines) : line.of # "mixed" /\ (line.is = "elif" => line.of # "Y")) => ~resolved.failed
  /\ ~resolved.failed => /\ Balanced(resolved.output)
                         /\ \A x, y, mixed \in BOOLEAN : KeptTexts(lines, Condition(modern, x, y, mixed)) = KeptTexts(resolved.output, Condition(modern, x, y, mixed))
ViewIsKept(in) == ViewHolds(in[1], in[2], ResolveConditionals(in[1], in[2]))

(***************************************************************************)
(* Macro calls: trees, what they print and what they expand to.            *)
(***************************************************************************)
Argument(n) == Token("argument", n)
Enclosed(tokens, bracket) == <<Token("open", bracket)>> \o tokens \o <<Token("close", bracket)>>
Decode == Enclosed(Enclosed(<<Argument(1)>>, "paren") \o Enclosed(<<Argument(2)>>, "paren"), "paren")
CRules == [name \in {"ADDRESS", "KF_ENUM_PARAM", "KF_ENUM_DECODE"} |->
  [arity |-> 2, body |-> CASE name = "ADDRESS" -> <<>> [] name = "KF_ENUM_PARAM" -> <<Argument(2)>> [] OTHER -> Decode]]
CppRules == [CRules EXCEPT !["KF_ENUM_PARAM"] = [arity |-> 2, body |-> <<Argument(1)>>]]
Rules == [modern \in BOOLEAN |-> IF modern THEN CppRules ELSE CRules]
Node(kind, of, kids) == [kind |-> kind, of |-> of, kids |-> kids]
Word(w) == Node("word", w, <<>>)
Literal == Node("literal", "s", <<>>)
Group(bracket, kids) == Node("group", bracket, kids)
Call(name, kids) == Node("call", name, kids)
Leaves == {<<>>, <<Word("a")>>, <<Literal, Word("b")>>}
Inner == {Group(bracket, kids) : bracket \in {"paren", "bracket"}, kids \in {<<x, y>> : x, y \in Leaves}}
         \cup {Call(name, kids) : name \in {"ADDRESS", "KF_ENUM_DECODE"}, kids \in {<<x, y>> : x, y \in Leaves} \cup {<<x>> : x \in Leaves}}
Pieces == Leaves \cup {<<x>> : x \in Inner} \cup {<<Word("f"), x>> : x \in Inner}
Trees == {<<Call("KF_ENUM_PARAM", <<x, y>>)>> : x \in Pieces, y \in {p \in Pieces : Len(p) < 2}}
         \cup {<<Word("f"), Group("paren", <<x, <<Word("c")>>>>), Call("KF_ENUM_DECODE", <<y, <<Word("d")>>, z>>)>> : x, y \in Pieces, z \in {<<>>}}
         \cup {<<Word("f"), Group("paren", <<x, <<Word("c")>>>>), Call("KF_ENUM_DECODE", <<y, <<Word("d")>>>>), Word("e")>> : x, y \in {p \in Pieces : Len(p) < 2}}
         \cup {<<Word("a"), Word("ADDRESS")>>, <<Word("ADDRESS"), Word("a")>>}
RECURSIVE PrintAll(_), ExpandAll(_), Meant(_)
Separated(kids) == FlattenSeq([n \in DOMAIN kids |-> IF n = 1 THEN kids[n] ELSE <<Token("comma", "")>> \o kids[n]])
PrintAll(nodes) ==
  FlattenSeq([n \in DOMAIN nodes |->
    LET node == nodes[n]
        inside == Separated([k \in DOMAIN node.kids |-> PrintAll(node.kids[k])])
    IN CASE node.kind \in {"word", "literal"} -> <<Token(node.kind, node.of)>>
         [] node.kind = "group" -> Enclosed(inside, node.of)
         [] OTHER -> <<Token("word", node.of)>> \o Enclosed(inside, "paren")])
ExpandAll(nodes) ==
  FlattenSeq([n \in DOMAIN nodes |->
    LET node == nodes[n]
        kids == [k \in DOMAIN node.kids |-> ExpandAll(node.kids[k])]
    IN CASE node.kind \in {"word", "literal"} -> <<Token(node.kind, node.of)>>
         [] node.kind = "group" -> Enclosed(Separated(kids), node.of)
         [] node.of = "ADDRESS" -> <<>>
         [] node.of = "KF_ENUM_PARAM" -> kids[2]
         [] OTHER -> Enclosed(Enclosed(kids[1], "paren") \o Enclosed(kids[2], "paren"), "paren")])
\* Every macro has its two arguments, and none is named without a call.
Meant(nodes) ==
  \A n \in DOMAIN nodes :
    /\ nodes[n].kind = "call" => Len(nodes[n].kids) = 2
    /\ nodes[n].kind = "word" => nodes[n].of \notin DOMAIN CRules
    /\ \A k \in DOMAIN nodes[n].kids : Meant(nodes[n].kids[k])
CallInput(in) == \E tree \in Trees, cut \in BOOLEAN : in = <<tree, cut>>
\* A tree that ends in a call is refused without its last bracket.
CallsHold(tree, tokens, cut, result) ==
  IF cut THEN tree[Len(tree)].kind = "call" => result.failed
  ELSE IF Meant(tree) THEN result = [output |-> ExpandAll(tree), failed |-> FALSE] ELSE result.failed
CallsMeanTheirBodies(in) ==
  LET tokens == PrintAll(in[1]) IN CallsHold(in[1], tokens, in[2], RewriteCalls(IF in[2] THEN Front(tokens) ELSE tokens, CRules))

(***************************************************************************)
(* Trees of files.                                                         *)
(***************************************************************************)
File(kind, lines) == [kind |-> kind, lines |-> lines]
Line(tokens) == [is |-> "text", of |-> "", tokens |-> tokens]
Claim == Line(PrintAll(<<Call("ADDRESS", <<<<Word("x")>>, <<Word("y")>>>>)>>))
Unknown == Line(<<Token("word", "KF_ENUM_NEW")>>)
Views(n) == <<Directive("if", "modern"), Text(n), Directive("else", ""), Text(-n), Directive("endif", "")>>
Name(stem) == <<stem, IF stem \in {"psx", "game", "open", "lib", "tests"} THEN "c" ELSE "h">>
Units(last, supported) ==
  {[source |-> Name(s[1]), image |-> s[2], vendored |-> FALSE, supported |-> supported] : s \in {<<"psx", "PSX">>, <<"game", "GAME">>, <<last, "OPEN">>}}
  \cup {[source |-> Name("lib"), image |-> "OPEN", vendored |-> TRUE, supported |-> supported]}
Kinds == [psx |-> "unit", game |-> "unit", open |-> "unit", lib |-> "unit", tests |-> "unit", types |-> "header", parts |-> "fragment",
          enum |-> "domains", flake |-> "template", codec |-> "codec", clang |-> "bridge", notes |-> "other"]
TreeOf(stems, units, Lined(_)) ==
  [units |-> units, files |-> [n \in {Name(s) : s \in stems} |-> File(Kinds[n[1]], Lined(n[1]))]]
Every == DOMAIN Kinds
Mistakes == {"none", "claim", "unknown", "modern only", "unbalanced"}
Mistaken(mistake) ==
  CASE mistake = "none" -> Views(3) [] mistake = "claim" -> <<Claim>> \o Views(4) [] mistake = "unknown" -> <<Unknown>>
    [] mistake = "modern only" -> <<Directive("if", "modern"), Unknown, Directive("endif", "")>> [] OTHER -> <<Directive("if", "X")>>
TreeInput(in) ==
  \E stems \in {Every, Every \ {"tests"}, Every \ {"types"}}, last \in {"open", "lib", "tests"}, supported \in BOOLEAN, modern \in BOOLEAN,
     where \in {"psx", "types", "lib", "notes"}, mistake \in Mistakes :
    /\ last # "tests" \/ "tests" \in stems
    /\ in = <<[TreeOf(stems, Units(last, supported), LAMBDA s : IF s = where THEN Mistaken(mistake) ELSE <<Line(<<Token("word", s)>>)>>)
                 EXCEPT !.units = IF last = "lib" THEN {u \in @ : u.vendored \/ u.source[1] # "lib"} ELSE @], modern, where, mistake, stems>>
TreeHolds(tree, modern, where, mistake, stems, result) ==
  LET refusedHere == where \in stems \ {"lib", "notes"} /\ (mistake \in {"unknown", "unbalanced"} \/ (modern /\ mistake = "modern only"))
      apart == \A image \in Images : \E u \in tree.units : ~u.vendored /\ u.image = image
      supported == \A u \in tree.units : u.supported
      testless == \A u \in tree.units : u.source[1] # "tests"
      exported == {IF modern THEN CppName(u.source) ELSE u.source : u \in {u \in tree.units : ~u.vendored}}
                  \cup {Name(s) : s \in stems \cap ({"types", "parts", "flake"} \cup IF modern THEN {"codec", "clang", "enum"} ELSE {})}
  IN /\ (result = <<>>) <=> refusedHere \/ ~apart \/ ~supported \/ ~testless
     /\ result # <<>> => /\ DOMAIN result[1] = exported
                         /\ \A n \in exported : \A t \in Range(result[1][n]) : t.of \notin Scaffolding
                         /\ where = "psx" /\ mistake \in {"none", "claim"} =>
                              LET k == IF mistake = "none" THEN 3 ELSE 4
                              IN result[1][IF modern THEN <<"psx", "cpp">> ELSE <<"psx", "c">>] = <<Token("word", ToString(IF modern THEN k ELSE -k))>>
TreeIsExported(in) == TreeHolds(in[1], in[2], in[3], in[4], in[5], Generate(in[1], in[2], Rules))

(***************************************************************************)
(* Publication.  The second commit retires a file and adds two, one of     *)
(* them of a name that is ignored; the working tree has an unknown macro.  *)
(***************************************************************************)
PlainTree(stems, n) == TreeOf(stems \cup {"psx", "game", "open", "lib"}, Units("open", TRUE), LAMBDA s : IF s = "game" THEN Views(n) ELSE <<Line(<<Token("word", s)>>)>>)
Generations(preview) ==
  <<Generate(PlainTree({"types"}, 1), TRUE, Rules), Generate(PlainTree({"codec"}, 2), TRUE, Rules)>> @@ (0 :> preview)
Previews == {Generate(PlainTree({}, 3), TRUE, Rules), <<>>}
Ignored == {Name("codec")}
Edited == {<<"game", "cpp">>, Name("codec"), Name("notes")}
\* No branch; an earlier export with ancestors; a branch that a person began.
Begun(generations) ==
  LET legacy == Commit(generations[1][1], TRUE, FALSE, 1)
      own == Commit([n \in {<<"game", "cpp">>} |-> Mine], FALSE, FALSE, 0)
  IN {<<NoTip, NoTree>>, <<own, NoTree>>, <<legacy, NoTree>>, <<legacy, [there |-> TRUE, files |-> legacy.files, index |-> legacy.files]>>}
ExportInput(in) ==
  \E generations \in {Generations(preview) : preview \in Previews} : \E begun \in Begun(generations) :
    in = Workspace(generations, begun[1], begun[2], NoDirectory)
PublicationSteps(b) == ExportSteps(b, Edited, Ignored)

(***************************************************************************)
(* Discs.                                                                  *)
(***************************************************************************)
\* Twelve sectors: the descriptor, a directory of two with a gap, the programs, two other files.
Order == <<"PSX.EXE", "GAME.EXE", "OPEN.EXE">>
Framed(cells, form, n) == [cells |-> cells, check |-> cells, form |-> form, address |-> n]
Entry1(name, lba, size, directory) == [name |-> name, lba |-> lba, size |-> size, directory |-> directory]
RetailCells == [n \in {"PSX.EXE", "GAME.EXE", "OPEN.EXE"} |-> CASE n = "PSX.EXE" -> <<Magic, 11>> [] n = "GAME.EXE" -> <<Magic, 12, 13, 14>> [] n = "OPEN.EXE" -> <<Magic, 15>>]
\* gap: where the directory's first sector ends; movie: the form of the other file's sector.
DiscOf(gap, movie) ==
  [n \in 0 .. 8 |->
    CASE n = 0 -> Framed(<<[root |-> 1, sectors |-> 2, total |-> 9]>>, 1, n)
      [] n = 1 -> Framed(<<Entry1("CD", 8, 2, TRUE), IF gap = 2 THEN Gap ELSE Entry1("GAME.EXE", 4, 4, FALSE), Entry1("STRAY.DAT", 7, 2, FALSE)>>, 1, n)
      [] n = 2 -> Framed(<<Entry1("PSX.EXE", 3, 2, FALSE), Entry1("OPEN.EXE", 6, 2, FALSE), IF gap = 2 THEN Entry1("GAME.EXE", 4, 4, FALSE) ELSE Gap, Gap>>, 1, n)
      [] n = 3 -> Framed(RetailCells["PSX.EXE"], 1, n)
      [] n = 4 -> Framed(SubSeq(RetailCells["GAME.EXE"], 1, 2), 1, n) [] n = 5 -> Framed(SubSeq(RetailCells["GAME.EXE"], 3, 4), 1, n)
      [] n = 6 -> Framed(RetailCells["OPEN.EXE"], 1, n) [] n = 7 -> Framed(<<21, 22>>, movie, n) [] n = 8 -> Framed(<<23, 24>>, 1, n)]
ProgramOf(mark, length) == [n \in 1 .. length |-> IF n = 1 THEN Magic ELSE mark + n]
Sets == {[n \in Programs |-> CASE n = "PSX.EXE" -> ProgramOf(30, p) [] n = "GAME.EXE" -> ProgramOf(40, g) [] n = "OPEN.EXE" -> ProgramOf(50, o)] :
           p \in {1, 2, 3}, g \in {2, 3, 4, 5}, o \in {2, 4, 7}}
Others == {RetailCells, [n \in Programs |-> ProgramOf(60, 3)], [n \in Programs |-> <<0, 0>>]}
DiscInput(in) ==
  \E gap \in {2, 3}, movie \in {1, 2}, first \in Sets, second \in Others, selected \in SUBSET Programs \cup {{"TITLE.EXE"}} :
    /\ in = [gap |-> gap, movie |-> movie, first |-> first, second |-> second, selected |-> selected]
    /\ selected = Programs \/ (gap = 2 /\ second = RetailCells)
Extents(retail) == [n \in Programs |-> [lba |-> IsoFiles(retail)[n].lba, cells |-> RetailCells[n]]]
\* The discs after a run with the first programs, then the second, then the first again, killed anywhere.
Final(in, retail) ==
  FoldLeft(LAMBDA from, programs : UNION {Prepare(one.discs, retail, retail, Order, programs) : one \in from},
           {Outcome(<<>>, FALSE)}, <<in.first, in.second, in.first>>)
Promised(in, retail, candidate, final, failed) ==
  LET fitting == \A n \in Programs : Len(in.first[n]) <= Len(RetailCells[n])
  IN /\ Mastered(retail) /\ Located(Extents(retail), retail)
     /\ (\E end \in final : end.done) <=> (\A n \in Programs : IsProgram(in.first[n])) /\ ~failed
     /\ \A end \in final :
          /\ AllCarry(end.discs) /\ \A key \in DOMAIN end.discs : key[1] = retail
          /\ end.done /\ fitting /\ in.selected = Programs => end.discs[Key(retail, in.first)] = candidate.raw
     /\ ~candidate.failed => Carries(candidate.raw, retail, Mixed(Extents(retail), in.selected, in.first))
     /\ \A programs \in {in.first, in.second} : \A end \in Prepare(<<>>, DiscOf(in.gap, 3 - in.movie), retail, Order, programs) : ~end.done
     /\ ~failed <=> fitting \/
          FoldLeft(LAMBDA n, name : n + (IF Len(in.first[name]) > Len(RetailCells[name]) THEN SectorsOf(Len(in.first[name])) ELSE 0), 9, Order) <= AddressEnd
DiscsCarryPrograms(in) ==
  LET Holds(retail) == Promised(in, retail, BuildCandidate(retail, Extents(retail), in.selected, Order, in.first),
                                Final(in, retail), Rebuilt(retail, Order, in.first).failed)
  IN Holds(DiscOf(in.gap, in.movie))
=============================================================================
