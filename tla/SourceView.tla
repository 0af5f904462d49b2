----------------------------- MODULE SourceView -----------------------------
(***************************************************************************)
(* scripts/kf/clean_lexer.py, clean.py and clean_cpp.py: the source of the *)
(* reconstruction as it is exported, without comments, claims and the      *)
(* branches of the other view.                                             *)
(*                                                                         *)
(* A text is a sequence of characters that stand for their classes; a line *)
(* is [is, of, tokens], `is' a directive or "text"; a token is [is, of].   *)
(***************************************************************************)
EXTENDS Integers, Sequences, FiniteSets, SequencesExt

(***************************************************************************)
(* Comments and literals.                                                  *)
(***************************************************************************)
\* Characters: slash, star, quote, backslash, newline, a letter, the word of a licence notice.
Letter(text, i) == i <= Len(text) /\ text[i] \in {"a", "licence"}
Starts(text, i, pattern) == i + Len(pattern) - 1 <= Len(text) /\ SubSeq(text, i, i + Len(pattern) - 1) = pattern
Newline(text, i) == LET found == {j \in i .. Len(text) : text[j] = "newline"}
                    IN IF found = {} THEN Len(text) + 1 ELSE CHOOSE j \in found : \A k \in found : j <= k
\* Where a line comment ends: before the first newline that no backslash splices.
RECURSIVE LineEnd(_, _, _)
LineEnd(text, i, rust) ==
  IF ~rust /\ i <= Len(text) /\ text[i - 1] = "backslash" THEN LineEnd(text, Newline(text, i + 1), rust) ELSE i
\* Behind a block comment; Rust's nest.  0: it never ends.
RECURSIVE BlockEnd(_, _, _, _)
BlockEnd(text, i, depth, rust) ==
  IF depth = 0 THEN i
  ELSE IF i > Len(text) THEN 0
  ELSE IF rust /\ Starts(text, i, <<"slash", "star">>) THEN BlockEnd(text, i + 2, depth + 1, rust)
  ELSE IF Starts(text, i, <<"star", "slash">>) THEN BlockEnd(text, i + 2, depth - 1, rust)
  ELSE BlockEnd(text, i + 1, depth, rust)
\* Mutant: an escaped quote ends the literal.
RECURSIVE QuoteEndUnescaped(_, _)
QuoteEndUnescaped(text, i) ==
  IF i > Len(text) THEN 0 ELSE IF text[i] = "quote" THEN i + 1 ELSE QuoteEndUnescaped(text, i + 1)
RECURSIVE QuoteEnd(_, _)
QuoteEnd(text, i) ==
  IF i > Len(text) THEN 0 ELSE IF text[i] = "quote" THEN i + 1 ELSE QuoteEnd(text, i + IF text[i] = "backslash" THEN 2 ELSE 1)
RECURSIVE WordEnd(_, _)
WordEnd(text, i) == IF Letter(text, i) THEN WordEnd(text, i + 1) ELSE i
\* The token at i: its kind and the character behind it.
TokenAt(text, i, rust) ==
  CASE Starts(text, i, <<"slash", "slash">>) -> <<"comment", LineEnd(text, Newline(text, i), rust)>>
    [] Starts(text, i, <<"slash", "star">>) -> <<"comment", BlockEnd(text, i + 2, 1, rust)>>
    [] text[i] = "quote" -> <<"literal", QuoteEnd(text, i + 1)>>
    [] Letter(text, i) -> <<"word", WordEnd(text, i)>>
    [] OTHER -> <<"punctuation", i + 1>>
Unterminated == <<[is |-> "unterminated", of |-> <<>>]>>
RECURSIVE TokensFrom(_, _, _)
TokensFrom(text, i, rust) ==
  IF i > Len(text) THEN <<>>
  ELSE LET token == TokenAt(text, i, rust)
       IN IF token[2] = 0 THEN Unterminated
          ELSE <<[is |-> token[1], of |-> SubSeq(text, i, token[2] - 1)]>> \o TokensFrom(text, token[2], rust)
Tokens(text, rust) == TokensFrom(text, 1, rust)
Whole(tokens) == \A t \in Range(tokens) : t.is # "unterminated"
Licence(spelling) == "licence" \in Range(spelling)
Newlines(spelling) == SelectSeq(spelling, LAMBDA c : c = "newline")
StripComments(tokens) ==
  FlattenSeq([n \in DOMAIN tokens |-> IF tokens[n].is = "comment" /\ ~Licence(tokens[n].of) THEN <<"space">> \o Newlines(tokens[n].of) ELSE tokens[n].of])

(***************************************************************************)
(* Conditionals.  What a condition says: "modern", "classic", "cplusplus", *)
(* "mixed" (KF_MODERN_TYPES with anything else), or another name.          *)
(***************************************************************************)
Opening == {"if", "ifdef", "ifndef"}
Arms == {"else", "elif"}
\* "open" is left to the exported build, "mixed" is refused.
CCondition(of, modern) ==
  CASE of \in {"modern", "cplusplus"} -> IF modern THEN "holds" ELSE "fails"
    [] of = "classic" -> IF modern THEN "fails" ELSE "holds"
    [] of = "mixed" -> "mixed"
    [] OTHER -> "open"
\* A frame of the stack: whether it is resolved, its arm is on, and an arm has been.
Frame(condition) ==
  [resolved |-> condition \in {"holds", "fails"}, on |-> condition = "holds", taken |-> condition = "holds"]
Emit(s, line) == IF \A f \in Range(s.stack) : f.resolved => f.on THEN [s EXCEPT !.output = Append(@, line)] ELSE s
Fail(s) == [s EXCEPT !.failed = TRUE]
Open(s, line, modern) ==
  LET condition == IF line.is = "if" THEN CCondition(line.of, modern) ELSE "open"
      pushed == [s EXCEPT !.stack = Append(@, Frame(condition))]
  IN CASE condition = "mixed" -> Fail(s)
       [] condition = "open" -> Emit(pushed, line)
       [] OTHER -> pushed
\* Mutant: the arm that was taken is forgotten, so a later one is taken too.
TurnedAnyway(frame, condition) == [frame EXCEPT !.on = condition = "holds", !.taken = condition = "holds"]
Turned(frame, condition) ==
  LET on == ~frame.taken /\ condition = "holds" IN [frame EXCEPT !.on = on, !.taken = @ \/ on]
Arm(s, line, modern) ==
  LET condition == IF line.is = "else" THEN "holds" ELSE CCondition(line.of, modern)
  IN IF s.stack = <<>> THEN Fail(s)
     ELSE IF ~Last(s.stack).resolved THEN Emit(s, line)
     ELSE IF condition \in {"open", "mixed"} THEN Fail(s)
     ELSE [s EXCEPT !.stack[Len(s.stack)] = Turned(@, condition)]
Close(s, line) ==
  IF s.stack = <<>> THEN Fail(s)
  ELSE LET popped == [s EXCEPT !.stack = Front(@)] IN IF Last(s.stack).resolved THEN popped ELSE Emit(popped, line)
ResolveLine(s, line, modern) ==
  CASE line.is \in Opening -> Open(s, line, modern)
    [] line.is \in Arms -> Arm(s, line, modern)
    [] line.is = "endif" -> Close(s, line)
    [] OTHER -> Emit(s, line)
ResolveConditionals(lines, modern) ==
  LET end == FoldLeft(LAMBDA s, line : IF s.failed THEN s ELSE ResolveLine(s, line, modern), [stack |-> <<>>, output |-> <<>>, failed |-> FALSE], lines)
  IN [output |-> end.output, failed |-> end.failed \/ end.stack # <<>>]

(***************************************************************************)
(* Macro calls.  A rule is [arity, body]; a token "argument" of the body   *)
(* stands for the argument of its number.                                  *)
(***************************************************************************)
Token(is, of) == [is |-> is, of |-> of]
Refused == [output |-> <<>>, failed |-> TRUE]
Pairs == [paren |-> "paren", bracket |-> "bracket"]
\* Mutant: every comma inside the call parts its arguments.
PartsAnywhere(stack) == TRUE
\* A comma parts the arguments if it is in no bracket but the call's.
Parts(stack) == Len(stack) = 1
\* The call that opens at `at': its open brackets part after part, the places of its commas and its end.
Scan(parts, at) ==
  FoldLeft(LAMBDA s, n :
             LET part == parts[n]
             IN IF s.end # 0 \/ s.failed THEN s
                ELSE IF part.is = "open" THEN [s EXCEPT !.stack = Append(@, part.of)]
                ELSE IF part.is = "close" THEN
                  IF Last(s.stack) # part.of THEN [s EXCEPT !.failed = TRUE]
                  ELSE IF Len(s.stack) = 1 THEN [s EXCEPT !.end = n, !.cuts = Append(@, n)]
                  ELSE [s EXCEPT !.stack = Front(@)]
                ELSE IF part.is = "comma" /\ Parts(s.stack) THEN [s EXCEPT !.cuts = Append(@, n)]
                ELSE s,
           [stack |-> <<"paren">>, cuts |-> <<at>>, end |-> 0, failed |-> FALSE], [k \in 1 .. Len(parts) - at |-> at + k])
Filled(body, arguments) == FlattenSeq([n \in DOMAIN body |-> IF body[n].is = "argument" THEN arguments[body[n].of].output ELSE <<body[n]>>])
RECURSIVE RewriteCalls(_, _)
RewriteCalls(parts, rules) ==
  LET Rest(n) == RewriteCalls(SubSeq(parts, n, Len(parts)), rules)
      Join(left, right) == [output |-> left \o right.output, failed |-> right.failed]
  IN IF parts = <<>> THEN [output |-> <<>>, failed |-> FALSE]
     ELSE IF parts[1].is # "word" \/ parts[1].of \notin DOMAIN rules THEN Join(<<parts[1]>>, Rest(2))
     ELSE IF Len(parts) = 1 \/ parts[2] # Token("open", "paren") THEN Refused
     ELSE LET scan == Scan(parts, 2)
              rule == rules[parts[1].of]
              arguments == [n \in 1 .. Len(scan.cuts) - 1 |-> RewriteCalls(SubSeq(parts, scan.cuts[n] + 1, scan.cuts[n + 1] - 1), rules)]
          IN IF scan.failed \/ scan.end = 0 \/ (\E a \in Range(arguments) : a.failed) \/ Len(arguments) # rule.arity THEN Refused
             ELSE Join(Filled(rule.body, arguments), Rest(scan.end + 1))

(***************************************************************************)
(* A file, and the tree of an export.                                      *)
(***************************************************************************)
\* The words that must not survive: claims, the macros of domains, the views' names.
Scaffolding == {"ADDRESS", "KF_ENUM_PARAM", "KF_ENUM_DECODE", "KF_ENUM_NEW", "KF_MODERN_TYPES", "KF_MENU_LIST_IMPLEMENTATION"}
\* What a directive that stays spells.
Spelled(line) ==
  IF line.is = "text" THEN line.tokens
  ELSE <<Token("word", line.is)>> \o IF line.of \in {"modern", "classic", "mixed"} THEN <<Token("word", "KF_MODERN_TYPES")>> ELSE <<Token("word", line.of)>>
\* Includes of the scaffold's headers, definitions of a view's names and of argument wrappers.
Support(line) == line.is = "text" /\ line.of # ""
Clean(lines, modern, rules) ==
  LET selected == ResolveConditionals(lines, modern)
      kept == SelectSeq(selected.output, LAMBDA line : ~Support(line))
      rewritten == RewriteCalls(FlattenSeq([n \in DOMAIN kept |-> Spelled(kept[n])]), rules)
  IN IF selected.failed \/ rewritten.failed \/ \E t \in Range(rewritten.output) : t.is = "word" /\ t.of \in Scaffolding
     THEN Refused ELSE rewritten

(***************************************************************************)
(* The allowlist.  A tree is [units, files]; a name <<stem, extension>>; a *)
(* unit [source, vendored, image, supported]; a file [kind, lines].        *)
(***************************************************************************)
Images == {"PSX", "GAME", "OPEN"}
OfKinds(tree, kinds) == {n \in DOMAIN tree.files : tree.files[n].kind \in kinds}
\* Mutant: vendored bodies are exported too.
AllUnits(tree) == tree.units
OwnUnits(tree) == {u \in tree.units : ~u.vendored}
SourceNames(tree) == {u.source : u \in OwnUnits(tree)} \cup OfKinds(tree, {"header", "fragment"})
\* Copied as they are, and only for C++; the header of domains is made anew from its C++ half.
Copied(tree, modern) == OfKinds(tree, {"template", "builder"} \cup IF modern THEN {"codec", "bridge", "domains"} ELSE {})
CppName(name) == IF name[2] = "c" THEN <<name[1], "cpp">> ELSE name
Target(name, modern) == IF modern THEN CppName(name) ELSE name
View(tree, rules, name, modern) == Clean(tree.files[name].lines, modern, rules[modern])
\* The C view is made first and the C++ view after it; a file that either refuses ends both.
Cleaned(tree, modern, rules) ==
  /\ \A name \in SourceNames(tree), view \in IF modern THEN BOOLEAN ELSE {FALSE} : ~View(tree, rules, name, view).failed
  /\ \A image \in Images : \E u \in OwnUnits(tree) : u.image = image
  /\ \A u \in OwnUnits(tree) : u.supported
AsItIs(file) == FlattenSeq([n \in DOMAIN file.lines |-> file.lines[n].tokens])
Generate(tree, modern, rules) ==
  LET sources == {Target(name, modern) : name \in SourceNames(tree)}
      names == sources \cup Copied(tree, modern)
      Exported(name) == IF name \in sources THEN View(tree, rules, CHOOSE n \in SourceNames(tree) : Target(n, modern) = name, modern).output
                        ELSE AsItIs(tree.files[name])
  IN IF ~Cleaned(tree, modern, rules) \/ \E name \in names : name[1] = "tests" THEN <<>> ELSE <<[name \in names |-> Exported(name)]>>
=============================================================================
