------------------------------ MODULE MCSources ------------------------------
EXTENDS Literals, Trials, Islands, TLC
(***************************************************************************)
(* Domains of literals.                                                    *)
(***************************************************************************)
\* Slots 1 and 2 of records, the local 3, the geometry member 4; what 1 points to.
Node(stars, slot) == <<stars, slot>>
Flow(left, right, echo) == [left |-> left, right |-> right, echo |-> echo]
Flows == {Flow(Node(0, 1), Node(0, 2), -1), Flow(Node(0, 2), Node(0, 3), 5), Flow(Node(0, 2), Node(0, 3), 6), Flow(Node(0, 3), Node(1, 1), -1),
          Flow(Node(0, 5), Node(0, 2), -1), Flow(Node(0, 4), Node(0, 1), -1), Flow(Node(1, 1), Node(0, 6), -1), Flow(Node(0, 6), Node(0, 5), -1)}
Used(at, kind, target, origin, value, spelled) ==
  [at |-> at, kind |-> kind, target |-> target, origin |-> origin, constant |-> IF origin \in Written THEN <<>> ELSE <<"F", value>>,
   value |-> value, spelled |-> spelled, unit |-> "u"]
Uses == {Used(10, "assign", Node(0, 1), "literal", 2, 0), Used(11, "case", Node(0, 3), "literal", 5, 0), Used(12, "compare", Node(0, 2), "enum-constant", 5, 13),
         Used(14, "index", Node(0, 5), "literal", 1, 0), Used(15, "init", Node(0, 4), "literal", 0, 0), Used(16, "pointer-zero", NoNode, "literal", 0, 0),
         Used(17, "mask", Node(1, 1), "character", 4, 0), Used(18, "return", NoNode, "literal", 3, 0)}
UseSets == {{u \in Uses : u.at \in ats} : ats \in {{10, 11, 12}, {11, 14, 16}, {12, 15, 17, 18}, {10, 11, 12, 14, 15, 16, 17, 18}}}
Info(type, enum, named) == [type |-> type, enum |-> enum, named |-> named]
Declared == [c \in {<<"F", 4>>, <<"F", 5>>, <<"G", 2>>} |-> c[2]]
Facts(edges, counters, sites, info, unit) ==
  [slots |-> 1 :> info, counters |-> counters, declared |-> Declared, edges |-> edges, sites |-> {[s EXCEPT !.unit = unit] : s \in sites}]
CensusInput(in) ==
  \E edges \in SUBSET Flows, shared \in {{}, {Flow(Node(0, 1), Node(0, 2), -1)}}, counters \in {{}, {Node(0, 2)}, {Node(1, 1)}}, sites \in UseSets,
     info \in {Info("b8", FALSE, FALSE), Info("u8", TRUE, FALSE), Info("u8", FALSE, TRUE)} :
    in = <<Facts(edges, counters, sites, info, "u"), Facts(shared, {}, {u \in Uses : u.at \in {10, 17}}, Info("u8", FALSE, FALSE), "v")>>
\* The flows that count, and what they connect.
Counted(in) ==
  LET edges == in[1].edges \cup in[2].edges
      kept == {e \in edges : e.echo # -1 => \E f \in edges : f.left = e.left /\ f.right = e.right /\ f.echo \notin {-1, e.echo}}
      Degree(n) == Cardinality({m \in Ends(kept) : \E e \in kept : {e.left, e.right} = {m, n}})
      Vague(n) == n \in in[1].counters \/ n[2] \in Geometric \/ Degree(n) > HubDegree \/ (n[2] \in Locals /\ Degree(n) > LocalHubDegree)
  IN {e \in kept : ~Vague(e.left) /\ ~Vague(e.right)}
RECURSIVE Grow(_, _)
Grow(edges, nodes) == LET more == nodes \cup UNION {Partners(edges, n) : n \in nodes} IN IF more = nodes THEN nodes ELSE Grow(edges, more)
Seen(domains) == {[members |-> d.members, values |-> d.values, constants |-> d.constants, siblings |-> d.siblings] : d \in domains}
Tokens(in) == {[at |-> at, claim |-> at = 20, line |-> line] : at \in {10, 13, 14, 20}, line \in {"code", "define"}}
FlowsHold(in, census, domains, counted, reasons) ==
  LET tracked == {o \in census.occurrences : DomainNode(o) # NoNode /\ ~IsGeometry(DomainNode(o))}
  IN /\ \A d \in domains : d.members = Grow(counted, {d.root})
     /\ \A d, e \in domains : d # e => d.members \cap e.members = {} /\ d.rows \cap e.rows = {}
     /\ UNION {d.rows : d \in domains} = tracked
     /\ \A d \in domains : d.members \cap in[1].counters # {} => Cardinality(d.members) = 1
     /\ \A d \in domains : \A m \in d.members \ {d.root} : Precedes(d.root, m)
     /\ Seen(domains) = Seen(BuildDomains(Census(<<in[2], in[1]>>)))
     /\ \A o \in census.occurrences : census.units[o] = {s.unit : s \in {t \in in[1].sites \cup in[2].sites : t.at = o.at}}
     /\ \A o \in TypedEnumLiterals(census) : \A d \in domains : o \in d.rows => d.verdict = "typed-enum"
     /\ \A t \in Tokens(in) : reasons[t] = "parsed" <=> \E o \in census.occurrences : o.spelled = t.at \/ (o.at = t.at /\ o.origin \in Written)
DomainsAreFlows(in) ==
  LET Hold(census) == FlowsHold(in, census, BuildDomains(census), Counted(in), Reconcile(Tokens(in), census.occurrences))
  IN Hold(Census(in))
(***************************************************************************)
(* A batch of source variants.                                             *)
(***************************************************************************)
Original == <<1, 2, 3, 1, 4>>
Option(name, replace, extra) == [name |-> name, replace |-> replace, extra |-> extra]
Axis(name, find, options) == [name |-> name, find |-> find, options |-> options]
Alternatives == {<<Option("b", <<>>, <<>>)>>, <<Option("b", <<>>, <<>>), Option("n", <<<<5>>>>, <<>>)>>,
                 <<Option("b", <<>>, <<>>), Option("n", <<<<>>>>, <<<<<<4>>, <<6, 6>>>>>>)>>,
                 <<Option("x", <<<<9>>>>, <<>>), Option("n", <<<<5>>>>, <<<<<<3>>, <<>>>>>>), Option("s", <<<<5>>>>, <<<<<<3>>, <<>>>>>>)>>,
                 <<Option("b", <<>>, <<>>), Option("b", <<<<5>>>>, <<>>)>>}
Manifests ==
  {<<Axis("p", f, alternatives)>> : f \in {<<2>>, <<2, 3>>, <<1>>}, alternatives \in Alternatives}
  \cup {<<Axis("p", f, x), Axis(n, g, y)>> : f \in {<<2>>, <<2, 3>>}, g \in {<<4>>, <<3>>, <<1, 4>>}, n \in {"q", "p"}, x, y \in Alternatives}
Targets == {Original, <<1, 5, 3, 1, 4>>, <<1, 5, 1, 4>>, <<1, 7, 1, 4>>}
\* A batch begins only with a manifest that is accepted; the others are refused at once.
BatchInput(in) ==
  \E axes \in Manifests, target \in Targets, traced \in BOOLEAN :
    /\ (traced => axes[Len(axes)].find \in {<<2>>, <<4>>})
    /\ in = <<axes, IF ParseManifest(axes, Original) THEN Batch(Original, Variants(Original, axes), target, traced)
                                      ELSE [Batch(Original, <<>>, target, FALSE) EXCEPT !.phase = "refused"]>>
\* The text with every chosen replacement in its place.
Placed(axes, c) ==
  LET edits == ChosenEdits(axes, Original, c)
      Here(at) == SelectSeq(edits, LAMBDA e : e.start = at)
      Covered(at) == \E n \in DOMAIN edits : edits[n].start <= at /\ at < edits[n].end
  IN FlattenSeq([n \in 1 .. Len(Original) |-> (IF Here(n - 1) = <<>> THEN <<>> ELSE Here(n - 1)[1].replacement)
                                              \o (IF Covered(n - 1) THEN <<>> ELSE <<Original[n]>>)])
Apart(axes) ==
  /\ \A c \in Combinations(axes) : LET e == ChosenEdits(axes, Original, c) IN \A at \in 0 .. Len(Original) - 1 : Cardinality({n \in DOMAIN e : e[n].start <= at /\ at < e[n].end}) <= 1
  /\ \A a \in DOMAIN axes : Cardinality({at \in 0 .. Len(Original) : Found(Original, axes[a].find, at)}) = 1
BatchIsOfOneTarget(in) ==
  LET axes == in[1]
      b == in[2]
      begun == b.phase = "running" /\ \A i \in DOMAIN b.rows : ~Done(b, i) /\ b.objects[i] = NotCompiled
      texts == {Placed(axes, c) : c \in Combinations(axes)}
  IN /\ begun => Apart(axes) /\ {b.variants[i].text : i \in DOMAIN b.variants} = texts /\ Len(b.variants) = Cardinality(texts)
     /\ ReportIsRight(b) /\ BatchInv(b)
     /\ b.phase = "reported" =>
          /\ \A r \in DOMAIN b.report.written : Good(b, b.report.ranked[r]) => b.report.written[r] = TextOf(b, b.report.ranked[r])
          /\ \A r \in DOMAIN b.report.ranked : \A q \in 1 .. r - 1 : b.rows[b.report.ranked[q]].score >= b.rows[b.report.ranked[r]].score
(***************************************************************************)
(* Two payloads.                                                           *)
(***************************************************************************)
Strings(values, n) == [1 .. n -> values]
Between(values, low, high) == UNION {Strings(values, n) : n \in low .. high}
\* Any two short payloads, and payloads whose blocks are moved, repeated, changed or cut.
Blocks == {<<1, 2>>, <<0, 0>>, <<2, 0, 3>>}
Arrangements == {Slice(p \o q \o r, 0, AtMost(n, Len(p \o q \o r))) : p, q, r \in Blocks, n \in {5, 6, 8}}
IslandInput(in) ==
  \/ \E a, b \in Between({0, 1}, 0, 5) : in = <<a, b>>
  \/ \E a, b \in Arrangements : in = <<a, b>>
Values(s) == {s[n] : n \in DOMAIN s}
Shared(s, t, values) ==
  FoldFunction(LAMBDA v, sum : v + sum, 0,
    [v \in values |-> AtMost(Cardinality({n \in DOMAIN s : s[n] = v}), Cardinality({n \in DOMAIN t : t[n] = v}))])
Cover(spans) == [o \in UNION {BytesOf(s[1], s[2]) : s \in spans} |-> Cardinality({s \in spans : o \in BytesOf(s[1], s[2])})]
Partitions(size, first, gaps) ==
  LET spans == Range(first) \cup Range(gaps)
  IN DOMAIN Cover(spans) = 0 .. size - 1 /\ (\A o \in 0 .. size - 1 : Cover(spans)[o] = 1) /\ Cardinality(spans) = Len(first) + Len(gaps)
Account(retail, candidate, report, strict) ==
  LET islands == report.islands
  IN /\ Partitions(Len(retail), [k \in DOMAIN islands |-> <<islands[k].retail, islands[k].retailSize>>], report.retailUnanchored)
     /\ Partitions(Len(candidate), [k \in DOMAIN islands |-> <<islands[k].candidate, islands[k].candidateSize>>], report.candidateUnanchored)
     /\ report.matched <= Shared(retail, candidate, Values(retail) \cap Values(candidate))
     /\ report.nonzero <= Shared(retail, candidate, (Values(retail) \cap Values(candidate)) \ {0})
     /\ \A i \in Range(islands) :
          LET left == Slice(retail, i.retail, i.retailSize)
              right == Slice(candidate, i.candidate, i.candidateSize)
          IN /\ i.equal <= Shared(left, right, Values(left) \cap Values(right))
             /\ Exact(i) => left = right /\ i.nonzero = NonZero(left)
             /\ i.runs = 1 => Exact(i)
     /\ (report.full /\ Len(islands) < 2 <=> retail = candidate) /\ (strict.equal <=> retail = candidate) /\ (strict.differing = 0 <=> strict.equal)
     /\ \A declared \in {Len(candidate), Len(candidate) + 1} :
          CompareExecutables(<<9>> \o retail, <<9>> \o candidate, declared) = IF declared = Len(candidate) THEN <<report>> ELSE <<>>
     /\ strict.header = 0 /\ strict.load = strict.differing /\ strict.firstLoad = strict.first
     /\ retail # <<>> /\ retail = candidate => Len(islands) = 1 /\ Exact(islands[1])
IslandsAreEqualBytes(in) ==
  Account(in[1], in[2], ComparePayloads(in[1], in[2]), Compare(<<9>> \o in[2], <<9>> \o in[1]))
==============================================================================
