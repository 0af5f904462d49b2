------------------------------ MODULE Literals ------------------------------
(***************************************************************************)
(* scripts/kf/literals.py after the parsing: the facts of every unit are   *)
(* merged, the slots that values flow between are joined into domains, and *)
(* the written numbers of the sources are accounted for.                   *)
(*                                                                         *)
(* A slot is a number; a node <<stars, slot>> is the slot or what it       *)
(* points to.  An edge is [left, right, echo], echo a case's value or -1.  *)
(***************************************************************************)
EXTENDS Integers, Sequences, FiniteSets, SequencesExt

CONSTANTS Geometric,       \* slots that are members of the geometry records
          Locals,          \* slots that are a function's own
          HubDegree,       \* HUB_DEGREE
          LocalHubDegree   \* LOCAL_HUB_DEGREE

Written == {"literal", "character"}
FlowSinks == {"assign", "init", "compare", "case", "argument", "return"}
NoNode == <<>>
SlotOf(node) == node[2]
Precedes(x, y) == x[1] > y[1] \/ (x[1] = y[1] /\ x[2] < y[2])
Least(nodes) == CHOOSE x \in nodes : \A y \in nodes \ {x} : Precedes(x, y)
IsGeometry(node) == SlotOf(node) \in Geometric
NoInfo == [type |-> "", enum |-> FALSE, named |-> FALSE]
InfoOf(slots, node) == IF SlotOf(node) \in DOMAIN slots THEN slots[SlotOf(node)] ELSE NoInfo

(***************************************************************************)
(* Merging: collect.  A unit's facts are [slots, counters, declared,       *)
(* edges, sites]; an occurrence in a header is one site of several units.  *)
(***************************************************************************)
BetterInfo(previous, info) ==
  IF (~previous.named /\ info.named) \/ (info.enum /\ ~previous.enum) THEN info ELSE previous
Occurrence(site) == [site EXCEPT !.unit = ""]
NothingCollected == [slots |-> <<>>, counters |-> {}, declared |-> <<>>, edges |-> {}, occurrences |-> {}, units |-> <<>>]
Collected(done, facts) ==
  [slots |-> [k \in DOMAIN done.slots \cup DOMAIN facts.slots |->
                CASE k \notin DOMAIN facts.slots -> done.slots[k] [] k \notin DOMAIN done.slots -> facts.slots[k]
                  [] OTHER -> BetterInfo(done.slots[k], facts.slots[k])],
   counters |-> done.counters \cup facts.counters,
   declared |-> [c \in DOMAIN done.declared \cup DOMAIN facts.declared |-> IF c \in DOMAIN facts.declared THEN facts.declared[c] ELSE done.declared[c]],
   edges |-> done.edges \cup facts.edges,
   occurrences |-> done.occurrences \cup {Occurrence(s) : s \in facts.sites},
   units |-> [o \in done.occurrences \cup {Occurrence(s) : s \in facts.sites} |->
               (IF o \in done.occurrences THEN done.units[o] ELSE {}) \cup {s.unit : s \in {t \in facts.sites : Occurrence(t) = o}}]]
Census(results) == FoldLeft(Collected, NothingCollected, results)

SiteClass(site, slots) ==
  LET info == InfoOf(slots, site.target)
      flows == site.kind \in FlowSinks
  IN CASE ~flows -> site.kind
       [] flows /\ site.target = NoNode -> "untracked"
       [] flows /\ site.target # NoNode ->
            CASE IsGeometry(site.target) -> "geometry"
              [] ~IsGeometry(site.target) /\ info.type \in {"Bool", "b8", "b16", "b32"} -> "typed-boolean"
              [] ~IsGeometry(site.target) /\ info.type \notin {"Bool", "b8", "b16", "b32"} -> IF info.enum THEN "typed-enum" ELSE site.kind
DomainNode(site) == IF site.kind \in FlowSinks \cup {"mask", "index"} THEN site.target ELSE NoNode
\* typed_enum_literals: the written numbers that a scoped enum should have named.
TypedEnumLiterals(census) == {o \in census.occurrences : o.origin \in Written /\ SiteClass(o, census.slots) = "typed-enum"}

(***************************************************************************)
(* Domains: build_domains.  Hubs and quantities weld nothing together, a   *)
(* case echoed once proves no flow.                                        *)
(***************************************************************************)
Kept(edges) ==
  {e \in edges : e.echo = -1 \/ Cardinality({f.echo : f \in {g \in edges : g.left = e.left /\ g.right = e.right /\ g.echo # -1}}) >= 2}
Partners(edges, node) == {e.right : e \in {f \in edges : f.left = node}} \cup {e.left : e \in {f \in edges : f.right = node}}
Ends(edges) == {e.left : e \in edges} \cup {e.right : e \in edges}
Hubs(edges) ==
  {n \in Ends(edges) : \/ Cardinality(Partners(edges, n)) > HubDegree \/ IsGeometry(n)
                       \/ SlotOf(n) \in Locals /\ Cardinality(Partners(edges, n)) > LocalHubDegree}
\* Mutant: a slot that is counted with welds what it is compared with.
WeldsQuantities(edges, counters) == {e \in edges : {e.left, e.right} \cap Hubs(edges) = {}}
Welds(edges, counters) == {e \in edges : {e.left, e.right} \cap (Hubs(edges) \cup counters) = {}}

\* Union: a forest whose roots are its least nodes; find halves the paths it walks.
Known(parent, key) == IF key \in DOMAIN parent THEN parent ELSE [k \in DOMAIN parent \cup {key} |-> IF k = key THEN key ELSE parent[k]]
RECURSIVE Climb(_, _)
Climb(parent, key) ==
  IF parent[key] = key THEN [parent |-> parent, root |-> key]
  ELSE Climb([parent EXCEPT ![key] = parent[parent[key]]], parent[parent[key]])
Find(parent, key) == Climb(Known(parent, key), key)
Join(parent, left, right) ==
  LET a == Find(parent, left)
      b == Find(a.parent, right)
      least == Least({a.root, b.root})
      other == IF least = a.root THEN b.root ELSE a.root
  IN IF a.root = b.root THEN b.parent ELSE [b.parent EXCEPT ![other] = least]

Verdict(distinct, sinks, members) ==
  LET Of(kinds) == Cardinality({s \in sinks : s.kind \in kinds})
      total == Cardinality(sinks)
      coded == Of({"case", "compare"})
      arithmetic == Of({"arithmetic", "shift"})
  IN IF \E m \in members : m.enum THEN "typed-enum"
     ELSE IF total > 0 /\ Of({"index"}) = total THEN "array-index"
     ELSE IF total > 0 /\ 10 * Of({"init"}) >= 8 * total /\ Of({"case"}) = 0 THEN "data-table"
     ELSE IF distinct \subseteq {0, 1} THEN "boolean-candidate"
     ELSE IF Of({"mask"}) > Of({"assign"}) + coded THEN "flags-candidate"
     ELSE IF (\E m \in members : m.counter) \/ arithmetic > coded THEN "quantity"
     ELSE IF Of({"case"}) > 0 \/ (coded > 0 /\ Cardinality(distinct) >= 2) \/ Cardinality(distinct) >= 3 THEN "enum-candidate"
     ELSE IF Cardinality(distinct) = 1 THEN "singleton" ELSE "review"

\* A constant is <<family, name>>: the common prefix of a domain's constants, if they have one.
CommonPrefix(constants) == IF constants # {} /\ \A c, d \in constants : c[1] = d[1] THEN {c[1] : c \in constants} ELSE {}
DomainOf(root, rows, members, census) ==
  LET written == {s \in rows : s.origin \in Written}
      values == {s.value : s \in written}
      constants == {<<s.constant, s.value>> : s \in rows \ written}
      rowsOf == {[slot |-> m, enum |-> InfoOf(census.slots, m).enum, counter |-> m \in census.counters] : m \in members}
  IN [root |-> root, members |-> members, rows |-> rows, values |-> values, constants |-> constants,
      all |-> values \cup {c[2] : c \in constants}, covered |-> values \cap {c[2] : c \in constants}, literals |-> Cardinality(written),
      siblings |-> {c \in DOMAIN census.declared : /\ c[1] \in CommonPrefix({d[1] : d \in constants}) /\ census.declared[c] \in values
                                                  /\ <<c, census.declared[c]>> \notin constants},
      verdict |-> Verdict(values \cup {c[2] : c \in constants}, rows, rowsOf)]
Rooted(census) ==
  LET edges == Welds(Kept(census.edges), census.counters)
      joined == FoldLeft(LAMBDA parent, e : Join(parent, e.left, e.right), <<>>, SetToSeq(edges))
      placed == {o \in census.occurrences : DomainNode(o) # NoNode /\ ~IsGeometry(DomainNode(o))}
      parent == FoldLeft(LAMBDA p, o : Find(p, DomainNode(o)).parent, joined, SetToSeq(placed))
  IN [placed |-> placed, root |-> [n \in DOMAIN parent |-> Find(parent, n).root]]
DomainsOf(placed, root, census) ==
  {DomainOf(x, {o \in placed : root[DomainNode(o)] = x}, {n \in DOMAIN root : root[n] = x}, census) :
     x \in {root[DomainNode(o)] : o \in placed}}
BuildDomains(census) ==
  LET From(rooted) == DomainsOf(rooted.placed, rooted.root, census)
  IN From(Rooted(census))

\* reconcile: a written token is one that some variant parsed, or has a reason why none did.
Reason(token) ==
  CASE token.claim -> "retail-claim"
    [] ~token.claim /\ token.line = "sizeof" -> "sizeof-operand"
    [] ~token.claim /\ token.line = "define" -> "macro-body-unattributed"
    [] ~token.claim /\ token.line = "directive" -> "preprocessor"
    [] ~token.claim /\ token.line = "code" -> "unparsed-or-inactive"
Reconcile(tokens, occurrences) ==
  LET covered == {o.at : o \in {p \in occurrences : p.origin \in Written}} \cup {o.spelled : o \in occurrences}
  IN [t \in tokens |-> IF t.at \in covered THEN "parsed" ELSE Reason(t)]
=============================================================================
