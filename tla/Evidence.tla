------------------------------- MODULE Evidence ------------------------------
(***************************************************************************)
(* scripts/kf/sema: the references of one image.  index.py binds addresses *)
(* and names, evidence.py rates every row of relocs.tsv by the image's     *)
(* words and merges it with the transfers that cfg.py decodes, xref.py     *)
(* walks them as a tree, data_reachability.py closes them over code and    *)
(* data from the game's functions.                                         *)
(*                                                                         *)
(* Rows, words and the catalog are those of Delink.  A binding is [va,     *)
(* size, body, fragments, name, link, curated, code, vendored].            *)
(***************************************************************************)
EXTENDS Delink

(***************************************************************************)
(* index.py                                                                *)
(***************************************************************************)
BindingEnd(b) == b.va + b.size
HoldsVa(b, a) == Covers(b.va, b.size, a)
HoldsInBody(b, a) == Covers(b.va, b.body, a)
\* The last binding that starts no later, if it reaches that far: a longer one before it is not seen.
OwnerOf(bindings, a) ==
  {b \in bindings : b.va <= a /\ HoldsVa(b, a) /\ \A x \in bindings : x.va <= a => x.va <= b.va}
Starting(bindings, a) == {b \in bindings : b.va = a}
FunctionOwner(idx, a) == OwnerOf(idx.functions, a)
DataOwner(idx, a) == OwnerOf(idx.data, a)
Covering(idx, a) == IF FunctionOwner(idx, a) # {} THEN FunctionOwner(idx, a) ELSE DataOwner(idx, a)

(***************************************************************************)
(* evidence.py                                                             *)
(***************************************************************************)
Tiers == <<"rejected", "candidate", "validated", "proven">>
TierRank(tier) == (CHOOSE i \in DOMAIN Tiers : Tiers[i] = tier) - 1
MaxTier(s, t) == IF TierRank(t) > TierRank(s) THEN t ELSE s
Reference(site, target, kind, owner, paired, tier, live, referent) ==
  [site |-> site, target |-> target, kind |-> kind, owner |-> owner, paired |-> paired, tier |-> tier,
   live |-> live, referent |-> referent]
NowhereVa == -1
ReferencedVa(reference) == IF reference.referent # NowhereVa THEN reference.referent ELSE reference.target

ReferenceKind(row, owners, idx) ==
  CASE row.kind = "hi_lo" -> "address" [] row.kind = "word" -> "pointer" [] row.opcode = "jal" -> "call"
    [] OTHER -> IF \E o \in owners : HoldsInBody(o, row.target) THEN "branch"
                ELSE IF Starting(idx.functions, row.target) # {} THEN "tail" ELSE "jump"
\* Whether the linked words say what the row says.
BytesAgree(row, owners, retail) ==
  LET word == retail[row.site]
      lo == retail[row.paired] IN
  /\ row.site \in DOMAIN retail
  /\ CASE row.kind = "word" -> word.field = row.target
       [] row.kind = "mips26" -> word.op = row.opcode /\ DecodeMips26(row.site, word) = row.target
       [] row.kind = "hi_lo" -> /\ row.paired \in DOMAIN retail /\ \A o \in owners : HoldsVa(o, row.paired)
                                /\ word.op = "lui" /\ lo.op \in SignedLows \cup {"ori"} /\ lo.reg = word.reg
                                /\ DecodeHiLo(word, lo) = row.target
\* Mutant: no overlap is looked for.
NothingOverlaps(rows, i) == FALSE
Overlaps(rows, i) ==
  \E s \in Sites(rows[i]), j \in DOMAIN rows \ {i} :
    s \in Sites(rows[j]) /\ IF rows[i].status = "reviewed" THEN rows[j].status = "reviewed" ELSE rows[j].status # "rejected"
OwnerBlob(retail, b) == Words(retail, b.va, b.size)
Tier(rows, i, idx, retail, catalog) ==
  LET row == rows[i]
      owners == FunctionOwner(idx, row.site)
      data == DataOwner(idx, row.site)
      ValidIn(b) == b.va + b.size - 1 \in DOMAIN retail /\ Valid(OwnerBlob(retail, b), b, row, catalog, "safe")
  IN IF row.status = "rejected" \/ ~BytesAgree(row, owners, retail) THEN "rejected"
     ELSE IF Overlaps(rows, i) THEN "candidate"
     ELSE IF \/ \E o \in owners : o.fragments = 1 /\ Starting(catalog.functions, o.va) # {} /\ ValidIn(o)
             \/ owners = {} /\ row.kind = "word" /\ \E d \in data : ValidIn(d)
     THEN "validated" ELSE "candidate"
RelocationReference(rows, i, idx, retail, catalog) ==
  LET row == rows[i]
      owners == FunctionOwner(idx, row.site)
      all == IF owners # {} THEN owners ELSE DataOwner(idx, row.site)
      tier == Tier(rows, i, idx, retail, catalog)
      named == tier # "rejected" /\ row.status = "reviewed" /\ row.kind \in {"hi_lo", "word"} /\ row.name.name # ""
      referents == Referents(catalog, row.name)
  IN Reference(row.site, row.target, ReferenceKind(row, owners, idx),
               IF all = {} THEN NowhereVa ELSE (CHOOSE b \in all : TRUE).va, row.paired,
               IF named /\ Cardinality(referents) > 1 THEN "candidate" ELSE tier, row.status # "rejected",
               IF named /\ Cardinality(referents) = 1 THEN (CHOOSE d \in referents : TRUE).va ELSE NowhereVa)
\* Edges of the functions' graphs, [function, site, kind, target]; those that stay in the body are not references.
ControlReferences(idx, edges) ==
  {Reference(e.site, e.target,
             CASE e.kind = "jump-external" -> "jump" [] e.kind = "taken-external" -> "branch" [] OTHER -> e.kind,
             e.function, NowhereVa, "proven", TRUE, NowhereVa) :
     e \in {x \in edges : /\ x.kind \in {"call", "tail", "jump-external", "taken-external", "indirect-call", "indirect-jump"}
                          /\ \A f \in Starting(idx.functions, x.function) : f.fragments = 1 /\ ~HoldsInBody(f, x.target)}}
\* Mutant: of two references to one place the row's is kept as it is.
MergedFirst(known, reference) ==
  IF \E k \in DOMAIN known : [known[k] EXCEPT !.tier = "", !.live = TRUE, !.paired = 0, !.owner = 0]
                             = [reference EXCEPT !.tier = "", !.live = TRUE, !.paired = 0, !.owner = 0]
  THEN known ELSE Append(known, reference)
Merged(known, reference) ==
  LET Key(r) == <<r.site, r.target, r.kind, r.referent>>
      same == {k \in DOMAIN known : Key(known[k]) = Key(reference)}
      k == CHOOSE x \in same : TRUE
  IN IF same = {} THEN Append(known, reference)
     ELSE [known EXCEPT ![k].tier = MaxTier(@, reference.tier), ![k].live = @ /\ reference.live]
\* live: none of a reference's origins is a row that a reviewer rejected.
References(rows, idx, retail, catalog, edges) ==
  FoldLeft(Merged, <<>>, [i \in DOMAIN rows |-> RelocationReference(rows, i, idx, retail, catalog)]
                         \o SetToSeq(ControlReferences(idx, edges)))

Visible(r, confirmedOnly) == r.tier # "rejected" /\ (confirmedOnly => r.tier \in {"proven", "validated"})
Incoming(references, b, confirmedOnly) ==
  {r \in Range(references) : Visible(r, confirmedOnly) /\ ReferencedVa(r) \in b.va .. BindingEnd(b) - 1}
Outgoing(references, b, confirmedOnly) == {r \in Range(references) : Visible(r, confirmedOnly) /\ HoldsVa(b, r.site)}

(***************************************************************************)
(* xref.py: a tree of callers or callees, cut at a binding that is already *)
(* on the path and at a depth.  It is the set of its paths.                *)
(***************************************************************************)
Endpoint(idx, reference, outgoing) ==
  LET va == IF outgoing THEN ReferencedVa(reference) ELSE reference.owner IN
  IF outgoing /\ reference.referent # NowhereVa THEN Starting(idx.data, reference.referent)
  ELSE IF Starting(idx.functions, va) # {} THEN Starting(idx.functions, va) ELSE Covering(idx, va)
TraversableFrom(idx, references, b, outgoing) ==
  UNION {{e \in Endpoint(idx, r, outgoing) : e.code} :
    r \in {x \in IF outgoing THEN Outgoing(references, b, FALSE) ELSE Incoming(references, b, FALSE) :
             x.kind \in {"call", "tail", "jump", "branch"} /\ x.tier \in {"proven", "validated"}}}
RECURSIVE Tree(_, _, _, _, _, _)
Tree(idx, references, b, outgoing, depth, path) ==
  {Append(path, b)} \cup
  IF b \in Range(path) \/ depth = 0 THEN {}
  ELSE UNION {Tree(idx, references, e, outgoing, depth - 1, Append(path, b)) : e \in TraversableFrom(idx, references, b, outgoing)}

(***************************************************************************)
(* data_reachability.py: a worklist from the game's functions.  A node is  *)
(* a function or a data extent [va, size, name, source]; visits gives each *)
(* its rank, the node it was reached from and the reference it came by.    *)
(***************************************************************************)
NodeEnd(n) == IF n.code THEN n.va + n.body ELSE n.va + n.size
Holding(idx, extents, a) ==
  LET data == {d \in extents : Covers(d.va, d.size, a)}
      claimed == {d \in data : d.source \in {"DATA", "RODATA"}}
      identities == {d \in data : d.source = "data_identities.tsv"}
  IN {f \in idx.functions : HoldsInBody(f, a)}
     \cup (IF claimed # {} THEN claimed ELSE IF identities # {} THEN identities ELSE data)
\* The least span that an access is seen to touch: taking an address touches its object only.
AccessAt(reference, retail) ==
  IF reference.referent # NowhereVa /\ (reference.paired \notin DOMAIN retail \/ retail[reference.paired].op = "addiu")
  THEN reference.referent ELSE reference.target
\* Mutant: a node that was reached is not queued again.
VisitOnce(closure, node, rank, parent, via) ==
  IF node \in DOMAIN closure.visits
  THEN [closure EXCEPT !.visits[node].rank = IF rank > @ THEN rank ELSE @]
  ELSE [closure EXCEPT !.visits = [n \in DOMAIN @ \cup {node} |->
                                     IF n = node THEN [rank |-> rank, parent |-> parent, via |-> via] ELSE @[n]],
                       !.queue = Append(@, node)]
Visit(closure, node, rank, parent, via) ==
  IF node \in DOMAIN closure.visits /\ closure.visits[node].rank >= rank THEN closure
  ELSE [closure EXCEPT !.visits = [n \in DOMAIN @ \cup {node} |->
                                     IF n = node THEN [rank |-> rank, parent |-> parent, via |-> via] ELSE @[n]],
                       !.queue = Append(@, node)]
Issue(closure, code, nodes, references) == [closure EXCEPT !.issues = @ \cup {<<code, nodes, references>>}]
Flagged(closure, condition, code, nodes, references) == IF condition THEN Issue(closure, code, nodes, references) ELSE closure
PathRank(rank, tier, owners) ==
  LET least == IF TierRank(tier) < rank THEN TierRank(tier) ELSE rank
  IN IF Cardinality(owners) > 1 /\ least > TierRank("candidate") THEN TierRank("candidate") ELSE least
Follow(closure, node, r, idx, extents, retail) ==
  LET owners == Holding(idx, extents, ReferencedVa(r))
      Outside(o) == ~Covers(o.va, NodeEnd(o) - o.va, AccessAt(r, retail))
      checked == Flagged(closure, r.paired # NowhereVa /\ ~Covers(node.va, NodeEnd(node) - node.va, r.paired),
                         "relocation-pair-crosses-owner", {node}, {r})
      rank == PathRank(checked.visits[node].rank, r.tier, owners)
  IN IF r.tier = "rejected" THEN Flagged(checked, r.live, "invalid-live-reference", {node}, {r})
     ELSE IF r.target = NowhereVa THEN Issue(checked, "unresolved-indirect-control", {node}, {r})
     ELSE IF owners = {} THEN Issue(checked, "unmodeled-target", {node}, {r})
     ELSE LET told == Flagged(Flagged(checked, Cardinality(owners) > 1, "ambiguous-target-owner", {node}, {r}),
                              \E o \in owners : Outside(o), "access-crosses-owner", {node}, {r})
          IN FoldLeft(LAMBDA c, o : Visit(c, o, rank, {node}, {r}), told, SetToSeq(owners))
SitesIn(references, node) == SelectSeq(references, LAMBDA r : node.va <= r.site /\ r.site < NodeEnd(node))
RECURSIVE Drained(_, _, _, _, _)
Drained(closure, idx, extents, references, retail) ==
  IF closure.queue = <<>> THEN closure
  ELSE LET node == Head(closure.queue)
           popped == [closure EXCEPT !.queue = Tail(@)]
           next == IF node.code /\ node.fragments # 1 THEN Issue(popped, "fragmented-function", {node}, {})
                   ELSE FoldLeft(LAMBDA c, r : Follow(c, node, r, idx, extents, retail), popped, SitesIn(references, node))
       IN Drained(next, idx, extents, references, retail)
Reported(closure, references, idx, extents) ==
  LET weak == {p \in {<<n, r>> : n \in DOMAIN closure.visits, r \in Range(references)} :
                 /\ p[2] \in Range(SitesIn(references, p[1])) /\ p[1].code => p[1].fragments = 1
                 /\ PathRank(closure.visits[p[1]].rank, p[2].tier, Holding(idx, extents, ReferencedVa(p[2]))) = TierRank("candidate")}
      overlaid == {n \in DOMAIN closure.visits : n.code /\ n.fragments = 1
                     /\ \E d \in extents : d.va < NodeEnd(n) /\ n.va < d.va + d.size}
  IN [closure EXCEPT !.issues = @ \cup {<<"candidate-reference-path", {p[1]}, {p[2]}>> : p \in weak}
                                 \cup {<<"code-data-owner-overlap", {n}, {}>> : n \in overlaid}]
\* Roots: every function that is not a library's; with an entry also the one function that holds it.
AuditReachability(idx, extents, references, retail, entry) ==
  LET roots == {f \in idx.functions : ~f.vendored}
      entries == {f \in idx.functions : HoldsInBody(f, entry)}
      Rooted(c, f) == Visit(c, f, TierRank("proven"), {}, {})
      Entered(c, f) == Visit(c, f, TierRank(IF Cardinality(entries) = 1 THEN "proven" ELSE "candidate"), {}, {})
      empty == [visits |-> [n \in {} |-> 0], queue |-> <<>>, issues |-> IF roots = {} THEN {<<"no-game-roots", {}, {}>>} ELSE {}]
      started == FoldLeft(Rooted, empty, SetToSeq(roots))
      begun == IF entry = NowhereVa THEN started
               ELSE Flagged(FoldLeft(Entered, started, SetToSeq(entries)), Cardinality(entries) # 1, "entry-owner-not-unique", {}, {})
  IN Reported(Drained(begun, idx, extents, references, retail), references, idx, extents)
==============================================================================
