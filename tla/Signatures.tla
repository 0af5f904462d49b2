----------------------------- MODULE Signatures ------------------------------
(***************************************************************************)
(* scripts/kf/seed_vendored_functions.py and fid_census.py: which function *)
(* of an image came from the vendor's library.  Whole objects, function    *)
(* signatures cut from objects and the patterns of a later release are     *)
(* searched in the images; the channels apply in order of trust.           *)
(*                                                                         *)
(* Code is a sequence of words.  A pattern is a sequence of cells: a word  *)
(* and how much of it counts, 2 all, 1 its operation, 0 nothing.  A name   *)
(* is a number: 0 none, 9 an automatic label, 10 + n its underscored form. *)
(***************************************************************************)
EXTENDS Integers, Sequences, FiniteSets, SequencesExt, FiniteSetsExt

CONSTANTS AnchorFloor, SignatureFloor, FixedFloor,  \* cells of an anchor, of a pattern, and fixed
          FidFloor, HighFloor, WholeFloor            \* cells of a function signature
Automatic == {9}
Normal(name) == name % 10
FirstName(names) == Min(names)

(***************************************************************************)
(* Search by the first longest run of cells that count in full.            *)
(***************************************************************************)
Agrees(word, cell) == cell.mask = 0 \/ (cell.mask = 1 /\ word \div 2 = cell.word \div 2) \/ word = cell.word
FixedCells(cells) == Cardinality({k \in DOMAIN cells : cells[k].mask = 2})
LongestAnchor(cells) ==
  LET runs == {r \in (DOMAIN cells) \X (DOMAIN cells) : r[1] <= r[2] /\ \A k \in r[1] .. r[2] : cells[k].mask = 2}
      longest == {r \in runs : \A q \in runs : q[2] - q[1] < r[2] - r[1] \/ (q[2] - q[1] = r[2] - r[1] /\ r[1] <= q[1])}
  IN {r \in longest : r[2] - r[1] + 1 >= AnchorFloor}
Occurs(cells, anchor, payload, at) ==
  at + anchor[2] - anchor[1] <= Len(payload) /\ \A k \in 0 .. anchor[2] - anchor[1] : payload[at + k] = cells[anchor[1] + k].word
MatchesAt(cells, payload, start) ==
  start >= 1 /\ start + Len(cells) - 1 <= Len(payload) /\ \A k \in DOMAIN cells : Agrees(payload[start + k - 1], cells[k])
\* Mutant: the search resumes behind the anchor it found.
ResumeBehind(anchor, found) == found + anchor[2] - anchor[1] + 1
Resume(anchor, found) == found + 1
RECURSIVE Search(_, _, _, _)
Search(cells, anchor, payload, cursor) ==
  LET found == {at \in cursor .. Len(payload) : Occurs(cells, anchor, payload, at)}
      start == Min(found) - (anchor[1] - 1)
  IN IF found = {} THEN <<>>
     ELSE (IF MatchesAt(cells, payload, start) THEN <<start>> ELSE <<>>) \o Search(cells, anchor, payload, Resume(anchor, Min(found)))
\* An object without an anchor is refused by one search and matches nothing in the other.
FindMasked(cells, payload) == FlattenSeq(SetToSeq({Search(cells, a, payload, 1) : a \in LongestAnchor(cells)}))
FindSignature(cells, payload) == FindMasked(cells, payload)

(***************************************************************************)
(* Names and rows.                                                         *)
(***************************************************************************)
ChooseNames(function, names) ==
  LET candidates == {n \in names : n # 0} \ Automatic
      preferred == SelectSeq(<<function.name>> \o function.labels, LAMBDA n : n \in candidates)
      primary == IF preferred # <<>> THEN preferred[1] ELSE IF candidates # {} THEN FirstName(candidates) ELSE 0
  IN [name |-> primary, aliases |-> candidates \ {primary}]
Row(function, named, libraries, modules, offset, confidence, witnesses) ==
  [size |-> function.size, name |-> named.name, aliases |-> named.aliases, libraries |-> libraries, modules |-> modules,
   offset |-> offset, confidence |-> confidence, witnesses |-> witnesses]
With(rows, key, row) == [k \in DOMAIN rows \cup {key} |-> IF k = key THEN row ELSE rows[k]]
Key(f) == <<f.image, f.va>>
Member(o) == <<o.library, o.module>>
At(images, function, size) == SubSeq(images[function.image], function.va, function.va + size - 1)

(***************************************************************************)
(* Whole objects: the evidence is searched again, then every function in   *)
(* a match is named by what the candidates define at its offset.           *)
(***************************************************************************)
EvidenceHolds(e, objects, images) ==
  LET o == CHOOSE x \in objects : Member(x) = e.member
      offsets == FindMasked(o.cells, images[e.image])
  IN /\ LongestAnchor(o.cells) # {} /\ Len(o.cells) = e.size /\ e.member \in e.candidates
     /\ e.va \in Range(offsets) /\ Len(offsets) = e.occurrences
     /\ \A x \in objects : Member(x) \in e.candidates => Len(x.cells) = e.size
DefinedAt(objects, members, offset) ==
  LET defined == UNION {x.xdefs : x \in {y \in objects : Member(y) \in members}}
  IN {d[2] : d \in {c \in defined : c[1] = offset}}
Groups(evidence) == {[image |-> e.image, va |-> e.va, size |-> e.size, candidates |-> e.candidates] : e \in evidence}
InGroup(f, g) == f.image = g.image /\ g.va <= f.va /\ f.va + f.size <= g.va + g.size
ExactRow(f, g, objects) ==
  Row(f, ChooseNames(f, DefinedAt(objects, g.candidates, f.va - g.va)), {m[1] : m \in g.candidates}, {m[2] : m \in g.candidates},
      f.va - g.va, IF Cardinality(g.candidates) = 1 THEN "exact" ELSE "exact-ambiguous", {<<"object">>})
ExactObjectRows(functions, evidence, objects, images) ==
  LET claimed == {p \in functions \X Groups(evidence) : InGroup(p[1], p[2])}
  IN IF \/ \E e \in evidence : ~EvidenceHolds(e, objects, images)
        \/ \E p, q \in claimed : p[1] = q[1] /\ p # q THEN {}
     ELSE {[k \in {Key(p[1]) : p \in claimed} |->
              LET p == CHOOSE p \in claimed : Key(p[1]) = k IN ExactRow(p[1], p[2], objects)]}
\* A complete object is compared without its mask.
CompleteHolds(e, functions, objects, images, rows) ==
  \E f \in functions, o \in objects :
    /\ Key(f) = <<e.image, e.va>> /\ Key(f) \notin DOMAIN rows /\ Member(o) = e.member
    /\ At(images, f, Len(o.cells)) = [k \in DOMAIN o.cells |-> o.cells[k].word] /\ <<0, e.name>> \in o.xdefs
ApplyCompleteRows(functions, evidence, objects, images, rows) ==
  IF \E e \in evidence : ~CompleteHolds(e, functions, objects, images, rows) THEN {}
  ELSE {FoldLeft(LAMBDA done, e :
          LET f == CHOOSE f \in functions : Key(f) = <<e.image, e.va>>
          IN With(done, Key(f), Row(f, ChooseNames(f, DefinedAt(objects, {e.member}, 0)), {e.member[1]}, {e.member[2]}, 0,
                                    "exact-complete", {<<"complete">>})),
          rows, SetToSeq(evidence))}

(***************************************************************************)
(* fid_census.py: an object cut into functions, by its debug records or    *)
(* from one named start to the next.                                       *)
(***************************************************************************)
SignaturesFrom(o) ==
  LET debug == {d \in o.debug : 0 <= d[1] /\ d[1] < d[2] /\ d[2] <= Len(o.cells)}
      named == {<<n[1], n[2]>> : n \in o.xdefs \cup o.locals} \cup {<<d[1], d[3]>> : d \in o.debug}
      starts == {n[1] : n \in named} \cap 0 .. Len(o.cells) - 1
      EndOf(s) == Min({t \in starts \cup {Len(o.cells)} : t > s})
      Cut(s, e) == [library |-> o.library, module |-> o.module, offset |-> s, cells |-> SubSeq(o.cells, s + 1, e),
                    names |-> {n[2] : n \in {x \in named : x[1] = s}}]
  IN {Cut(d[1], d[2]) : d \in debug} \cup {Cut(s, EndOf(s)) : s \in starts \ {d[1] : d \in debug}}
BuildCorpus(objects) == {s \in UNION {SignaturesFrom(o) : o \in objects} : Len(s.cells) >= FidFloor /\ FixedCells(s.cells) >= FidFloor - 1}
IdentityOf(s) == <<s.library, s.module, s.offset, s.names>>
FindHits(corpus, functions, images) ==
  {h \in [function : functions, signature : corpus] :
     /\ Len(h.signature.cells) \in {h.function.size, h.function.body}
     /\ MatchesAt(h.signature.cells, At(images, h.function, Len(h.signature.cells)), 1)
     /\ Len(At(images, h.function, Len(h.signature.cells))) = Len(h.signature.cells)}
\* Mutant: only the places of an identity are counted, not the identities of a place.
AmbiguousPlaces(hits, h) ==
  \E g \in hits : IdentityOf(g.signature) = IdentityOf(h.signature) /\ g.function.image = h.function.image /\ g.function.va # h.function.va
Ambiguous(hits, h) ==
  \/ \E image \in {g.function.image : g \in hits} :
       Cardinality({g.function.va : g \in {x \in hits : IdentityOf(x.signature) = IdentityOf(h.signature) /\ x.function.image = image}}) > 1
  \/ \E g \in hits : Key(g.function) = Key(h.function) /\ IdentityOf(g.signature) # IdentityOf(h.signature)
Substantial(s) == Len(s.cells) >= HighFloor /\ FixedCells(s.cells) >= HighFloor - 1
Confidence(hits, h) ==
  CASE Substantial(h.signature) /\ ~Ambiguous(hits, h) -> "HIGH" [] ~Substantial(h.signature) /\ ~Ambiguous(hits, h) -> "SHORT"
    [] Substantial(h.signature) /\ Ambiguous(hits, h) -> "AMBIG" [] OTHER -> "LOW"
PreferredName(f, names) ==
  LET preferred == SelectSeq(<<f.name>> \o f.labels, LAMBDA n : n # 0 /\ n \in names)
      name == IF preferred # <<>> THEN preferred[1] ELSE IF names = {} THEN 0 ELSE FirstName(names)
  IN [name |-> name, aliases |-> names \ {name}]
ClassifyHits(hits) ==
  {[function |-> h.function, signature |-> h.signature, confidence |-> Confidence(hits, h),
    named |-> PreferredName(h.function, h.signature.names)] : h \in hits}
Witness(fid) == <<fid.signature.cells, Member(fid.signature)>>
HighRow(rows, fid) ==
  LET key == Key(fid.function) IN
  IF key \notin DOMAIN rows
  THEN With(rows, key, Row([size |-> Len(fid.signature.cells)], fid.named, {fid.signature.library}, {fid.signature.module},
                           fid.signature.offset, "fid", {Witness(fid)}))
  ELSE IF fid.signature.library \notin rows[key].libraries \/ fid.signature.module \notin rows[key].modules THEN rows
  ELSE [rows EXCEPT ![key].witnesses = @ \cup {Witness(fid)}]
\* Several identities of one fully fixed body with one name.
Shared(fids, key) ==
  LET here == {x \in fids : x.confidence = "AMBIG" /\ Key(x.function) = key}
      names == UNION {{x.named.name} \cup x.named.aliases : x \in here} \ {0}
      name == IF FirstName({Normal(n) : n \in names}) \in names THEN FirstName({Normal(n) : n \in names}) ELSE FirstName(names)
      one == CHOOSE x \in here : TRUE
      offsets == {x.signature.offset : x \in here}
  IN IF /\ here # {} /\ Cardinality({x.signature.cells : x \in here}) = 1 /\ Len(one.signature.cells) >= WholeFloor
        /\ Cardinality({Normal(n) : n \in names}) = 1 /\ FixedCells(one.signature.cells) = Len(one.signature.cells)
     THEN {Row([size |-> Len(one.signature.cells)], [name |-> name, aliases |-> names \ {name}], {x.signature.library : x \in here},
               {x.signature.module : x \in here}, IF Cardinality(offsets) = 1 THEN FirstName(offsets) ELSE 0, "fid-ambiguous",
               {Witness(x) : x \in here})}
     ELSE {}
ApplyFidRows(fids, rows) ==
  LET high == FoldLeft(HighRow, rows, SetToSeq({x \in fids : x.confidence = "HIGH"}))
      shared == {k \in {Key(x.function) : x \in fids} \ DOMAIN high : Shared(fids, k) # {}}
  IN [k \in DOMAIN high \cup shared |-> IF k \in DOMAIN high THEN high[k] ELSE CHOOSE r \in Shared(fids, k) : TRUE]

(***************************************************************************)
(* Patterns of a later release: one occurrence in the image, aligned, and  *)
(* a label on an admitted start.  The most specific one names a function.  *)
(***************************************************************************)
Grouped(patterns) ==
  {{q \in patterns : q.cells = p.cells} : p \in {x \in patterns : Len(x.cells) >= SignatureFloor /\ FixedCells(x.cells) >= FixedFloor}}
SignatureHits(patterns, images) ==
  LET Found(image, g) == FindSignature((CHOOSE p \in g : TRUE).cells, images[image])
      once == {x \in (DOMAIN images) \X Grouped(patterns) : Len(Found(x[1], x[2])) = 1}
      Hit(image, g, p) == [image |-> image, va |-> Found(image, g)[1], patterns |-> g, size |-> Len(p.cells), fixed |-> FixedCells(p.cells)]
  IN {Hit(x[1], x[2], CHOOSE p \in x[2] : TRUE) : x \in once}
SignatureNames(h, f) ==
  {l[2] : l \in {x \in UNION {p.labels : p \in h.patterns} : x[1] = f.va - h.va}} \ Automatic
Observed(functions, hits, f) ==
  {h \in hits : /\ h.image = f.image
                /\ \E g \in functions : g.image = h.image /\ SignatureNames(h, g) # {}
                /\ SignatureNames(h, f) # {} \/ (h.va <= f.va /\ f.va + f.size <= h.va + h.size)}
Better(f, g, h) ==
  LET Rank(x) == <<IF SignatureNames(x, f) # {} THEN 1 ELSE 0, x.fixed, x.size, -x.va>>
  IN \E k \in 1 .. 4 : Rank(g)[k] > Rank(h)[k] /\ \A j \in 1 .. k - 1 : Rank(g)[j] = Rank(h)[j]
ApplySignatureRows(functions, hits, rows) ==
  LET seen == {f \in functions : Observed(functions, hits, f) # {}}
      Best(f) == CHOOSE h \in Observed(functions, hits, f) : \A g \in Observed(functions, hits, f) : ~Better(f, g, h)
      Named(f) == ChooseNames(f, SignatureNames(Best(f), f))
      Of(key) == CHOOSE f \in functions : Key(f) = key
      Fresh(f) == Row(f, Named(f), {p.library : p \in Best(f).patterns}, {p.module : p \in Best(f).patterns}, f.va - Best(f).va,
                      IF Cardinality(Best(f).patterns) > 1 THEN "later-ambiguous" ELSE "later", {<<"later">>})
      Corroborated(row, f) == IF row.name = 0 /\ SignatureNames(Best(f), f) # {}
                              THEN [row EXCEPT !.name = Named(f).name, !.aliases = Named(f).aliases, !.witnesses = @ \cup {<<"label">>}] ELSE row
  IN [k \in DOMAIN rows \cup {Key(f) : f \in seen} |->
        IF k \notin DOMAIN rows THEN Fresh(Of(k)) ELSE IF Of(k) \in seen THEN Corroborated(rows[k], Of(k)) ELSE rows[k]]
\* The candidate rows of seed_vendored_functions, or nothing where the evidence is stale.
VendoredRows(functions, evidence, complete, objects, patterns, images) ==
  UNION {{ApplySignatureRows(functions, SignatureHits(patterns, images),
                             ApplyFidRows(ClassifyHits(FindHits(BuildCorpus(objects), functions, images)), rows)) :
            rows \in ApplyCompleteRows(functions, complete, objects, images, exact)} :
         exact \in ExactObjectRows(functions, evidence, objects, images)}
==============================================================================
