------------------------------- MODULE Objects -------------------------------
(***************************************************************************)
(* Object files of units: delink.py packs a unit's claims into sections,   *)
(* mips_elf.py writes them, data_match.py reads two of them back and       *)
(* compares their data, roundtrip.py places one at its retail addresses,   *)
(* links it and compares the result with the image.                        *)
(*                                                                         *)
(* An object is a sequence of sections and a sequence of symbols; a        *)
(* relocation names its symbol by index, as the file does.  The names are  *)
(* the symbol records of Delink, sizes and addresses count words.          *)
(***************************************************************************)
EXTENDS Delink

RoundUp(value, alignment) == ((value + alignment - 1) \div alignment) * alignment
Zero == [op |-> "data", reg |-> 0, field |-> 0]

(***************************************************************************)
(* Packing a unit's data: delink._module_data.  A datum is [symbol, va,    *)
(* size, storage, section, local, reservation]; failed is the ValueError.  *)
(***************************************************************************)
Alignment(d) ==
  IF d.reservation > 0 THEN 1
  ELSE CHOOSE n \in {2, 1} : /\ d.va % n = 0
                             /\ \A m \in {2, 1} : m > n => d.va % m # 0
SectionOf(d) == IF d.section # "" THEN d.section ELSE IF d.storage = "load" THEN ".data" ELSE ".bss"
\* Mutant: the packing between two data is written as zeros.
ZeroPadding(retail, from, size) == [o \in 0 .. size - 1 |-> Zero]
Padding(retail, from, size) == Words(retail, from, size)
Shifted(relocs, offset) == [i \in DOMAIN relocs |-> [relocs[i] EXCEPT !.offset = @ + offset]]
Joined(words, n, more, m) == [o \in 0 .. n + m - 1 |-> IF o < n THEN words[o] ELSE more[o - n]]
Defined(d, offset) == [name |-> d.symbol, value |-> offset, size |-> d.size, local |-> d.local]
NoSection == [words |-> <<>>, size |-> 0, align |-> 1, symbols |-> <<>>, relocs |-> <<>>, failed |-> FALSE]
\* blobs: the carved words and relocations of each load datum.
PackDatum(packed, d, blobs, retail) ==
  LET s == packed.section
      offset == RoundUp(s.size, Alignment(d))
      gap == offset - s.size
  IN IF d.storage = "load"
     THEN [section |->
             [words |-> Joined(Joined(s.words, s.size, Padding(retail, d.va - gap, gap), gap),
                               offset, blobs[d.va].blob, d.size),
              size |-> offset + d.size, align |-> IF s.align > Alignment(d) THEN s.align ELSE Alignment(d),
              symbols |-> Append(s.symbols, Defined(d, offset)),
              relocs |-> s.relocs \o Shifted(blobs[d.va].relocs, offset),
              failed |-> s.failed \/ (gap > 0 /\ packed.end # d.va - gap)],
           end |-> d.va + d.size]
     ELSE [section |->
             [s EXCEPT !.size = offset + (IF d.reservation > 0 THEN d.reservation ELSE d.size),
                       !.align = IF @ > Alignment(d) THEN @ ELSE Alignment(d),
                       !.symbols = Append(@, Defined(d, offset))],
           end |-> packed.end]
PackSection(data, name, blobs, retail) ==
  FoldLeft(LAMBDA packed, d : PackDatum(packed, d, blobs, retail), [section |-> NoSection, end |-> -1],
           SelectSeq(data, LAMBDA d : SectionOf(d) = name)).section

(***************************************************************************)
(* The writer: mips_elf.write_mips_elf.  content maps the six section      *)
(* names to their words, symbols and relocations by name.                  *)
(***************************************************************************)
SectionNames == <<".text", ".data", ".bss", ".rodata", ".sdata", ".sbss">>
NoBits(name) == name \in {".bss", ".sbss"}
RelocOrder(a, b) ==
  a.offset < b.offset \/ (a.offset = b.offset /\ a.kind # b.kind
                          /\ \E i, j \in 1 .. 4 : i < j /\ <<"26", "32", "HI16", "LO16">>[i] = a.kind
                                                  /\ <<"26", "32", "HI16", "LO16">>[j] = b.kind)
CheckRelocations(s) == \A r \in Range(s.relocs) : 0 <= r.offset /\ r.offset < s.size
CheckSymbols(s) == \A d \in Range(s.symbols) : d.value >= 0 /\ d.size >= 0 /\ d.value + d.size <= s.size
Present(content, name) == name = ".text" \/ content[name].size > 0 \/ content[name].symbols # <<>>
Sections(content) == SelectSeq(SectionNames, LAMBDA n : Present(content, n))
Writable(content) ==
  LET placed == FlattenSeq([k \in DOMAIN Sections(content) |-> content[Sections(content)[k]].symbols])
  IN /\ \A n \in DOMAIN content : CheckRelocations(content[n]) /\ CheckSymbols(content[n]) /\ ~content[n].failed
     /\ \A i, j \in DOMAIN placed : placed[i].name = placed[j].name => i = j
     /\ \A i \in DOMAIN placed : placed[i].name.name \notin Range(SectionNames)
Entry(name, value, size, local, section) ==
  [name |-> name, value |-> value, size |-> size, local |-> local, section |-> section]
\* Null, sections, local, global and undefined symbols; section 0 is undefined.
SymbolTable(content) ==
  LET names == Sections(content)
      placed == FlattenSeq([k \in DOMAIN names |-> [i \in DOMAIN content[names[k]].symbols |->
                  LET d == content[names[k]].symbols[i] IN Entry(d.name, d.value, d.size, d.local, k)]])
      used == {r.symbol : r \in UNION {Range(content[names[k]].relocs) : k \in DOMAIN names}}
      undefined == {s \in used : /\ \A i \in DOMAIN placed : placed[i].name # s
                                 /\ s \notin {Plain(names[k]) : k \in DOMAIN names}}
  IN <<Entry(Plain(""), 0, 0, TRUE, 0)>>
     \o [k \in DOMAIN names |-> Entry(Plain(""), 0, 0, TRUE, k)]
     \o SelectSeq(placed, LAMBDA e : e.local) \o SelectSeq(placed, LAMBDA e : ~e.local)
     \o SetToSeq({Entry(s, 0, 0, FALSE, 0) : s \in undefined})
IndexOf(table, names, symbol) ==
  CHOOSE i \in DOMAIN table : \/ i > 1 /\ table[i].name = symbol
                              \/ symbol.name # "" /\ table[i].name = Plain("") /\ table[i].section # 0
                                 /\ Plain(names[table[i].section]) = symbol
WriteObject(content) ==
  LET names == Sections(content)
      table == SymbolTable(content)
      Rel(s) == [i \in DOMAIN s |-> [offset |-> s[i].offset, kind |-> s[i].kind,
                                     index |-> IndexOf(table, names, s[i].symbol)]]
  IN [sections |-> [k \in DOMAIN names |->
        [name |-> names[k], nobits |-> NoBits(names[k]), size |-> content[names[k]].size,
         align |-> IF names[k] \in {".text", ".rodata"} THEN 1 ELSE content[names[k]].align,
         words |-> content[names[k]].words,
         rel |-> Rel(SetToSortSeq(Range(content[names[k]].relocs), RelocOrder))]],
      symbols |-> table]

(***************************************************************************)
(* delink.delink for one manifested unit: its functions and load data are  *)
(* carved by the rows sited in them, then joined into one object.          *)
(***************************************************************************)
Owner(o, code) == [va |-> o.va, size |-> o.size, code |-> code]
CarvedFunctions(unit, retail, rows, catalog, policy) ==
  [va \in {f.va : f \in Range(unit.functions)} |->
    LET f == CHOOSE g \in Range(unit.functions) : g.va = va
    IN Carve(retail, Owner(f, TRUE), RowsOf(rows, f), catalog, policy, unit.rodata)]
CarvedData(unit, retail, rows, catalog, policy) ==
  [va \in {d.va : d \in {x \in Range(unit.data) : x.storage = "load"}} |->
    LET d == CHOOSE x \in Range(unit.data) : x.va = va
    IN Carve(retail, Owner(d, FALSE), RowsOf(rows, d), catalog, policy, <<>>)]
Contiguous(unit) ==
  \A k \in 2 .. Len(unit.functions) :
    unit.functions[k].va = unit.functions[k - 1].va + unit.functions[k - 1].size
TextSection(unit, carved) ==
  IF unit.functions = <<>> THEN NoSection
  ELSE LET text == ModuleText(carved, unit.functions)
       IN [words |-> text.blob, size |-> Cardinality(DOMAIN text.blob), align |-> 1,
           symbols |-> [k \in DOMAIN unit.functions |->
             [name |-> unit.functions[k].symbol, value |-> unit.functions[k].va - unit.functions[1].va,
              size |-> unit.functions[k].size, local |-> FALSE]],
           relocs |-> text.relocs, failed |-> FALSE]
RodataSection(unit, retail) ==
  IF unit.rodata = <<>> THEN NoSection
  ELSE LET text == IF unit.functions = <<>> THEN <<0, 0>>
                   ELSE <<unit.functions[1].va, Last(unit.functions).va + Last(unit.functions).size - unit.functions[1].va>>
           built == ModuleRodata(retail, unit.rodata, text[1], text[2])
       IN [NoSection EXCEPT !.words = built.blob, !.size = unit.rodata[2], !.relocs = built.relocs]
ModuleObject(unit, retail, rows, catalog, policy) ==
  LET blobs == CarvedData(unit, retail, rows, catalog, policy)
      carved == CarvedFunctions(unit, retail, rows, catalog, policy)
  IN [name \in Range(SectionNames) |->
        CASE name = ".text" -> TextSection(unit, carved)
          [] name = ".rodata" -> RodataSection(unit, retail)
          [] OTHER -> PackSection(unit.data, name, blobs, retail)]
\* Nothing is written for a unit whose functions are fragmented or apart, or whose packing fails.
Delinkable(unit, content) ==
  (\A f \in Range(unit.functions) : f.fragments = 1) /\ Contiguous(unit) /\ Writable(content)

(***************************************************************************)
(* The reader and the comparison of two objects' data: data_match.py.      *)
(***************************************************************************)
NameOf(object, index) ==
  LET e == object.symbols[index]
  IN IF e.name # Plain("") THEN e.name
     ELSE IF e.section = 0 THEN Plain("") ELSE Plain(object.sections[e.section].name)
Named(object, name) == {k \in DOMAIN object.sections : object.sections[k].name = name}
Size(object, name) ==
  IF Named(object, name) = {} THEN 0 ELSE object.sections[CHOOSE k \in Named(object, name) : TRUE].size
Relocations(object, k) ==
  LET rel == object.sections[k].rel
  IN [i \in DOMAIN rel |-> Reloc(rel[i].offset, rel[i].kind, NameOf(object, rel[i].index))]
Allocations(object, name) ==
  {e \in Range(object.symbols) : /\ e.section # 0 /\ e.name # Plain("")
                                 /\ object.sections[e.section].name = name}
NameAllocations(object, name) ==
  {[name |-> e.name, value |-> e.value, size |-> e.size, local |-> e.local] : e \in Allocations(object, name)}
\* Mutant: relocated fields are left out of the comparison.
SameWordsMasked(target, base) ==
  \A o \in DOMAIN target.words :
    target.words[o] = base.words[o] \/ \E i \in DOMAIN target.rel : target.rel[i].offset = o
SameWords(target, base) == target.words = base.words
DiffInit(name, target, base) ==
  CASE Size(target, name) = 0 /\ Size(base, name) = 0 -> "match"
    [] Size(target, name) > 0 /\ Size(base, name) = 0 -> "missing"
    [] Size(target, name) = 0 /\ Size(base, name) > 0 -> "extra"
    [] Size(target, name) > 0 /\ Size(base, name) > 0 ->
         LET t == CHOOSE k \in Named(target, name) : TRUE
             b == CHOOSE k \in Named(base, name) : TRUE
         IN CASE target.sections[t].nobits # base.sections[b].nobits -> "class"
              [] target.sections[t].size # base.sections[b].size -> "size"
              [] Relocations(target, t) # Relocations(base, b) -> "referent"
              [] ~SameWords(target.sections[t], base.sections[b]) -> "bytes"
              [] OTHER -> "match"
DiffBss(name, target, base) ==
  CASE (Named(target, name) = {}) # (Named(base, name) = {}) -> "missing"
    [] Size(target, name) # Size(base, name) -> "size"
    [] NameAllocations(target, name) # NameAllocations(base, name) -> "layout"
    [] OTHER -> "match"

(***************************************************************************)
(* Placement: roundtrip.plan.  A unit is its functions, data and rodata.   *)
(***************************************************************************)
Claims(unit) ==
  {[name |-> f.symbol, va |-> f.va, size |-> f.size, section |-> ".text", extent |-> f.size] : f \in Range(unit.functions)}
  \cup {[name |-> d.symbol, va |-> d.va, size |-> d.size, section |-> SectionOf(d),
         extent |-> IF d.reservation > d.size THEN d.reservation ELSE d.size] : d \in Range(unit.data)}
Owning(object, claim) == {e \in Range(object.symbols) : e.section # 0 /\ e.name = claim.name}
Witness(object, claim) == CHOOSE e \in Owning(object, claim) : TRUE
ClaimFits(object, claim) ==
  /\ Cardinality(Owning(object, claim)) = 1
  /\ LET e == Witness(object, claim)
     IN /\ object.sections[e.section].name = claim.section /\ e.size = claim.size
        /\ e.value + claim.extent <= object.sections[e.section].size
Bases(object, unit, name) ==
  {c.va - Witness(object, c).value : c \in {d \in Claims(unit) : d.section = name}}
  \cup (IF name = ".rodata" /\ unit.rodata # <<>> THEN {unit.rodata[1]} ELSE {})
TextExtent(unit) ==
  IF unit.functions = <<>> THEN 0
  ELSE Last(unit.functions).va + Last(unit.functions).size - unit.functions[1].va
BaseAgreed(object, unit, name) == Cardinality(Bases(object, unit, name)) = 1
Base(object, unit, name) == CHOOSE b \in Bases(object, unit, name) : TRUE
Disjoint(object, unit, name) ==
  \A c, d \in {x \in Claims(unit) : x.section = name} :
    c # d => \/ Witness(object, c).value + c.extent <= Witness(object, d).value
             \/ Witness(object, d).value + d.extent <= Witness(object, c).value
PlaceableIn(object, unit, names) ==
  /\ \A c \in Claims(unit) : ClaimFits(object, c)
  /\ \A k \in DOMAIN object.sections :
       LET s == object.sections[k] IN
       /\ \A m \in DOMAIN object.sections : object.sections[m].name = s.name => m = k
       /\ s.size > 0 /\ s.name \in names =>
            /\ BaseAgreed(object, unit, s.name) /\ Disjoint(object, unit, s.name)
            /\ Base(object, unit, s.name) % s.align = 0
            /\ s.name = ".text" => s.size = TextExtent(unit)
            /\ s.name = ".rodata" => unit.rodata # <<>> /\ unit.rodata[2] <= s.size
  /\ \A c \in Claims(unit) : Named(object, c.section) # {}
  /\ unit.rodata # <<>> => Size(object, ".rodata") > 0
Placeable(object, unit) == PlaceableIn(object, unit, Range(SectionNames))

\* Undefined symbols stand for the one address the catalog knows: roundtrip.externals.
Externals(object, catalog) ==
  \A k \in DOMAIN object.sections : \A r \in Range(object.sections[k].rel) :
    object.symbols[r.index].section = 0 =>
      Cardinality(AddressBook(catalog, NameOf(object, r.index))) = 1
SymbolAddress(object, unit, catalog, name) ==
  LET e == CHOOSE e \in {x \in DOMAIN object.symbols : NameOf(object, x) = name} : TRUE
      s == object.symbols[e].section
  IN IF s # 0 THEN Base(object, unit, object.sections[s].name) + object.symbols[e].value
     ELSE CHOOSE a \in AddressBook(catalog, name) : TRUE
LinkedObject(object, unit, catalog) ==
  LET Addresses(relocs) == [name \in {r.symbol : r \in Range(relocs)} |-> SymbolAddress(object, unit, catalog, name)]
      Loaded(k) == Linked([blob |-> object.sections[k].words, relocs |-> Relocations(object, k)], Addresses(Relocations(object, k)))
  IN [k \in DOMAIN object.sections |-> IF object.sections[k].nobits THEN <<>> ELSE Loaded(k)]
\* roundtrip.verify_unit: no issue before the link, then the bytes of the image.
Verifiable(object, unit, catalog) == Placeable(object, unit) /\ Externals(object, catalog)
CompareLinked(object, unit, catalog, retail) ==
  \A k \in DOMAIN object.sections :
    LET s == object.sections[k] IN
    s.size > 0 /\ ~s.nobits =>
      \A o \in 0 .. s.size - 1 :
        LinkedObject(object, unit, catalog)[k][o] = retail[Base(object, unit, s.name) + o]
\* data_match.diff_unit: every section, then the placement of the data claims on both sides.
DiffUnit(target, base, unit) ==
  /\ \A name \in {".data", ".rodata", ".sdata"} : DiffInit(name, target, base) = "match"
  /\ \A name \in {".bss", ".sbss"} : DiffBss(name, target, base) = "match"
  /\ \A object \in {target, base} :
       PlaceableIn(object, [unit EXCEPT !.functions = <<>>], Range(SectionNames) \ {".text"})

(***************************************************************************)
(* Spans.  roundtrip.find_overlaps sweeps placements sorted by start;      *)
(* data_match.coverage subtracts claims from the census.                   *)
(***************************************************************************)
Span(start, end) == <<start, end>>
SpanOrder(a, b) == a[1] < b[1] \/ (a[1] = b[1] /\ a[2] < b[2])
PlacementOrder(a, b) == SpanOrder(a, b) \/ (a[1] = b[1] /\ a[2] = b[2] /\ a[3] < b[3])  \* third: the unit
\* Mutant: a span is compared with its successor only.
FindOverlapsNext(spans) ==
  LET s == SetToSortSeq(spans, PlacementOrder)
  IN {{s[i], s[i + 1]} : i \in {k \in 1 .. Len(s) - 1 : s[k + 1][1] < s[k][2]}}
FindOverlaps(spans) ==  \* the sweep of i stops at the first span that starts at its end or later
  LET s == SetToSortSeq(spans, PlacementOrder)
  IN UNION {{{s[i], s[j]} : j \in {k \in i + 1 .. Len(s) : \A m \in i + 1 .. k : s[m][1] < s[i][2]}}
            : i \in DOMAIN s}
Union(ranges) ==
  FoldLeft(LAMBDA out, r :
             IF r[1] >= r[2] THEN out
             ELSE IF out # <<>> /\ r[1] <= Last(out)[2]
             THEN [out EXCEPT ![Len(out)] = Span(@[1], IF @[2] > r[2] THEN @[2] ELSE r[2])]
             ELSE Append(out, r),
           <<>>, SetToSortSeq(ranges, SpanOrder))
SubtractStep(state, owner, end) ==
  IF state.stop \/ owner[2] <= state.start THEN state
  ELSE IF owner[1] >= end THEN [state EXCEPT !.stop = TRUE]
  ELSE [state EXCEPT !.out = IF owner[1] > state.start THEN Append(@, Span(state.start, owner[1])) ELSE @,
                     !.start = IF @ > owner[2] THEN @ ELSE owner[2]]
Subtract(start, end, owners) ==
  LET final == FoldLeft(LAMBDA state, owner : SubtractStep(state, owner, end),
                        [start |-> start, stop |-> FALSE, out |-> <<>>], owners)
  IN IF final.start < end THEN Append(final.out, Span(final.start, end)) ELSE final.out
Length(spans) == FoldLeft(LAMBDA n, r : n + r[2] - r[1], 0, spans)
Coverage(census, claims) ==
  LET rows == Union(census)
      total == Length(rows)
      unowned == FoldLeft(LAMBDA n, r : n + Length(Subtract(r[1], r[2], Union(claims))), 0, rows)
  IN [owned |-> total - unowned, total |-> total]
==============================================================================
