------------------------------ MODULE MCObjects ------------------------------
EXTENDS NativeObject, TLC
(***************************************************************************)
(* Objects of units against the image they were carved from.               *)
(***************************************************************************)
\* An image of fifteen words: f and g in one unit with d, e and read-only words, a vendored copy of g apart.
Func(name, va, size) == [name |-> name, va |-> va, size |-> size, fragments |-> 1]
ImageFunctions == {Func("f", 3, 4), Func("g", 7, 2), Func("g", 15, 1)}
Data(name, va, size) == [va |-> va, size |-> size, symbol |-> name]
ImageData == {Data(Plain("d"), 10, 1), Data(Plain("e"), 12, 1), Data(Dat(2), 2, 1), Data(Plain("r"), 14, 1)}
Word(op, reg, field) == [op |-> op, reg |-> reg, field |-> field]
Row(kind, site, paired, target, status, name) ==
  [kind |-> kind, site |-> site, paired |-> paired, target |-> target, status |-> status, region |-> "load",
   channel |-> "reachable-code", name |-> name, opcode |-> IF kind = "mips26" THEN "jal" ELSE ""]
\* Targets of two address pairs in f, of a call or of a pair in g, and of a pointer in d.
ImageWords(a, b, c) ==
  [at \in 2 .. 15 |->
    CASE at = 3 -> Word("lui", 1, High(a)) [] at = 4 -> Word("lui", 2, High(b))
      [] at = 5 -> Word("addiu", 1, a % Radix) [] at = 6 -> Word("lw", 2, b % Radix)
      [] at = 7 -> IF c = 3 THEN Word("jal", 0, c) ELSE Word("lui", 1, High(c))
      [] at = 8 -> IF c = 3 THEN Word("jal", 0, 15) ELSE Word("addiu", 1, c % Radix)
      [] at = 10 -> Word("data", 0, b) [] at = 11 -> Word("data", 0, 9) [] at = 12 -> Word("data", 0, a)
      [] at = 13 -> Word("data", 0, c) [] OTHER -> Word("data", 0, at)]
Pairs(a, b) == {Row("hi_lo", p[1], p[2], p[3], s[1], s[2]) :
                  p \in {<<3, 5, a>>, <<4, 6, b>>, <<3, 6, a>>},
                  s \in {"reviewed"} \X {Plain(""), Plain("d"), Dat(10), Dat(2)} \cup {<<"candidate", Plain("")>>}}
Others(a, b, c) ==
  {Row("mips26", 7, -1, 3, "candidate", Plain("")), Row("mips26", 8, -1, 15, "candidate", Plain("")),
   Row("hi_lo", 7, 8, c, "candidate", Plain("")), Row("hi_lo", 4, 6, c, "candidate", Plain("")),
   Row("word", 10, -1, b, "reviewed", Plain("e")), Row("word", 12, -1, a, "reviewed", Plain("")),
   Row("word", 12, -1, c, "reviewed", Plain(""))} \cup Pairs(a, b)
Datum(symbol, va, section, local, reservation) ==
  [symbol |-> Plain(symbol), va |-> va, size |-> 1, storage |-> IF va > 15 THEN "bss" ELSE "load",
   section |-> section, local |-> local, reservation |-> reservation]
UnitData == {<<>>, <<Datum("d", 10, "", FALSE, 0), Datum("e", 12, "", TRUE, 0)>>,
             <<Datum("d", 10, "", FALSE, 0), Datum("e", 12, ".sdata", FALSE, 0)>>,
             <<Datum("d", 11, "", FALSE, 0), Datum("e", 12, "", FALSE, 0)>>,
             <<Datum("d", 11, "", TRUE, 0), Datum("e", 14, "", FALSE, 0)>>,
             <<Datum("d", 10, "", FALSE, 0), Datum("b", 16, "", FALSE, 2), Datum("c", 18, "", TRUE, 0)>>}
Units == {[functions |-> fs, data |-> data, rodata |-> r] :
            fs \in {<<Func("f", 3, 4)>>, <<Func("f", 3, 4), Func("g", 7, 2)>>},
            data \in UnitData, r \in {<<13, 2>>}}
ObjectInput(in) ==
  \E w \in {5, 12} \X {3, 10} \X {3, 13}, u \in Units :
    \E r \in Pairs(w[1], w[2]), q \in Others(w[1], w[2], w[3]) :
      in = [unit |-> u, words |-> w, rows |-> <<r, q>>]
Case(in) ==
  LET retail == ImageWords(in.words[1], in.words[2], in.words[3])
      catalog == LoadCatalog(ImageFunctions, {15}, ImageData, Range(in.rows))
      Admitted1(va) == CHOOSE f \in catalog.functions : f.va = va
      unit == [in.unit EXCEPT !.functions = [k \in DOMAIN @ |-> Admitted1(@[k].va)]]
  IN [retail |-> retail, catalog |-> catalog, unit |-> unit,
      content |-> ModuleObject(unit, retail, in.rows, catalog, "safe")]
ObjectRelinks(case, object) ==
  /\ \A k \in DOMAIN object.sections :
       Range(Relocations(object, k)) = Range(case.content[object.sections[k].name].relocs)
  /\ Verifiable(object, case.unit, case.catalog) /\ ~Crossed(case.content[".text"].relocs)
       => CompareLinked(object, case.unit, case.catalog, case.retail)
\* Each function and each load datum by itself, with and without the unit's read-only words.
StandsAt(symbol, owner, catalog, rodata) ==
  CASE symbol = Text -> owner.va [] symbol = Rodata -> rodata[1]
    [] OTHER -> CHOOSE a \in AddressBook(catalog, symbol) \cup {-1} : AddressBook(catalog, symbol) = {} \/ a # -1
OwnersRelink(in, case) ==
  \A o \in {Owner(f, TRUE) : f \in Range(case.unit.functions)} \cup {Owner(d, FALSE) : d \in {x \in Range(case.unit.data) : x.storage = "load"}},
     rodata \in {<<>>, case.unit.rodata}, policy \in {"safe", "all"} :
    LET rows == RowsOf(in.rows, o)
        carved == Carve(case.retail, o, rows, case.catalog, policy, rodata)
        address == [s \in {r.symbol : r \in Range(carved.relocs)} |-> StandsAt(s, o, case.catalog, rodata)]
    IN RelinksTo(case.retail, o, rows, case.catalog, policy, rodata, address)
\* A reconstruction that differs from the target in one word, relocation, symbol or extent.
Differing(content) ==
  {content} \cup UNION {LET s == content[n] IN
    {[content EXCEPT ![n].words[o].field = @ + 1] : o \in DOMAIN s.words}
    \cup {[content EXCEPT ![n].relocs = Tail(@)] : x \in {y \in {n} : s.relocs # <<>>}}
    \cup {[content EXCEPT ![n].relocs[i].symbol = Plain("d")] : i \in DOMAIN s.relocs}
    \cup {[content EXCEPT ![n].symbols[i].name = Plain("z")] : i \in DOMAIN s.symbols}
    \cup {[content EXCEPT ![n].symbols[i].value = 1 - @] : i \in {j \in DOMAIN s.symbols : s.symbols[j].value < 2}}
    \cup {[content EXCEPT ![n].size = @ - 1, ![n].symbols = <<>>, ![n].relocs = <<>>] : x \in {y \in {n} : s.size > 1}}
   : n \in {".data", ".sdata", ".bss"}}
Loads(case, object) ==
  LET linked == LinkedObject(object, case.unit, case.catalog)
  IN {<<object.sections[k].name, linked[k]>> :
        k \in {x \in DOMAIN linked : object.sections[x].name \in {".data", ".sdata", ".rodata"}}}
LinkAlike(case, target, base) ==
  DiffUnit(target, base, case.unit) /\ Externals(base, case.catalog) =>
    /\ Loads(case, base) = Loads(case, target)
    /\ NameAllocations(base, ".bss") = NameAllocations(target, ".bss")
MatchedLinksAlike(case, target) ==
  Verifiable(target, case.unit, case.catalog) =>
    \A content \in Differing(case.content) : Writable(content) => LinkAlike(case, target, WriteObject(content))
ObjectsHold(in) ==
  LET Written(case, object) == ObjectRelinks(case, object) /\ MatchedLinksAlike(case, object)
      Carved(case) == Delinkable(case.unit, case.content) => Written(case, WriteObject(case.content))
  IN OwnersRelink(in, Case(in)) /\ Carved(Case(in))
SpanInput(in) == \E a, b, c \in {Span(s, e) : s \in 0 .. 4, e \in 1 .. 5} :
                   a[1] < a[2] /\ b[1] < b[2] /\ c[1] < c[2] /\ in = <<a, b, c>>
Within(spans) == {x \in 0 .. 6 : \E s \in spans : s[1] <= x /\ x < s[2]}
SpansAgree(in) ==
  /\ LET placed == {<<in[i][1], in[i][2], i>> : i \in 1 .. 3}
     IN FindOverlaps(placed) = {p \in SUBSET placed :
          Cardinality(p) = 2 /\ \E x \in 0 .. 6 : \A s \in p : x \in Within({s})}
  /\ LET c == Coverage({in[1], in[2]}, {in[3]}) IN
     /\ c.total = Cardinality(Within({in[1], in[2]}))
     /\ c.owned = Cardinality(Within({in[1], in[2]}) \cap Within({in[3]}))
  /\ LET c == Coverage({in[1]}, {in[2], in[3]}) IN c.owned = Cardinality(Within({in[1]}) \cap Within({in[2], in[3]}))
(***************************************************************************)
(* Native objects, and ELF objects bridged to the native linker.           *)
(***************************************************************************)
\* Two functions whose pair, call and pointer reach a datum, a section or an external symbol.
Filled(op, reg) == [op |-> op, reg |-> reg, field |-> 0]
Ext == Expression("symbol", 7, <<>>)
Own == Expression("symbol", 5, <<>>)
InData == Expression("section", 2, <<>>)
Expressions ==
  {Ext, Own, InData, Constant(2)}
  \cup {Expression(op, 0, <<Constant(c), e>>) : op \in {"add", "subtract"}, c \in {2, -1}, e \in {Ext, InData, Constant(1)}}
  \cup {Expression("add", 0, <<InData, Constant(2)>>), Expression("subtract", 0, <<InData, Constant(2)>>), Expression("subtract", 0, <<Ext, InData>>),
        Expression("subtract", 0, <<Constant(1), Expression("add", 0, <<Constant(3), InData>>)>>)}
Patch(value, kind, e) == Rec("patch", 0, 0, value, kind, e)
\* in: the expressions of the pair, of the other patch; its kind; reservations; the debug extents; the referent.
Stream(in) ==
  <<Rec("section", 0, 1, 0, ".text", <<>>), Rec("section", 0, 2, 0, ".data", <<>>), Rec("switch", 0, 1, 0, "", <<>>),
    Rec("defined", 1, 3, 0, "f", <<>>), Rec("defined", 1, 4, 3, "g", <<>>), Rec("defined", 2, 5, 1, "d", <<>>), Rec("external", 0, 7, 0, "x", <<>>)>>
  \o (IF in.extent = 0 THEN <<Rec("debug", 0, 0, 1, "f", <<>>)>> ELSE <<Rec("function", 1, 0, 0, "f", <<>>), Rec("end function", 1, 0, in.extent, "f", <<>>)>>)
  \o <<Rec("debug", 0, 0, 1, "g", <<>>), Rec("data", 0, 0, 0, "", <<Filled("nop", 0), Filled("lui", 1)>>), Patch(1, "hi", in.pair),
       Rec("data", 0, 0, 0, "", <<Filled(in.low, 1), Filled(IF in.kind = "jump" THEN "jal" ELSE "data", 0)>>)>>
  \o (IF in.reserved THEN <<Rec("reserve", 0, 0, 1, "", <<>>)>> ELSE <<>>)
  \o <<Patch(0, "lo", in.pair), Patch(1, in.kind, in.other), Rec("data", 0, 0, 0, "", <<Filled("nop", 0)>>), Rec("switch", 0, 2, 0, "", <<>>)>>
  \o (IF in.reserved THEN <<Rec("reserve", 0, 0, 1, "", <<>>)>> ELSE <<>>)
  \o <<Rec("data", 0, 0, 0, "", <<Filled("data", 0), Filled("data", 0)>>), Patch(in.at, "word", in.other), Rec("end", 0, 0, 0, "", <<>>)>>
ReferentRow(addend, paired) == [function |-> "f", site |-> 1, paired |-> paired, owner |-> "d", addend |-> addend]
NativeInput(in) ==
  \E pair, other \in Expressions, kind \in {"jump", "word"}, reserved \in BOOLEAN, extent \in {0, 3}, low \in {"addiu", "ori"},
     referents \in {<<>>, <<ReferentRow(1, 2)>>, <<ReferentRow(0, 2)>>, <<ReferentRow(1, 1)>>, <<ReferentRow(1, 2), ReferentRow(1, 2)>>} :
    /\ (low = "ori" => referents # <<>>) /\ (reserved => other \in {Ext, InData})
    /\ in = [pair |-> pair, other |-> other, kind |-> kind, reserved |-> reserved, extent |-> extent, referents |-> referents, low |-> low, at |-> IF kind = "word" THEN 1 ELSE 0]

\* The native linker: what an expression is worth once sections and symbols have their addresses.
Placements == {[text |-> t, data |-> d, x |-> x] : t \in {0, 4}, d \in {6, 9}, x \in {5, 14}}
AddressIn(place, name) ==
  CASE name \in {".text", "f"} -> place.text [] name = "g" -> place.text + 3
    [] name = ".data" -> place.data [] name = "d" -> place.data + 1 [] name = "x" -> place.x
\* Where the sections and symbols of an object stand.
Standing(o, place) ==
  LET Base1(n) == IF n = 0 THEN place.x ELSE AddressIn(place, o.sections[n].name)
  IN [section |-> [n \in DOMAIN o.sections |-> Base1(n)], symbol |-> [n \in DOMAIN o.symbols |-> Base1(o.symbols[n].section) + o.symbols[n].value]]
RECURSIVE Worth(_, _)
Worth(at, e) ==
  CASE e.op = "constant" -> e.number [] e.op = "section" -> at.section[e.number] [] e.op = "symbol" -> at.symbol[e.number]
    [] e.op = "add" -> (Worth(at, e.args[2]) + Worth(at, e.args[1])) % Space
    [] e.op = "subtract" -> (Worth(at, e.args[2]) - Worth(at, e.args[1])) % Space
Patched(kind, worth) == CASE kind = "jump" -> worth % Window [] kind = "hi" -> High(worth) [] kind = "lo" -> worth % Radix [] kind = "word" -> worth
\* The words as the stream lays them out, and where its patches land.
TextWords(in) ==
  <<Filled("nop", 0), Filled("lui", 1), Filled(in.low, 1), Filled(IF in.kind = "jump" THEN "jal" ELSE "data", 0)>>
  \o (IF in.reserved THEN <<Zero>> ELSE <<>>) \o <<Filled("nop", 0)>>
NativeText(in, at) ==
  [o \in 0 .. Len(TextWords(in)) - 1 |->
    LET w == TextWords(in)[o + 1] IN
    CASE o = 1 -> [w EXCEPT !.field = Patched("hi", Worth(at, in.pair))] [] o = 2 -> [w EXCEPT !.field = Patched("lo", Worth(at, in.pair))]
      [] o = 3 -> [w EXCEPT !.field = Patched(in.kind, Worth(at, in.other))] [] OTHER -> w]
NativeData(in, at) ==
  LET first == IF in.reserved THEN 1 ELSE 0
  IN [o \in 0 .. first + 1 |-> IF o = first + in.at THEN [Zero EXCEPT !.field = Worth(at, in.other)] ELSE Zero]
\* How often an expression counts each referent.
RECURSIVE Counts(_, _)
Counts(e, leaf) == IF e.args = <<>> THEN (IF e = leaf THEN 1 ELSE 0)
                   ELSE Counts(e.args[2], leaf) + (IF e.op = "add" THEN 1 ELSE -1) * Counts(e.args[1], leaf)
OneReferent(e) == \E leaf \in {Ext, Own, InData} : Counts(e, leaf) = 1 /\ \A l \in {Ext, Own, InData} \ {leaf} : Counts(e, l) = 0
Reaches(in, o) == in.low = "addiu" /\ \A place \in Placements : Worth(Standing(o, place), in.pair) = (place.data + 1 + in.referents[1].addend) % Space
ViewHolds(in, view) ==
  LET text == view.content[".text"]
      data == view.content[".data"]
      named == {s \in Range(text.symbols) : s.size > 0}
  IN /\ view.ok => /\ OneReferent(in.pair) /\ OneReferent(in.other) /\ (in.referents # <<>> => Reaches(in, view.object))
                   /\ \A place \in Placements :
                        LET A == [symbol \in {r.symbol : r \in Range(text.relocs) \cup Range(data.relocs)} |-> AddressIn(place, symbol.name)] IN
                        /\ Linked([blob |-> text.words, relocs |-> text.relocs], A) = NativeText(in, Standing(view.object, place))
                        /\ Linked([blob |-> data.words, relocs |-> data.relocs], A) = NativeData(in, Standing(view.object, place))
                   /\ \A s, t \in named : s.value < t.value => s.value + s.size <= t.value
                   /\ \A w \in DOMAIN text.words : \E s \in named : Covers(s.value, s.size, w)
     /\ OneReferent(in.pair) /\ OneReferent(in.other) /\ in.referents = <<>> => view.ok
ViewLinksAlike(in) == ViewHolds(in, ElfView(Stream(in), {}, <<>>, in.referents))

(***************************************************************************)
(* An ELF object made from what it means: pairs, a jump and a pointer,     *)
(* each to a symbol and an addend.                                         *)
(***************************************************************************)
ElfSymbol(name, value, local, section) == [name |-> name, value |-> value, local |-> local, section |-> section]
ElfSymbols == <<ElfSymbol("", 0, TRUE, 0), ElfSymbol("", 0, TRUE, 2), ElfSymbol("l", 1, TRUE, 2), ElfSymbol("f", 0, FALSE, 1),
                ElfSymbol("d", 1, FALSE, 2), ElfSymbol("x", 0, FALSE, 0), ElfSymbol("k", 6, FALSE, Absolute), ElfSymbol("u", 0, TRUE, 0)>>
Means(symbol, addend) == [symbol |-> symbol, addend |-> addend]
MeantAt(place, m) ==
  LET s == ElfSymbols[m.symbol]
  IN ((CASE s.section = 1 -> place.text [] s.section = 2 -> place.data [] s.section = 0 -> place.x [] s.section = Absolute -> 0) + s.value + m.addend) % Space
RelOf(offset, kind, m) == [offset |-> offset, kind |-> kind, index |-> m.symbol]
ElfInput(in) ==
  \E first, second \in {Means(i, a) : i \in {2, 3, 5, 6}, a \in {0, 2, 3}}, third \in {Means(i, a) : i \in {4, 7, 8}, a \in {0, 1}},
     order \in {<<1, 2, 3, 4, 5>>, <<1, 3, 2, 4, 5>>, <<5, 1, 3, 4, 2>>, <<3, 4, 1, 2>>, <<2, 1, 3, 4>>, <<1, 4, 2>>}, trap \in {"nop", "trap"} :
    /\ (third.symbol = 8 => third.addend = 0) /\ (trap = "trap" => third.symbol = 4)
    /\ in = [first |-> first, second |-> second, third |-> third, order |-> order, trap |-> trap]
\* Words 0 and 2 are the pair of first, 1 and 3 that of second; word 4 jumps, and so is the datum's pointer.
ElfOf(in) ==
  LET Pair1 == <<RelOf(0, "HI16", in.first), RelOf(2, "LO16", in.first), RelOf(1, "HI16", in.second), RelOf(3, "LO16", in.second), RelOf(4, "26", in.third)>>
      W(op, field) == [op |-> op, reg |-> 1, field |-> field]
      text == <<W("lui", High(in.first.addend)), W("lui", High(in.second.addend)), W("addiu", in.first.addend % Radix), W("lw", in.second.addend % Radix),
                W("jal", in.third.addend), W(in.trap, 0)>>
      data == <<W("data", 0), W("data", in.first.addend)>>
      Sect(name, words, nobits, rel) == [name |-> name, size |-> IF nobits THEN 3 ELSE Len(words), align |-> 2, nobits |-> nobits, words |-> [o \in 0 .. Len(words) - 1 |-> words[o + 1]], rel |-> rel]
  IN [symbols |-> ElfSymbols,
      sections |-> <<Sect(".text", text, FALSE, [n \in DOMAIN in.order |-> Pair1[in.order[n]]]),
                     Sect(".data", data, FALSE, <<RelOf(0, "none", in.first), RelOf(1, "32", in.first)>>), Sect(".bss", <<>>, TRUE, <<>>)>>]
\* The low half of a high one follows it before any other of its symbol, as the ABI demands.
Followed(in, high, low) ==
  LET At(n) == CHOOSE p \in DOMAIN in.order : in.order[p] = n
      other == IF low = 2 THEN 4 ELSE 2
  IN high \in Range(in.order) =>
       /\ low \in Range(in.order) /\ At(high) < At(low)
       /\ other \in Range(in.order) /\ in.first.symbol = in.second.symbol => At(other) < At(high) \/ At(low) < At(other)
\* The native linker on one section of the object that lnk.py reads.
NativeLinked(o, number, at) ==
  FoldLeft(LAMBDA words, p : [words EXCEPT ![p.offset].field = Patched(p.kind, Worth(at, p.expression))], o.sections[number].words, o.sections[number].patches)
BridgePlaced(in, place, text, data, elf) ==
  LET Meant(m, kind) == Patched(kind, MeantAt(place, m))
  IN /\ \A n \in Range(in.order) :
          CASE n = 1 -> text[0].field = Meant(in.first, "hi") [] n = 2 -> text[2].field = Meant(in.first, "lo")
            [] n = 3 -> text[1].field = Meant(in.second, "hi") [] n = 4 -> text[3].field = Meant(in.second, "lo")
            [] n = 5 -> text[4].field = Meant(in.third, "jump")
     /\ data[1].field = Meant(in.first, "word") /\ data[0] = elf.sections[2].words[0]
     /\ text[5] = elf.sections[1].words[5]
BridgeHolds(in, elf, o) ==
  /\ Convertible(elf) => ~o.failed
  /\ Followed(in, 1, 2) /\ Followed(in, 3, 4) =>
       /\ Convertible(elf) <=> in.trap = "nop" /\ (in.third.symbol = 8 => 5 \notin Range(in.order))
       /\ Convertible(elf) =>
            /\ o.sections[3].size = 3
            /\ \A place \in Placements :
                 BridgePlaced(in, place, NativeLinked(o, 1, Standing(o, place)), NativeLinked(o, 2, Standing(o, place)), elf)
BridgeLinksAlike(in) ==
  LET Converted(elf) == BridgeHolds(in, elf, ReadObject(Convert(elf)))
  IN Converted(ElfOf(in))
==============================================================================
