---------------------------- MODULE NativeObject ----------------------------
(***************************************************************************)
(* scripts/kf/lnk.py: a native Psy-Q object is a stream of records, its    *)
(* patches expressions over symbols and section starts.  read makes the    *)
(* object of the stream; elf_view turns it into the sections, symbols and  *)
(* relocations that Objects writes, to be compared with a retail target.   *)
(*                                                                         *)
(* A record is [tag, section, number, value, name, payload]; offsets count *)
(* words.  An expression is [op, number, args], the args as serialized: the *)
(* second is the left operand.                                             *)
(***************************************************************************)
EXTENDS Objects

Expression(op, number, args) == [op |-> op, number |-> number, args |-> args]
Rec(tag, section, number, value, name, payload) ==
  [tag |-> tag, section |-> section, number |-> number, value |-> value, name |-> name, payload |-> payload]
Constant(v) == Expression("constant", v % Space, <<>>)
NoObject == [sections |-> <<>>, symbols |-> <<>>, locals |-> <<>>, functions |-> {}, declared |-> {},
             active |-> 0, chunk |-> 0, open |-> <<>>, ended |-> FALSE, failed |-> FALSE]
LocalOf(name, section, value) == [name |-> name, section |-> section, value |-> value, local |-> TRUE, common |-> FALSE]
SymbolOf(r) == [name |-> r.name, section |-> IF r.tag = "external" THEN 0 ELSE r.section, value |-> IF r.tag = "external" THEN 0 ELSE r.value,
                local |-> FALSE, common |-> r.tag = "common"]
Extended(words, n, more) == [o \in 0 .. n + Len(more) - 1 |-> IF o < n THEN words[o] ELSE more[o - n + 1]]

(***************************************************************************)
(* The reader.  A patch counts from the start of the last chunk of data,   *)
(* not of a reservation; a function's records must nest in nothing.        *)
(***************************************************************************)
Failing(o) == [o EXCEPT !.failed = TRUE]
Declare(o, r) ==
  IF r.value # 0 \/ r.number \in DOMAIN o.sections THEN Failing(o)
  ELSE [o EXCEPT !.sections = @ @@ (r.number :> [name |-> IF r.name = ".rdata" THEN ".rodata" ELSE r.name, size |-> 0, words |-> <<>>, patches |-> <<>>])]
Grow(o, more) ==
  LET s == o.sections[o.active]
  IN [o EXCEPT !.sections[o.active] = [s EXCEPT !.words = Extended(s.words, s.size, more), !.size = @ + Len(more)]]
\* Mutant: a patch counts from what was filled last, a reservation too.
FillFromLast(o, r) ==
  CASE r.tag = "data" -> [Grow(o, r.payload) EXCEPT !.chunk = o.sections[o.active].size]
    [] r.tag = "reserve" -> [Grow(o, [n \in 1 .. r.value |-> Zero]) EXCEPT !.chunk = o.sections[o.active].size]
    [] r.tag = "patch" -> [o EXCEPT !.sections[o.active].patches = Append(@, [offset |-> o.chunk + r.value, kind |-> r.name, expression |-> r.payload])]
Fill(o, r) ==
  CASE r.tag = "data" -> [Grow(o, r.payload) EXCEPT !.chunk = o.sections[o.active].size]
    [] r.tag = "reserve" -> Grow(o, [n \in 1 .. r.value |-> Zero])
    [] r.tag = "patch" -> [o EXCEPT !.sections[o.active].patches = Append(@, [offset |-> o.chunk + r.value, kind |-> r.name, expression |-> r.payload])]
EndFunction(o, r) ==
  IF o.open = <<>> \/ o.open[1].section # r.section \/ o.open[1].value > r.value THEN Failing(o)
  ELSE [o EXCEPT !.open = <<>>,
                 !.functions = {f \in @ : f.name # o.open[1].name} \cup {[name |-> o.open[1].name, section |-> r.section, start |-> o.open[1].value, size |-> r.value - o.open[1].value]}]
ReadRecord(o, r) ==
  CASE o.failed \/ o.ended -> Failing(o)
    [] r.tag = "end" -> [o EXCEPT !.ended = TRUE, !.failed = o.open # <<>>]
    [] r.tag = "section" -> Declare(o, r)
    [] r.tag = "switch" -> IF r.number \notin DOMAIN o.sections THEN Failing(o) ELSE [o EXCEPT !.active = r.number, !.chunk = o.sections[r.number].size]
    [] r.tag \in {"data", "reserve", "patch"} -> IF o.active = 0 THEN Failing(o) ELSE Fill(o, r)
    [] r.tag \in {"defined", "external", "common"} -> IF r.number \in DOMAIN o.symbols THEN Failing(o) ELSE [o EXCEPT !.symbols = @ @@ (r.number :> SymbolOf(r))]
    [] r.tag = "local" -> [o EXCEPT !.locals = Append(@, LocalOf(r.name, r.section, r.value))]
    [] r.tag = "function" -> IF o.open # <<>> THEN Failing(o) ELSE [o EXCEPT !.open = <<[name |-> r.name, section |-> r.section, value |-> r.value]>>]
    [] r.tag = "end function" -> EndFunction(o, r)
    [] r.tag = "debug" -> IF r.value = 1 THEN [o EXCEPT !.declared = @ \cup {r.name}] ELSE o
    [] r.tag \in {"file", "mips", "line", "scope"} -> o
    [] OTHER -> Failing(o)
ReadObject(records) == LET o == FoldLeft(ReadRecord, NoObject, records) IN [o EXCEPT !.failed = @ \/ ~o.ended]

(***************************************************************************)
(* One referent and an addend, or nothing that a relocation can say.       *)
(***************************************************************************)
Signed(v) == IF 2 * v >= Space THEN v - Space ELSE v
Failed == [referent |-> <<>>, addend |-> 0, failed |-> TRUE]
Affinely(referent, addend) == [referent |-> referent, addend |-> addend, failed |-> FALSE]
RECURSIVE Affine(_)
Affine(e) ==
  CASE e.op = "constant" -> Affinely(<<>>, Signed(e.number))
    [] e.op \in {"symbol", "section"} -> Affinely(<<e.op, e.number>>, 0)
    [] OTHER -> LET left == Affine(e.args[2])
                    right == Affine(e.args[1])
                IN CASE left.failed \/ right.failed -> Failed
                     [] e.op = "add" /\ (left.referent = <<>> \/ right.referent = <<>>) ->
                          Affinely(IF left.referent = <<>> THEN right.referent ELSE left.referent, left.addend + right.addend)
                     [] e.op = "subtract" /\ right.referent = <<>> -> Affinely(left.referent, left.addend - right.addend)
                     [] OTHER -> Failed

(***************************************************************************)
(* The view.  ok is FALSE where elf_view raises.                           *)
(***************************************************************************)
Families == Range(SectionNames)
FunctionNames(o, named) == named \cup {f.name : f \in o.functions} \cup o.declared
SymbolsOf(o) == LET numbers == SetToSortSeq(DOMAIN o.symbols, <) IN SelectSeq([n \in DOMAIN numbers |-> o.symbols[numbers[n]]] \o o.locals, LAMBDA s : s.section # 0)
SymbolsIn(o, number) == SelectSeq(SymbolsOf(o), LAMBDA s : s.section = number /\ ~s.common)
Numbered(o, name) == CHOOSE n \in DOMAIN o.sections : o.sections[n].name = name
Text1(o) == o.sections[Numbered(o, ".text")]
\* A function without a debug extent ends where the next one starts.
SizeOfFunction(o, names, s) ==
  LET known == {f \in o.functions : f.name = s.name}
      starts == {t.value : t \in {u \in Range(SymbolsIn(o, s.section)) : u.name \in names}}
      ends == {b \in starts \cup {Text1(o).size} : b > s.value}
  IN IF known # {} THEN (CHOOSE f \in known : TRUE).size
     ELSE IF ends = {} THEN 0 ELSE (CHOOSE b \in ends : \A c \in ends : b <= c) - s.value
ViewSymbol(o, names, sizes, s) ==
  [name |-> Plain(s.name), value |-> s.value, local |-> s.local,
   size |-> IF o.sections[s.section].name = ".text" /\ s.name \in names THEN SizeOfFunction(o, names, s) ELSE IF s.name \in DOMAIN sizes THEN sizes[s.name] ELSE 0]

\* A reviewed referent [function, site, paired, owner, addend] names the datum that a pair of
\* patches reaches through its section.
PatchesAt(o, offset) == SelectSeq(Text1(o).patches, LAMBDA p : p.offset = offset)
Start(o, names, row) == (CHOOSE s \in Range(SymbolsIn(o, Numbered(o, ".text"))) : s.name = row.function /\ s.name \in names).value
Owners(o, row) == {s \in Range(SymbolsOf(o)) : s.name = row.owner /\ ~s.common}
ReferentHolds(o, names, row, taken) ==
  LET inText == Numbered(o, ".text")
      found == SelectSeq(SymbolsIn(o, inText), LAMBDA s : s.name = row.function /\ s.name \in names)
      high == Start(o, names, row) + row.site
      low == Start(o, names, row) + row.paired
      owner == CHOOSE s \in Owners(o, row) : TRUE
  IN /\ Len(found) = 1 /\ 0 <= row.site /\ row.site < row.paired /\ row.paired < SizeOfFunction(o, names, found[1])
     /\ {high, low} \cap taken = {}
     /\ Len(PatchesAt(o, high)) = 1 /\ Len(PatchesAt(o, low)) = 1 /\ PatchesAt(o, high)[1].kind = "hi" /\ PatchesAt(o, low)[1].kind = "lo"
     /\ LET to == Affine(PatchesAt(o, high)[1].expression)
        IN /\ to = Affine(PatchesAt(o, low)[1].expression) /\ ~to.failed /\ to.referent # <<>> /\ to.referent[1] = "section"
           /\ Cardinality(Owners(o, row)) = 1 /\ owner.section # inText /\ owner.section = to.referent[2]
           /\ (owner.value + row.addend) % Space = to.addend % Space
     /\ LET hi == Text1(o).words[high] lo == Text1(o).words[low] IN hi.op = "lui" /\ lo.op \in SignedLows /\ lo.reg = hi.reg
Overridden(o, names, referents) ==
  FoldLeft(LAMBDA done, row : IF ~done.ok \/ ~ReferentHolds(o, names, row, DOMAIN done.at) THEN [done EXCEPT !.ok = FALSE]
                              ELSE LET to == [symbol |-> Plain(row.owner), addend |-> row.addend]
                                   IN [done EXCEPT !.at = @ @@ (Start(o, names, row) + row.site :> to) @@ (Start(o, names, row) + row.paired :> to)],
           [ok |-> TRUE, at |-> <<>>], referents)

Kinds == [word |-> "32", jump |-> "26", hi |-> "HI16", lo |-> "LO16"]
AddendField(kind, addend) ==
  CASE kind = "word" -> addend % Space [] kind = "jump" -> addend % Window [] kind = "hi" -> High(addend) [] kind = "lo" -> addend % Radix
ViewPatch(o, number, at, view, p) ==
  LET to == Affine(p.expression)
      here == number = Numbered(o, ".text") /\ p.offset \in DOMAIN at
      symbol == IF to.referent[1] = "section" THEN Plain(o.sections[to.referent[2]].name) ELSE Plain(o.symbols[to.referent[2]].name)
      final == IF here THEN at[p.offset] ELSE [symbol |-> symbol, addend |-> to.addend]
      word == IF p.kind = "word" THEN Zero ELSE view.words[p.offset]
  IN IF view.failed \/ p.offset \notin 0 .. view.size - 1 \/ to.failed \/ to.referent = <<>> \/ p.kind \notin DOMAIN Kinds THEN [view EXCEPT !.failed = TRUE]
     ELSE [view EXCEPT !.words[p.offset] = [word EXCEPT !.field = AddendField(p.kind, final.addend)],
                       !.relocs = Append(@, Reloc(p.offset, Kinds[p.kind], final.symbol))]
ViewSection(o, names, sizes, at, number) ==
  LET s == o.sections[number]
  IN FoldLeft(LAMBDA view, p : ViewPatch(o, number, at, view, p),
              [NoSection EXCEPT !.words = s.words, !.size = s.size, !.symbols = [n \in DOMAIN SymbolsIn(o, number) |-> ViewSymbol(o, names, sizes, SymbolsIn(o, number)[n])]], s.patches)
CommonsOutside(o) == \E s \in Range(SymbolsOf(o)) : s.common /\ o.sections[s.section].name \notin {".bss", ".sbss"}
Viewed(o, over, content) ==
  LET numbers == DOMAIN o.sections
      familiar == \A n, m \in numbers : o.sections[n].name \in Families /\ (o.sections[n].name = o.sections[m].name => n = m)
  IN [ok |-> ~o.failed /\ familiar /\ (\E n \in numbers : o.sections[n].name = ".text") /\ ~CommonsOutside(o) /\ over.ok /\ Writable(content),
      content |-> content, common |-> {s.name : s \in {t \in Range(SymbolsOf(o)) : t.common}}, object |-> o]
View(o, names, sizes, over) ==
  Viewed(o, over, [f \in Families |-> IF \E n \in DOMAIN o.sections : o.sections[n].name = f
                                      THEN ViewSection(o, names, sizes, over.at, Numbered(o, f)) ELSE NoSection])
ElfView(records, named, sizes, referents) ==
  LET Over(o, names) == View(o, names, sizes, Overridden(o, names, referents))
      ByMap(o) == Over(o, FunctionNames(o, named))
  IN ByMap(ReadObject(records))

(***************************************************************************)
(* scripts/psxbuild/elf_to_lnk.py: convert writes the stream of records of *)
(* a relocatable ELF object, so that the native linker can link it.  elf   *)
(* is [sections, symbols]: a section [name, size, align, nobits, words,    *)
(* rel] with rel in the file's order, a symbol [name, value, local,        *)
(* section]; section 0 is undefined, below 0 it is no section of the file. *)
(***************************************************************************)
CONSTANTS ChunkWords, WidestAlign
Absolute == -1
AddTo(e, value) == IF value = 0 THEN e ELSE Expression("add", 0, <<Constant(value), e>>)
\* The symbols the stream declares, in the order of their numbers.
Externals1(elf) ==
  SelectSeq([i \in DOMAIN elf.symbols |-> i],
            LAMBDA i : ~elf.symbols[i].local /\ elf.symbols[i].name # "" /\ elf.symbols[i].section # Absolute)
Reference(elf, i) ==
  LET symbol == elf.symbols[i]
      numbers == {n \in DOMAIN Externals1(elf) : Externals1(elf)[n] = i}
  IN CASE numbers # {} -> Expression("symbol", CHOOSE n \in numbers : TRUE, <<>>)
       [] numbers = {} /\ symbol.section = Absolute -> Constant(symbol.value)
       [] OTHER -> AddTo(Expression("section", symbol.section, <<>>), symbol.value)
Referable(elf, i) == i \in Range(Externals1(elf)) \/ elf.symbols[i].section \in DOMAIN elf.sections \cup {Absolute}
SymbolRecords(elf) ==
  [n \in DOMAIN Externals1(elf) |->
    LET symbol == elf.symbols[Externals1(elf)[n]]
    IN Rec(IF symbol.section = 0 THEN "external" ELSE "defined", symbol.section, n, IF symbol.section = 0 THEN 0 ELSE symbol.value, symbol.name, <<>>)]
\* The low halves that may follow a high one: the first of them carries the rest of its addend.
LaterLows(rel, n) == {m \in n + 1 .. Len(rel) : rel[m].kind = "LO16" /\ rel[m].index = rel[n].index}
\* Mutant: the last of them.
LastLow(rel, n) == CHOOSE m \in LaterLows(rel, n) : \A k \in LaterLows(rel, n) : k <= m
NextLow(rel, n) == CHOOSE m \in LaterLows(rel, n) : \A k \in LaterLows(rel, n) : m <= k
ElfAddend(s, n) ==
  LET field == s.words[s.rel[n].offset].field
  IN CASE s.rel[n].kind \in {"32", "26"} -> field
       [] s.rel[n].kind = "HI16" -> field * Radix + Low(s.words[s.rel[NextLow(s.rel, n)].offset].field)
       [] s.rel[n].kind = "LO16" -> Low(field)
RelocationHolds(elf, s, n) ==
  /\ s.rel[n].offset \in 0 .. s.size - 1 /\ s.rel[n].kind \in {"32", "26", "HI16", "LO16"}
  /\ s.rel[n].kind = "HI16" => LaterLows(s.rel, n) # {}
  /\ Referable(elf, s.rel[n].index)
ElfPatch(elf, s, n, start) ==
  Rec("patch", 0, 0, s.rel[n].offset - start, [k \in Range(Kinds) |-> CHOOSE p \in DOMAIN Kinds : Kinds[p] = k][s.rel[n].kind],
      AddTo(Reference(elf, s.rel[n].index), ElfAddend(s, n)))
Relocated(s) == SelectSeq([n \in DOMAIN s.rel |-> n], LAMBDA n : s.rel[n].kind # "none")
ChunkRecords(elf, s, start) ==
  LET end == IF start + ChunkWords < s.size THEN start + ChunkWords ELSE s.size
      inside == SelectSeq(Relocated(s), LAMBDA n : start <= s.rel[n].offset /\ s.rel[n].offset < end)
  IN <<Rec("data", 0, 0, 0, "", [o \in 1 .. end - start |-> s.words[start + o - 1]])>>
     \o [n \in DOMAIN inside |-> ElfPatch(elf, s, inside[n], start)]
SectionRecords(elf, k) ==
  LET s == elf.sections[k]
  IN <<Rec("switch", 0, k, 0, "", <<>>)>>
     \o IF s.nobits THEN <<Rec("reserve", 0, 0, s.size, "", <<>>)>>
        ELSE FlattenSeq([c \in 1 .. (s.size + ChunkWords - 1) \div ChunkWords |-> ChunkRecords(elf, s, (c - 1) * ChunkWords)])
SectionConvertible(elf, s) ==
  /\ s.name \in Families /\ s.align <= WidestAlign
  /\ s.nobits \/ /\ s.name = ".text" => \A o \in DOMAIN s.words : s.words[o].op # "trap"
                 /\ \A n \in Range(Relocated(s)) : RelocationHolds(elf, s, n)
Convertible(elf) ==
  /\ \A k \in DOMAIN elf.sections : SectionConvertible(elf, elf.sections[k])
  /\ \A i \in Range(Externals1(elf)) : elf.symbols[i].section \in {0} \cup DOMAIN elf.sections
Convert(elf) ==
  [k \in DOMAIN elf.sections |-> Rec("section", 0, k, 0, IF elf.sections[k].name = ".rodata" THEN ".rdata" ELSE elf.sections[k].name, <<>>)]
  \o SymbolRecords(elf) \o FlattenSeq([k \in DOMAIN elf.sections |-> SectionRecords(elf, k)]) \o <<Rec("end", 0, 0, 0, "", <<>>)>>
=============================================================================
