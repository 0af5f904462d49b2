------------------------------ MODULE ParserLink -----------------------------
(***************************************************************************)
(* scripts/kf/parser_machine.py, CandidateProgram.link: an explicit        *)
(* closure of reconstructed functions is placed in private arenas of a     *)
(* game's memory and relocated against candidates, hooks, unchanged retail *)
(* providers and curated data.  What a reference stands for is a set of    *)
(* one address, or empty where the linker refuses.                         *)
(*                                                                         *)
(* An object is its path, its symbols, the sizes and words of its          *)
(* sections and their relocations, which name a symbol by its place.       *)
(* Section ".data" stands for .sdata as well, ".bss" for .sbss.            *)
(***************************************************************************)
EXTENDS Delink

CONSTANTS CodeArena, RodataArena, HookArena,  \* first and last address + 1
          Unpatched, Grain, StubSize
DataSections == {".data", ".bss"}
Merge(f, g) == [x \in DOMAIN f \cup DOMAIN g |-> IF x \in DOMAIN f THEN f[x] ELSE g[x]]

\* Curated identities by name: no name may stand for two places.
Identities(items) ==
  [n \in {i.symbol.name : i \in items} |-> LET i == CHOOSE i \in items : i.symbol.name = n IN [va |-> i.va, size |-> i.size]]
Unambiguous(items) == \A i, j \in items : i.symbol = j.symbol => i.va = j.va /\ i.size = j.size
GameSymbols(catalog) ==
  IF Unambiguous(catalog.functions) /\ Unambiguous(catalog.data)
  THEN {[functions |-> Identities(catalog.functions), data |-> Identities(catalog.data)]} ELSE {}

(***************************************************************************)
(* Placement.                                                              *)
(***************************************************************************)
AlignUp(v) == ((v + Grain - 1) \div Grain) * Grain
Placed(sizes, arena) ==
  LET At[k \in 1 .. Len(sizes) + 1] ==
        IF k = 1 THEN AlignUp(arena[1]) ELSE AlignUp(At[k - 1]) + AlignUp(sizes[k - 1])
  IN At
Fits(sizes, arena) == \A k \in DOMAIN sizes : Placed(sizes, arena)[k] + sizes[k] <= arena[2]
NamedSymbols(obj, name) == {i \in DOMAIN obj.symbols : obj.symbols[i].name = name}
Selectable(request) ==
  LET named == NamedSymbols(request.obj, request.name) IN
  /\ Cardinality(named) = 1
  /\ \A i \in named : LET s == request.obj.symbols[i] IN s.section = ".text" /\ s.kind = "FUNC" /\ s.size > 0
SymbolOf(request) == request.obj.symbols[CHOOSE i \in NamedSymbols(request.obj, request.name) : TRUE]
Selected(functions) ==
  LET at == Placed([k \in DOMAIN functions |-> SymbolOf(functions[k]).size], CodeArena)
  IN [k \in DOMAIN functions |->
        [name |-> functions[k].name, obj |-> functions[k].obj, symbol |-> SymbolOf(functions[k]), address |-> at[k]]]
Providable(provider, symbols) ==
  /\ provider.name \in DOMAIN symbols.functions
  /\ provider.address = symbols.functions[provider.name].va
  /\ 0 < provider.size /\ provider.size <= symbols.functions[provider.name].size
\* A hook has a private entry and, where the game has the service, the retail one.
HookAddress(hooks, k) == HookArena[1] + (k - 1) * StubSize
HookBindings(hooks, symbols) ==
  {[address |-> HookAddress(hooks, k), hook |-> hooks[k]] : k \in DOMAIN hooks}
  \cup {[address |-> symbols.functions[hooks[k]].va, hook |-> hooks[k]] :
          k \in {j \in DOMAIN hooks : hooks[j] \in DOMAIN symbols.functions}}
ObjectsOf(functions) == {functions[k].obj : k \in DOMAIN functions}
WithRodata(functions) ==
  LET firsts == SelectSeq([k \in DOMAIN functions |-> k],
                  LAMBDA k : functions[k].obj.sizes[".rodata"] > 0
                             /\ \A j \in 1 .. k - 1 : functions[j].obj # functions[k].obj)
  IN [i \in DOMAIN firsts |-> functions[firsts[i]].obj]
RodataBases(functions) ==
  LET objs == WithRodata(functions)
      at == Placed([k \in DOMAIN objs |-> objs[k].sizes[".rodata"]], RodataArena)
  IN [path \in {o.path : o \in Range(objs)} |-> at[CHOOSE k \in DOMAIN objs : objs[k].path = path]]

\* Every known symbol of a data section infers its base; they must agree.
Known(symbols, overrides) == Merge(overrides, [n \in DOMAIN symbols.data |-> symbols.data[n].va])
Inferred(obj, section, known) ==
  {(known[s.name] - s.value) % Space :
     s \in {x \in Range(obj.symbols) : x.section = section /\ x.name \in DOMAIN known}}
Extents(obj, symbols, known) ==
  \A s \in {x \in Range(obj.symbols) : x.section \in DataSections /\ x.name \in DOMAIN known} :
    s.kind = "OBJECT" /\ s.size > 0 /\ (s.name \in DOMAIN symbols.data => s.size = symbols.data[s.name].size)

(***************************************************************************)
(* What a symbol and an addend stand for.                                  *)
(***************************************************************************)
ResolveDataObject(obj, symbol, addend, known) ==
  LET offset == symbol.value + addend
      holding == {s \in Range(obj.symbols) : s.section = symbol.section /\ s.kind = "OBJECT" /\ s.size > 0
                                             /\ s.value <= offset /\ offset <= s.value + s.size}
      places == {known[s.name] + offset - s.value : s \in {x \in holding : x.name \in DOMAIN known}}
  IN IF symbol.kind = "OBJECT" /\ symbol.name \in DOMAIN known
     THEN {known[symbol.name] + a : a \in {addend} \cap 0 .. symbol.size}
     ELSE IF Cardinality(places) = 1 /\ \A s \in holding : s.name \in DOMAIN known THEN places ELSE {}
\* GCC may call a function of its unit through the section and its offset.
MapTextOffset(link, obj, offset, soft) ==
  LET inside == {t \in Range(link.selected) : t.obj = obj /\ Covers(t.symbol.value, t.symbol.size, offset)}
      starting == SelectSeq(obj.symbols, LAMBDA s : s.section = ".text" /\ s.kind = "FUNC" /\ s.value = offset)
      entries == IF starting = <<>> THEN {}
                 ELSE {link.entries[n] : n \in {starting[1].name} \cap DOMAIN link.entries}
  IN IF inside # {} THEN {t.address + offset - t.symbol.value : t \in inside}
     ELSE IF entries = {} /\ soft THEN {Unpatched} ELSE entries
Resolve(link, obj, symbol, addend, soft) ==
  LET own == {t \in Range(link.selected) : t.name = symbol.name}
      places ==
        CASE symbol.section = "UNDEF" ->
               LET place == Merge([n \in {t.name : t \in own} |-> (CHOOSE t \in own : TRUE).address],
                                  Merge(link.entries, link.known))
               IN {place[n] + addend : n \in {symbol.name} \cap DOMAIN place}
          [] symbol.section = "ABS" -> {symbol.value + addend}
          [] symbol.section = "COMMON" -> IF link.bind THEN ResolveDataObject(obj, symbol, addend, link.known) ELSE {}
          [] symbol.section = ".text" ->
               IF own # {} /\ symbol.kind = "FUNC" THEN {t.address + addend : t \in own}
               ELSE MapTextOffset(link, obj, symbol.value + addend, soft)
          [] symbol.section = ".rodata" ->
               {link.rodata[p] + symbol.value + addend : p \in {obj.path} \cap DOMAIN link.rodata}
          [] symbol.section \in DataSections ->
               IF link.bind THEN ResolveDataObject(obj, symbol, addend, link.known)
               ELSE {base + symbol.value + addend : base \in Inferred(obj, symbol.section, link.known)}
  IN {p % Space : p \in places}

(***************************************************************************)
(* Relocation of a section: a low half completes every high half of its    *)
(* symbol that still waits.                                                *)
(***************************************************************************)
Refuse(done) == [done EXCEPT !.refused = TRUE]
\* Mutant: a low half completes the last of the high halves only.
WaitingLast(done, index) == LET all == {h \in done.high : h[1] = index} IN {h \in all : \A g \in all : g[2] <= h[2]}
Waiting(done, index) == {h \in done.high : h[1] = index}
Completed(link, obj, done, r, soft) ==
  LET highs == {h[2] : h \in Waiting(done, r.symbol)}
      word == done.words[r.offset]
      To(h) == Resolve(link, obj, obj.symbols[r.symbol], DecodeHiLo(done.words[h], word), soft)
      lows == {t % Radix : t \in UNION {To(h) : h \in highs}}
  IN IF /\ word.op \in SignedLows /\ \A h \in highs : done.words[h].op = "lui" /\ done.words[h].reg = word.reg /\ To(h) # {}
        /\ Cardinality(lows) = 1
     THEN [done EXCEPT !.high = {h \in @ : h[1] # r.symbol},
                       !.words = [o \in DOMAIN @ |->
                          IF o \in highs THEN [@[o] EXCEPT !.field = High(CHOOSE t \in To(o) : TRUE)]
                          ELSE IF o = r.offset THEN [@[o] EXCEPT !.field = CHOOSE low \in lows : TRUE] ELSE @[o]]]
     ELSE Refuse(done)
RelocateOne(link, owner, section, done, r) ==
  LET soft == section = ".rodata"
      word == done.words[r.offset]
      to == Resolve(link, owner.obj, owner.obj.symbols[r.symbol], word.field, soft)
      site == IF section = ".text" THEN owner.address + r.offset - owner.symbol.value
              ELSE link.rodata[owner.obj.path] + r.offset
      Put(t) == [done EXCEPT !.words[r.offset].field = t]
  IN CASE done.refused \/ r.offset \notin DOMAIN done.words -> Refuse(done)
       [] r.kind = "HI16" -> [done EXCEPT !.high = @ \cup {<<r.symbol, r.offset>>}]
       [] r.kind = "LO16" -> Completed(link, owner.obj, done, r, soft)
       [] to = {} -> Refuse(done)
       [] r.kind = "32" -> Put(CHOOSE t \in to : TRUE)
       [] r.kind = "26" -> LET t == CHOOSE t \in to : TRUE
                           IN IF (site + 1) \div Window = t \div Window THEN Put(t % Window) ELSE Refuse(done)
Relocate(link, owner, section) ==
  LET mine == SelectSeq(owner.obj.relocs,
                LAMBDA r : r.section = section
                           /\ (section = ".text" => Covers(owner.symbol.value, owner.symbol.size, r.offset)))
      Result(done) == IF done.refused \/ done.high # {} THEN {} ELSE {done.words}
  IN Result(FoldLeft(LAMBDA d, r : RelocateOne(link, owner, section, d, r),
                     [words |-> owner.obj.words[section], high |-> {}, refused |-> FALSE],
                     SortSeq(mine, LAMBDA a, b : a.offset < b.offset)))

(***************************************************************************)
(* The program: one patch for each candidate, one clone of an object's     *)
(* read-only data, and its initialized data at its curated place.          *)
(***************************************************************************)
Patch(of, address, words) == [of |-> of, address |-> address, words |-> words]
Part(words, start, size) == [k \in 0 .. size - 1 |-> words[start + k]]
OwnerIn(link, obj) == LET s == SelectSeq(link.selected, LAMBDA t : t.obj = obj) IN s[1]
CodePatches(link) ==
  {{Patch(t.name, t.address, Part(w, t.symbol.value, t.symbol.size)) : w \in Relocate(link, t, ".text")} : t \in Range(link.selected)}
RodataPatches(link) ==
  {{Patch(".rodata", link.rodata[o.path], w) : w \in Relocate(link, OwnerIn(link, o), ".rodata")} :
     o \in {t.obj : t \in {x \in Range(link.selected) : x.obj.path \in DOMAIN link.rodata}}}
DataOf(obj) == {s \in Range(obj.symbols) : s.section = ".data" /\ s.kind = "OBJECT"}
WithData(link) == {o \in {t.obj : t \in Range(link.selected)} : DOMAIN o.words[".data"] # {}}
DataPatches(link) ==
  LET objs == WithData(link)
      Section(o) == {Patch(".data", base, w) : base \in Inferred(o, ".data", link.known), w \in Relocate(link, OwnerIn(link, o), ".data")}
      Bound(o, s) == {Patch(s.name, a, Part(w, s.value, s.size)) :
                        a \in ResolveDataObject(o, s, 0, link.known),
                        w \in {x \in Relocate(link, OwnerIn(link, o), ".data") : s.size > 0 /\ s.value + s.size - 1 \in DOMAIN x}}
  IN IF link.bind THEN UNION {{Bound(o, s) : s \in DataOf(o)} : o \in objs} ELSE {Section(o) : o \in objs}
Overlap(p, q) == p.address < q.address + Cardinality(DOMAIN q.words) /\ q.address < p.address + Cardinality(DOMAIN p.words)
DataAgrees(link, patches) ==
  /\ \A o \in WithData(link) : Relocate(link, OwnerIn(link, o), ".data") # {}
  /\ \A p, q \in patches :
       /\ p.address = q.address => p.words = q.words
       /\ link.bind /\ Overlap(p, q) => p.address = q.address
Linkage(symbols, functions, hooks, providers, overrides, bind) ==
  [selected |-> Selected(functions), rodata |-> RodataBases(functions), bind |-> bind,
   known |-> Known(symbols, overrides),
   entries |-> Merge([n \in Range(hooks) |-> HookAddress(hooks, CHOOSE k \in DOMAIN hooks : hooks[k] = n)],
                     [n \in {p.name : p \in Range(providers)} |-> symbols.functions[n].va])]
Distinct(s) == Cardinality(Range(s)) = Len(s)
Accepted(symbols, functions, hooks, providers, overrides, bind) ==
  LET names == [k \in DOMAIN functions |-> functions[k].name]
      bound == HookBindings(hooks, symbols)
  IN /\ functions # <<>> /\ \A k \in DOMAIN functions : Selectable(functions[k])
     /\ Distinct(names \o [k \in DOMAIN providers |-> providers[k].name]) /\ Distinct(hooks)
     /\ \A p \in Range(providers) : Providable(p, symbols)
     /\ Fits([k \in DOMAIN functions |-> SymbolOf(functions[k]).size], CodeArena)
     /\ Fits([k \in DOMAIN WithRodata(functions) |-> WithRodata(functions)[k].sizes[".rodata"]], RodataArena)
     /\ hooks # <<>> => HookAddress(hooks, Len(hooks)) + StubSize <= HookArena[2]
     /\ \A p, q \in bound : p.address = q.address => p.hook = q.hook
     /\ \A o \in ObjectsOf(functions) :
          IF bind THEN Extents(o, symbols, Known(symbols, overrides))
          ELSE \A s \in DataSections : Cardinality(Inferred(o, s, Known(symbols, overrides))) <= 1
Patched(link, providers, hooks, code, data) ==
  LET patches == code \cup data
  IN IF {} \in patches \/ ~DataAgrees(link, UNION data) THEN {}
     ELSE {[link |-> link, patches |-> UNION patches,
            functions |-> {[name |-> t.name, address |-> t.address, size |-> t.symbol.size] : t \in Range(link.selected)}
                          \cup {[name |-> p.name, address |-> p.address, size |-> p.size] : p \in Range(providers)},
            hooks |-> hooks]}
Link(symbols, functions, hooks, providers, overrides, bind) ==
  IF ~Accepted(symbols, functions, hooks, providers, overrides, bind) THEN {}
  ELSE LET Of(link) == Patched(link, providers, HookBindings(hooks, symbols), CodePatches(link) \cup RodataPatches(link), DataPatches(link))
       IN Of(Linkage(symbols, functions, hooks, providers, overrides, bind))
\* RetailProgram.link: the retail functions and providers admitted to one run.
RetailLink(symbols, names, hooks, providers) ==
  LET closure == [k \in DOMAIN names |-> [name |-> names[k], address |-> symbols.functions[names[k]].va, size |-> symbols.functions[names[k]].size]]
                 \o providers
  IN IF ~Distinct([k \in DOMAIN closure |-> closure[k].name]) \/ \E p \in Range(closure) : ~Providable(p, symbols)
        \/ ~(Range(hooks) \subseteq DOMAIN symbols.functions) THEN {}
     ELSE {[functions |-> Range(closure), patches |-> {}, hooks |-> {[address |-> symbols.functions[h].va, hook |-> h] : h \in Range(hooks)}]}
\* Inputs of a call leave its functions, patches and stubs alone; addresses alias modulo Space.
ValidInput(program, address, size) ==
  LET apart(a, n) == n = 0 \/ size = 0 \/ (address % Space) >= (a % Space) + n \/ (a % Space) >= (address % Space) + size
  IN /\ \A f \in program.functions : apart(f.address, f.size)
     /\ \A p \in program.patches : apart(p.address, Cardinality(DOMAIN p.words))
     /\ \A h \in program.hooks : apart(h.address, StubSize)
==============================================================================
