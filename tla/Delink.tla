------------------------------- MODULE Delink --------------------------------
(***************************************************************************)
(* scripts/kf/delink.py and relocations.py: relocatable objects are carved *)
(* out of a linked image.  A candidate row of relocs.tsv names a site, its *)
(* kind and its target; a validated row replaces the linked field by the   *)
(* addend of a symbol, any other is withheld.  roundtrip.py links the      *)
(* result at its retail addresses and compares the bytes.                  *)
(*                                                                         *)
(* Addresses count words.  An instruction is its operation, its register   *)
(* and its field; Radix is the reach of a low field, Window of a jump.     *)
(***************************************************************************)
EXTENDS Integers, Sequences, FiniteSets, SequencesExt

CONSTANTS Radix, Window
ASSUME DelinkAssumption == Radix \in Nat \ {0, 1} /\ Window \in Nat \ {0}
Space == Radix * Radix

Symbol(name, at) == [name |-> name, at |-> at]  \* at: an address spelled in the name, or -1
Plain(name) == Symbol(name, -1)
Dat(va) == Symbol("DAT", va)
Text == Plain(".text")
Rodata == Plain(".rodata")
Covers(start, size, a) == start <= a /\ a < start + size

(***************************************************************************)
(* Fields: relocations.py.                                                 *)
(***************************************************************************)
Low(v) == IF 2 * v < Radix THEN v ELSE v - Radix
DecodeMips26(site, word) == ((site + 1) \div Window) * Window + word.field
DecodeHiLo(hi, lo) == IF lo.op = "ori" THEN hi.field * Radix + lo.field
                      ELSE (hi.field * Radix + Low(lo.field)) % Space
EncodeMips26(word, addend) == [word EXCEPT !.field = addend % Window]
\* Mutant: the carry of the signed low half is forgotten.
HighWithoutCarry(addend) == (addend \div Radix) % Radix
High(addend) == ((addend + Radix \div 2) \div Radix) % Radix

(***************************************************************************)
(* The catalog: functions and data of one image.  Of several functions of  *)
(* one name only the one that game code calls keeps it.                    *)
(***************************************************************************)
CallTargets(rows, functions, vendored) ==
  {r.target : r \in {q \in rows : /\ q.kind = "mips26" /\ q.opcode = "jal" /\ q.status # "rejected"
                                  /\ \E f \in functions : Covers(f.va, f.size, q.site)
                                                          /\ f.va \notin vendored}}
CatalogName(f, functions, called) ==
  LET copies == {g \in functions : g.name = f.name}
  IN IF Cardinality(copies) = 1 \/ {g.va : g \in copies} \cap called = {f.va}
     THEN Plain(f.name) ELSE Symbol(f.name, f.va)
LoadCatalog(functions, vendored, data, rows) ==
  LET called == CallTargets(rows, functions, vendored)
  IN [functions |-> {[va |-> f.va, size |-> f.size, fragments |-> f.fragments,
                      symbol |-> CatalogName(f, functions, called)] : f \in functions},
      data |-> data]

\* roundtrip.address_book: the addresses a symbol may stand for.
AddressBook(catalog, symbol) ==
  LET known == {o.va : o \in {p \in catalog.functions \cup catalog.data : p.symbol = symbol}}
  IN IF known = {} /\ symbol.name = "DAT" THEN {symbol.at} ELSE known

(***************************************************************************)
(* Validation and symbols of one row.  An owner is a function or, for a    *)
(* row sited in claimed data, a datum: a datum contains no target.         *)
(***************************************************************************)
Holds(owner, a) == owner.code /\ Covers(owner.va, owner.size, a)
Referents(catalog, name) ==
  {d \in catalog.data : IF name.name = "DAT" THEN d.va = name.at ELSE d.symbol = name}
Admitted(row, policy) ==
  /\ row.status # "rejected"
  /\ policy = "reviewed" => row.status = "reviewed"
  /\ policy \in {"safe", "reviewed"} => row.channel = "reachable-code" \/ row.status = "reviewed"
Reviewed(row, policy) == policy = "all" \/ row.status = "reviewed"
SignedLows == {"lw", "addiu"}
Valid(blob, owner, row, catalog, policy) ==
  LET word == blob[row.site - owner.va] IN
  /\ Admitted(row, policy) /\ row.site - owner.va \in DOMAIN blob
  /\ Cardinality(Referents(catalog, row.name)) <= 1
  /\ \/ /\ row.kind = "mips26" /\ word.op = row.opcode
        /\ DecodeMips26(row.site, word) = row.target
        /\ \/ Holds(owner, row.target) \/ policy = "all"
           \/ \E f \in catalog.functions : f.va = row.target
     \/ /\ row.kind = "hi_lo" /\ (row.region = "load" \/ Reviewed(row, policy))
        /\ Holds(owner, row.paired)
        /\ LET lo == blob[row.paired - owner.va]
           IN word.op = "lui" /\ lo.op \in SignedLows /\ lo.reg = word.reg
              /\ DecodeHiLo(word, lo) = row.target
     \/ row.kind = "word" /\ Reviewed(row, policy) /\ word.op = "data" /\ word.field = row.target

NamedAddend(catalog, named, target) == target - named.va
ResolveSymbol(catalog, owner, row, rodata) ==
  LET target == row.target
      At(symbol, addend) == [symbol |-> symbol, addend |-> addend]
      referents == Referents(catalog, row.name)
      named == CHOOSE d \in referents : TRUE
      starts == {f \in catalog.functions : f.va = target}
      holding == {d \in catalog.data : Covers(d.va, d.size, target)}
      InRodata(a) == rodata # <<>> /\ Covers(rodata[1], rodata[2], a)
      reference == row.status = "reviewed" /\ row.kind \in {"hi_lo", "word"} /\ referents # {}
  IN CASE reference /\ InRodata(named.va) -> At(Rodata, target - rodata[1])
       [] reference /\ ~InRodata(named.va) -> At(named.symbol, NamedAddend(catalog, named, target))
       [] ~reference /\ Holds(owner, target) -> At(Text, target - owner.va)
       [] ~reference /\ ~Holds(owner, target) /\ InRodata(target) -> At(Rodata, target - rodata[1])
       [] OTHER -> CASE starts # {} -> At((CHOOSE f \in starts : TRUE).symbol, 0)
            [] starts = {} /\ row.name.name = "DAT" ->
                 At(IF referents # {} THEN named.symbol ELSE row.name, target - row.name.at)
            [] starts = {} /\ row.name.name \notin {"", "DAT"} ->
                 At(row.name, IF referents # {} THEN NamedAddend(catalog, named, target) ELSE 0)
            [] starts = {} /\ row.name.name = "" /\ holding # {} ->
                 LET d == CHOOSE d \in holding : TRUE IN At(d.symbol, target - d.va)
            [] OTHER -> At(Dat(target), 0)

Reloc(offset, kind, symbol) == [offset |-> offset, kind |-> kind, symbol |-> symbol]
ApplyRelocation(blob, owner, row, catalog, rodata) ==
  LET o == row.site - owner.va
      p == row.paired - owner.va
      to == ResolveSymbol(catalog, owner, row, rodata)
  IN CASE row.kind = "mips26" ->
            [blob |-> [blob EXCEPT ![o] = EncodeMips26(@, to.addend)],
             relocs |-> <<Reloc(o, "26", to.symbol)>>]
       [] row.kind = "hi_lo" ->
            [blob |-> [blob EXCEPT ![o].field = High(to.addend), ![p].field = to.addend % Radix],
             relocs |-> <<Reloc(o, "HI16", to.symbol), Reloc(p, "LO16", to.symbol)>>]
       [] row.kind = "word" ->
            [blob |-> [blob EXCEPT ![o].field = to.addend % Space],
             relocs |-> <<Reloc(o, "32", to.symbol)>>]

(***************************************************************************)
(* Carving: the rows of an owner in order, none that shares a site with    *)
(* another competitor.                                                     *)
(***************************************************************************)
Competes(row, policy) ==
  /\ row.status # "rejected"
  /\ Reviewed(row, policy) \/ (policy = "safe" /\ row.region = "load")
Sites(row) == {row.site} \cup (IF row.kind = "hi_lo" THEN {row.paired} ELSE {})
Ambiguous(rows, i, policy) ==
  \E site \in Sites(rows[i]) :
    Cardinality({j \in DOMAIN rows : Competes(rows[j], policy) /\ site \in Sites(rows[j])}) > 1

Words(retail, va, size) == [o \in 0 .. size - 1 |-> retail[va + o]]
CarveRow(done, rows, i, owner, catalog, policy, rodata) ==
  IF (owner.code /\ Ambiguous(rows, i, policy)) \/ ~Valid(done.blob, owner, rows[i], catalog, policy)
  THEN [done EXCEPT !.withheld = Append(@, i)]
  ELSE LET Used(applied) == [blob |-> applied.blob, relocs |-> done.relocs \o applied.relocs,
                             used |-> Append(done.used, i), withheld |-> done.withheld]
       IN Used(ApplyRelocation(done.blob, owner, rows[i], catalog, rodata))
\* What is carved of the first n rows.
Uncarved(retail, owner) ==
  [blob |-> Words(retail, owner.va, owner.size), relocs |-> <<>>, used |-> <<>>, withheld |-> <<>>]
CarveUpTo(retail, owner, rows, catalog, policy, rodata) ==
  LET Done[n \in 0 .. Len(rows)] ==
        IF n = 0 THEN Uncarved(retail, owner)
        ELSE CarveRow(Done[n - 1], rows, n, owner, catalog, policy, rodata)
  IN Done
Carve(retail, owner, rows, catalog, policy, rodata) ==
  CarveUpTo(retail, owner, rows, catalog, policy, rodata)[Len(rows)]
RowsOf(rows, owner) == SelectSeq(rows, LAMBDA r : Covers(owner.va, owner.size, r.site))

\* A module: the functions of a unit as one section, addends relative to the run's start.
Rebased(blob, relocs, offset) ==
  FoldLeft(LAMBDA b, i :
             LET r == relocs[i] IN
             CASE r.symbol = Text /\ r.kind = "26" ->
                    [b EXCEPT ![r.offset] = EncodeMips26(@, @.field + offset)]
               [] r.symbol = Text /\ r.kind = "LO16" ->
                    LET h == relocs[i - 1].offset
                        addend == DecodeHiLo(b[h], b[r.offset]) + offset
                    IN [b EXCEPT ![h].field = High(addend), ![r.offset].field = addend % Radix]
               [] OTHER -> b,
           blob, [i \in DOMAIN relocs |-> i])
ModuleText(carved, members) ==  \* members: the module's functions, in order
  LET start == members[1].va
      At(a) == CHOOSE m \in Range(members) : Covers(m.va, m.size, a)
      Part(m) == Rebased(carved[m.va].blob, carved[m.va].relocs, m.va - start)
  IN [blob |-> [o \in 0 .. Last(members).va + Last(members).size - start - 1 |->
                  LET m == At(start + o) IN Part(m)[start + o - m.va]],
      relocs |-> FlattenSeq([k \in DOMAIN members |->
                   LET m == members[k] IN
                   [i \in DOMAIN carved[m.va].relocs |->
                      [carved[m.va].relocs[i] EXCEPT !.offset = @ + (m.va - start)]]])]
\* Read-only words that point into the module's text become offsets of it.
ModuleRodata(retail, rodata, start, size) ==
  LET blob == Words(retail, rodata[1], rodata[2])
      local == {o \in DOMAIN blob : Covers(start, size, blob[o].field)}
  IN [blob |-> [o \in DOMAIN blob |-> IF o \in local THEN [blob[o] EXCEPT !.field = @ - start]
                                      ELSE blob[o]],
      relocs |-> SetToSeq({Reloc(o, "32", Text) : o \in local})]

(***************************************************************************)
(* roundtrip.verify_unit: GNU ld links a section at its base; a HI16 takes *)
(* the next LO16 of its symbol, in the order of their offsets.             *)
(***************************************************************************)
PairOf(section, r) ==
  CHOOSE l \in Range(section.relocs) :
    /\ l.kind = "LO16" /\ l.symbol = r.symbol /\ l.offset > r.offset
    /\ \A q \in Range(section.relocs) :
         q.kind = "LO16" /\ q.symbol = r.symbol /\ q.offset > r.offset => l.offset <= q.offset
LinkedField(section, address, r) ==
  LET S == address[r.symbol]
      word == section.blob[r.offset]
  IN CASE r.kind = "26" -> (S + word.field) % Window
       [] r.kind = "32" -> (S + word.field) % Space
       [] r.kind = "LO16" -> (S + word.field) % Radix
       [] r.kind = "HI16" -> High(S + DecodeHiLo(word, section.blob[PairOf(section, r).offset]))
LinkedWord(section, address, r) == [section.blob[r.offset] EXCEPT !.field = LinkedField(section, address, r)]
Linked(section, address) ==
  [o \in DOMAIN section.blob |->
     LET here == {r \in Range(section.relocs) : r.offset = o} IN
     IF here = {} THEN section.blob[o] ELSE LinkedWord(section, address, CHOOSE r \in here : TRUE)]

(***************************************************************************)
(* What carving promises of one owner: linked where it was carved from, it *)
(* holds the image's words, or two of its pairs interleave.                *)
(***************************************************************************)
Jumps == {"j", "jal"}
FieldWidth(word) == IF word.op \in Jumps THEN Window ELSE IF word.op = "data" THEN Space ELSE Radix
IsWord(word) == /\ word = [op |-> word.op, reg |-> word.reg, field |-> word.field]
                /\ word.field \in 0 .. FieldWidth(word) - 1
\* Rows as the census writes them: an address is loaded before it is used, a jump stays in the load, and a
\* datum, where rows are not compared, has one of a site.  A name is a datum's, or the target function's.
IsRow(row, catalog, policy) ==
  /\ row.kind = "mips26" => row.opcode \in Jumps /\ (policy = "safe" => row.region = "load")
  /\ row.kind = "hi_lo" => row.site < row.paired
  /\ \A f \in catalog.functions : f.symbol = row.name => f.va = row.target
  /\ row.name \notin {Text, Rodata}
RowsApart(rows) == \A i, j \in DOMAIN rows : i # j => Sites(rows[i]) \cap Sites(rows[j]) = {}
\* Names that spell an address are of it; no name is a section's.
SpelledRight(catalog) ==
  \A o \in catalog.functions \cup catalog.data :
    o.symbol \notin {Text, Rodata} /\ (o.symbol.name = "DAT" => o.symbol.at = o.va)
\* Sections stand where they were carved from, any other symbol at the one address that the catalog knows.
Stands(address, symbol, owner, catalog, rodata) ==
  CASE symbol = Text -> address[symbol] = owner.va
    [] symbol = Rodata -> address[symbol] = rodata[1]
    [] OTHER -> AddressBook(catalog, symbol) = {address[symbol]}
\* Two pairs of one symbol that interleave: the linker takes the other pair's low half.
Crossed(relocs) ==
  \E i, j \in DOMAIN relocs :
    /\ relocs[i].kind = "HI16" /\ relocs[j].kind = "LO16" /\ relocs[j].symbol = relocs[i].symbol
    /\ relocs[i].offset < relocs[j].offset /\ relocs[j].offset < relocs[i + 1].offset
RelinksTo(retail, owner, rows, catalog, policy, rodata, address) ==
  LET carved == Carve(retail, owner, rows, catalog, policy, rodata)
      section == [blob |-> carved.blob, relocs |-> carved.relocs]
  IN /\ \A a \in owner.va .. owner.va + owner.size - 1 : IsWord(retail[a])
     /\ \A i \in DOMAIN rows : IsRow(rows[i], catalog, policy)
     /\ owner.code \/ RowsApart(rows)
     /\ SpelledRight(catalog) /\ ~Crossed(section.relocs)
     /\ \A r \in Range(section.relocs) : Stands(address, r.symbol, owner, catalog, rodata)
     => Linked(section, address) = Words(retail, owner.va, owner.size)
==============================================================================
