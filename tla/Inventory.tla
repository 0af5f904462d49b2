------------------------------ MODULE Inventory ------------------------------
(***************************************************************************)
(* scripts/kf/inventory.py: identities of functions, data and structures   *)
(* over the censuses.  validate admits the hand-owned tables; seed writes  *)
(* the first ones; the proposals are tables that a person copies back.     *)
(*                                                                         *)
(* The configuration c is that of Manifest.  Its functions and data have a *)
(* curated name or Nameless, its data a kind; functionIdentities are rows  *)
(* of names, methods and signatures.  A name is a Symbol, evidence a set.  *)
(***************************************************************************)
EXTENDS Manifest, Evidence

CONSTANTS RamEnd, SeedSize, PairReach, EnumEnd

Nameless == Plain("")
Confidences == {"address-only", "candidate", "supported", "proven"}
Key(row) == <<row.image, row.va>>
Keys(rows) == {Key(row) : row \in Range(rows)}
UniqueNames(rows) == \A x, y \in Range(rows) : x.image = y.image /\ x.name = y.name => x.va = y.va

(***************************************************************************)
(* Structures: the layouts of the checked headers.  A header has plain     *)
(* enums, stored enums, aliases of a stored enum's type and aggregates.    *)
(***************************************************************************)
Primitives == [u8 |-> [size |-> 1, alignment |-> 1], u16 |-> [size |-> 2, alignment |-> 2],
               u32 |-> [size |-> 4, alignment |-> 4], DISPENV |-> [size |-> 6, alignment |-> 2]]
Pointer == [size |-> 4, alignment |-> 4]
Storage == {"u8", "u16", "u32"}
With(map, key, value) == [x \in DOMAIN map \cup {key} |-> IF x = key THEN value ELSE map[x]]
Refuse(state, condition) == IF condition THEN [state EXCEPT !.refused = TRUE] ELSE state

\* Mutant: a member of unknown value does not break the chain of implicit values.
MemberValueUnbroken(state, member) ==
  CASE member.form = "number" -> {member.value}
    [] member.form = "alias" /\ member.of \in DOMAIN state.constants -> {state.constants[member.of]}
    [] OTHER -> state.next
MemberValue(state, member) ==
  CASE member.form = "number" -> {member.value}
    [] member.form = "alias" /\ member.of \in DOMAIN state.constants -> {state.constants[member.of]}
    [] member.form = "implicit" -> state.next
    [] OTHER -> {}
Enumerate(state, member) ==
  LET value == MemberValue(state, member)
      n == CHOOSE v \in value : TRUE
      known == IF value = {} THEN state
               ELSE Refuse([state EXCEPT !.constants = With(@, member.name, n)], member.name \in DOMAIN state.constants)
  IN [known EXCEPT !.next = {v + 1 : v \in {x \in value : x < EnumEnd}}]
EnumBody(state, members) == FoldLeft(Enumerate, [state EXCEPT !.next = {0}], members)
TypeKnown(state, name) == name \in DOMAIN state.primitives \/ name \in DOMAIN state.definitions
StoredEnum(state, enum) ==
  IF enum.storage \notin Storage \/ TypeKnown(state, enum.name) THEN Refuse(state, TRUE)
  ELSE [state EXCEPT !.primitives = With(@, enum.name, @[enum.storage]), !.domains = @ \cup {enum.name}]
StorageAlias(state, alias) ==
  IF alias.domain \notin state.domains \/ alias.storage \notin Storage \/ TypeKnown(state, alias.name) THEN Refuse(state, TRUE)
  ELSE [state EXCEPT !.primitives = With(@, alias.name, @[alias.storage])]
Define(state, type) ==
  IF TypeKnown(state, type.name) THEN Refuse(state, TRUE) ELSE [state EXCEPT !.definitions = With(@, type.name, type)]
ReadHeader(state, header) ==
  LET stored == FoldLeft(StoredEnum, state, header.stored)
      aliased == FoldLeft(StorageAlias, stored, header.aliases)
      bodies == header.enums \o [i \in DOMAIN header.stored |-> header.stored[i].members]
  IN FoldLeft(Define, FoldLeft(EnumBody, aliased, bodies), header.types)
ReadHeaders(headers) ==
  FoldLeft(ReadHeader, [constants |-> [x \in {} |-> 0], primitives |-> Primitives, domains |-> {}, next |-> {0},
                        definitions |-> [x \in {} |-> 0], refused |-> FALSE], headers)

\* A bound is a number or the name of a constant.
Bound(state, bound) ==
  IF bound.name = "" THEN {bound.value} ELSE {state.constants[x] : x \in {bound.name} \cap DOMAIN state.constants}
Count(bounds) == FoldLeft(LAMBDA n, values : n * CHOOSE v \in values : TRUE, 1, bounds)
RECURSIVE LayoutOf(_, _)
FieldType(state, field) ==
  IF field.pointer THEN Pointer
  ELSE IF field.type \in DOMAIN state.primitives THEN state.primitives[field.type] ELSE LayoutOf(state, field.type)
\* Mutant: a field follows its predecessor at once.
PlacePacked(state, kind, layout, field) ==
  LET size == FieldType(state, field).size
      at == IF kind = "union" THEN 0 ELSE layout.size
  IN [size |-> at + size, alignment |-> FieldType(state, field).alignment, refused |-> FALSE,
      fields |-> Append(layout.fields, [name |-> field.name, offset |-> at, size |-> size])]
Place(state, kind, layout, field) ==
  LET bounds == [i \in DOMAIN field.bounds |-> Bound(state, field.bounds[i])]
      unknown == ~field.pointer /\ ~TypeKnown(state, field.type)
      refused == layout.refused \/ unknown \/ \E i \in DOMAIN bounds : bounds[i] = {} \/ \E v \in bounds[i] : v <= 0
      type == FieldType(state, field)
      size == type.size * Count(bounds)
      at == IF kind = "union" THEN 0 ELSE RoundUp(layout.size, type.alignment)
  IN IF refused THEN [layout EXCEPT !.refused = TRUE]
     ELSE [size |-> IF at + size > layout.size THEN at + size ELSE layout.size,
           alignment |-> IF type.alignment > layout.alignment THEN type.alignment ELSE layout.alignment, refused |-> FALSE,
           fields |-> Append(layout.fields, [name |-> field.name, offset |-> at, size |-> size])]
LayoutOf(state, name) ==
  LET type == state.definitions[name]
      placed == FoldLeft(LAMBDA layout, field : Place(state, type.kind, layout, field),
                         [size |-> 0, alignment |-> 1, fields |-> <<>>, refused |-> FALSE], type.fields)
  IN [placed EXCEPT !.size = RoundUp(@, placed.alignment)]
Layouts(state, layouts) ==
  [refused |-> state.refused \/ \E name \in DOMAIN layouts : layouts[name].refused, layouts |-> layouts, constants |-> state.constants]
HeaderLayouts(headers) ==
  LET OfState(state) == Layouts(state, [name \in DOMAIN state.definitions |-> LayoutOf(state, name)])
  IN OfState(ReadHeaders(headers))
\* structures.tsv and structure_fields.tsv repeat every layout.
ValidStructures(structures, fields, layouts) ==
  /\ {s.name : s \in Range(structures)} = DOMAIN layouts /\ Cardinality(DOMAIN layouts) = Len(structures)
  /\ \A s \in Range(structures) : s.size > 0 /\ s.size = layouts[s.name].size
  /\ \A f \in Range(fields) : f.structure \in DOMAIN layouts
  /\ \A name \in DOMAIN layouts :
       LET rows == SelectSeq(fields, LAMBDA f : f.structure = name) IN
       [i \in DOMAIN rows |-> [name |-> rows[i].name, offset |-> rows[i].offset, size |-> rows[i].size]] = layouts[name].fields

(***************************************************************************)
(* Functions.                                                              *)
(***************************************************************************)
Universe(c) == SelectSeq(c.functions, LAMBDA f : At(c.vendored, f.image, f.va) = {} /\ f.fragments = 1)
\* star: a pointer's asterisk is written on the name, on the type, or not at all.
Variadic == [type |-> "...", star |-> "none", name |-> ""]
ValidParameters(parameters) ==
  \A i \in DOMAIN parameters :
    IF parameters[i] = Variadic THEN i # 1 /\ i = Len(parameters) ELSE parameters[i].type # "" /\ parameters[i].name # ""
ValidFunctionIdentities(c) ==
  /\ Keys(Universe(c)) = Keys(c.functionIdentities) /\ Ascends(c, c.functionIdentities)
  /\ \A f \in Range(c.functionIdentities) :
       /\ {f.confidence, f.signature} \subseteq Confidences
       /\ f.name # Nameless /\ (f.owner = "") = (f.action = "")
       /\ f.owner # "" => f.name = Plain(f.owner \o "_" \o f.action)
       /\ f.confidence = "address-only" => f.name = Symbol("func", f.va)
       /\ ValidParameters(f.parameters)
  /\ UniqueNames(c.functionIdentities)

(***************************************************************************)
(* Data.                                                                   *)
(***************************************************************************)
BssTargets(c, image) == {r.target : r \in {q \in Of(c.relocs, image) : q.region = "bss" /\ q.status # "rejected"}}
GhidraChannel == "ghidra-12.0.4-memory-xref"
Evidenced(c, d) ==
  \/ At(c.data, d.image, d.va) # {} \/ d.va \in BssTargets(c, d.image)
  \/ /\ d.storage = "bss"
     /\ \/ GhidraChannel \in d.evidence /\ Layout(c, d.image).end <= d.va /\ d.size > 0 /\ d.va + d.size <= RamEnd
        \/ \E target \in BssTargets(c, d.image) : Covers(d.va, d.size, target)
ValidDataIdentities(c) ==
  /\ ValidSections(c) /\ ValidReservations(c) /\ Ascends(c, c.identities)
  /\ \A d \in Range(c.identities) :
       /\ Evidenced(c, d) /\ d.confidence \in Confidences /\ d.storage \in {"load", "bss"} /\ d.size > 0
       /\ d.scope \in {"unknown", "global", "static", "function-static"}
       /\ \A census \in At(c.data, d.image, d.va) : d.size = census.size /\ (d.storage = "bss" => census.kind = "bss")
       /\ At(c.data, d.image, d.va) = {} => d.storage = "bss"
       /\ d.name # Nameless /\ (d.confidence = "address-only" => d.name = Dat(d.va))
  /\ UniqueNames(c.identities)
  /\ \A image \in ImageNames(c) : Apart({d \in Of(c.identities, image) : d.storage = "bss"})
Validate(c) == ValidFunctionIdentities(c) /\ ValidDataIdentities(c)

(***************************************************************************)
(* Register use and the signature it hints at.  An instruction has an op,  *)
(* registers rs, rt and rd and a field.                                    *)
(***************************************************************************)
Arguments == 4 .. 7
ReturnRegister == 2
LinkRegister == 31
Loads == {"lb", "lw"}
Stores == {"sb", "sw"}
Calls == {"jal", "jalr"}
Reads(i) ==
  CASE i.op \in {"nop", "mflo", "j", "jal", "lui"} -> {}
    [] i.op = "sll" -> {i.rt}
    [] i.op \in {"mult", "addu", "beq"} \cup Stores -> {i.rs, i.rt}
    [] OTHER -> {i.rs}
Writes(i) ==
  CASE i.op \in {"nop", "jr", "mtlo", "mult", "j", "beq", "bltz"} \cup Stores -> {}
    [] i.op \in {"sll", "mflo", "addu"} -> {i.rd}
    [] i.op = "jal" -> {LinkRegister}
    [] i.op = "jalr" -> {IF i.rd = 0 THEN LinkRegister ELSE i.rd}
    [] OTHER -> {i.rt}
WritesBefore(code, k) == UNION {Writes(code[j]) : j \in 1 .. k - 1}
LiveArguments(code) == UNION {(Reads(code[k]) \cap Arguments) \ WritesBefore(code, k) : k \in DOMAIN code}
PointerArguments(code) == {code[k].rs : k \in {j \in DOMAIN code : code[j].op \in Loads \cup Stores}} \cap Arguments
ArgumentNames == <<"arg0", "arg1", "arg2", "arg3">>
Highest(registers) == CHOOSE r \in registers \cup {3} : \A s \in registers : s <= r
SignatureHints(code) ==
  [parameters |-> [k \in 1 .. Highest(LiveArguments(code)) - 3 |->
     [type |-> "unknown", star |-> IF k + 3 \in PointerArguments(code) THEN "name" ELSE "none", name |-> ArgumentNames[k]]],
   returns |-> IF \E i \in Range(code) : ReturnRegister \in Writes(i) THEN "unknown" ELSE "void"]

(***************************************************************************)
(* seed: the first tables, refused over any that exist.                    *)
(***************************************************************************)
SeedFunction(f, code) ==
  [image |-> f.image, va |-> f.va, name |-> IF f.curated = Nameless THEN Symbol("func", f.va) ELSE f.curated,
   owner |-> "", action |-> "", confidence |-> IF f.curated = Nameless THEN "address-only" ELSE "supported",
   signature |-> "candidate", parameters |-> SignatureHints(code).parameters, returns |-> SignatureHints(code).returns]
SeedDatum(d) ==
  [image |-> d.image, va |-> d.va, size |-> d.size, name |-> IF d.curated = Nameless THEN Dat(d.va) ELSE d.curated,
   scope |-> IF d.curated = Nameless THEN "unknown" ELSE "global", storage |-> "load",
   confidence |-> IF d.curated = Nameless THEN "address-only" ELSE "supported", evidence |-> {"data.tsv"}]
AddressOnly(image, va, size, channel) ==
  [image |-> image, va |-> va, size |-> size, name |-> Dat(va), scope |-> "unknown", storage |-> "bss",
   confidence |-> "address-only", evidence |-> {channel}]
SeedReference(rows, r) ==
  IF r.region # "bss" \/ r.status = "rejected" \/ r.name.name # "DAT" \/ At(rows, r.image, r.name.at) # {} THEN rows
  ELSE Append(rows, AddressOnly(r.image, r.name.at, SeedSize, "relocs.tsv"))
Ordered(c, rows) == SortSeq(rows, LAMBDA x, y : Before(c, x, y))
SeedRefused(c) == c.functionIdentities # <<>> \/ c.identities # <<>>
\* code maps a function's address to the instructions read there.
Seed(c, code) ==
  LET functions == Universe(c)
      kinds == SelectSeq(c.data, LAMBDA d : d.kind \notin {"string", "unclassified"})
  IN [c EXCEPT !.functionIdentities = [i \in DOMAIN functions |-> SeedFunction(functions[i], code[functions[i].va])],
               !.identities = Ordered(c, FoldLeft(SeedReference, [i \in DOMAIN kinds |-> SeedDatum(kinds[i])], c.relocs))]

(***************************************************************************)
(* Proposals from a decompiler's candidates.                               *)
(***************************************************************************)
ProposedParameter(parameters, k, candidate) ==
  LET current == parameters[k]
      kept == k \in DOMAIN parameters /\ parameters[k] # Variadic
              /\ (current.name \in Range(ArgumentNames) \/ (current.star = "type") = candidate.pointer)
  IN [type |-> candidate.type, star |-> IF candidate.pointer THEN "type" ELSE "none",
      name |-> IF kept THEN current.name ELSE ArgumentNames[k]]
ProposeSignature(f, candidates) ==
  LET found == {x \in candidates : Key(x) = Key(f) /\ x.status = "decompiled"}
      x == CHOOSE y \in found : TRUE
      variadic == Len(f.parameters) > 1 /\ Last(f.parameters) = Variadic
  IN IF found = {} \/ f.signature \notin {"address-only", "candidate"} THEN f
     ELSE [f EXCEPT !.returns = x.returns,
                    !.parameters = [k \in DOMAIN x.parameters |-> ProposedParameter(f.parameters, k, x.parameters[k])]
                                   \o (IF variadic THEN <<Variadic>> ELSE <<>>)]
ProposeSignatures(c, candidates) ==
  [c EXCEPT !.functionIdentities = [i \in DOMAIN @ |-> ProposeSignature(@[i], candidates)]]

\* A reference is [image, site, target, start, size, type, function]: the object the decompiler sees holds the target.
Accesses == {"READ", "WRITE", "READ_WRITE"}
\* Mutant: the extents of the image's own load are the only ones avoided.
NewExtentAnyRam(c, r) == r.type \in Accesses /\ Layout(c, r.image).end <= r.start /\ r.start + r.size <= RamEnd
NewExtent(c, r) ==
  /\ r.type \in Accesses /\ Layout(c, r.image).end <= r.start /\ r.start + r.size <= RamEnd
  /\ \A d \in Of(c.identities, r.image) : ~Overlap(r.start, r.size, d.va, d.size)
MergeExtent(merged, extent) ==
  IF merged # <<>> /\ extent[1] < Last(merged)[2]
  THEN [merged EXCEPT ![Len(merged)][2] = IF extent[2] > @ THEN extent[2] ELSE @] ELSE Append(merged, extent)
ImageExtents(c, image, references) ==
  FoldLeft(MergeExtent, <<>>,
           SetToSortSeq({Span(r.start, r.start + r.size) : r \in {q \in references : q.image = image /\ NewExtent(c, q)}}, SpanOrder))
ProposeIdentities(c, references) ==
  LET Rows(image) == LET extents == ImageExtents(c, image, references) IN
        [i \in DOMAIN extents |-> AddressOnly(image, extents[i][1], extents[i][2] - extents[i][1], GhidraChannel)]
  IN [c EXCEPT !.identities = Ordered(c, @ \o FoldLeft(LAMBDA rows, layout : rows \o Rows(layout.name), <<>>, c.images))]
\* The aggregate of all references to one target.
TargetRegion(c, image, target) ==
  IF \E d \in Of(c.identities, image) \cup Of(c.data, image) : Covers(d.va, d.size, target) THEN "owned"
  ELSE IF \E f \in Of(c.functions, image) : Covers(f.va, f.size, target) THEN "function"
  ELSE IF target < RamEnd THEN "unowned-ram" ELSE "hardware"
TargetGroup(c, image, target, references) ==
  LET group == {r \in references : r.image = image /\ r.target = target}
      sites == {r.site : r \in group}
      Admitted1(s) == \E r \in Range(c.relocs) : /\ r.status # "rejected" /\ r.image = image /\ r.target = target
                                               /\ s \in {r.site, r.paired}
  IN [target |-> target, region |-> TargetRegion(c, image, target), types |-> {r.type : r \in group},
      users |-> {r.function : r \in group}, sites |-> Cardinality(sites), admitted |-> Cardinality({s \in sites : Admitted1(s)})]

(***************************************************************************)
(* Proposals from the image's code and from the references of Evidence.    *)
(***************************************************************************)
CallerSaved == (1 .. 15) \cup {24, 25}
Lows == {"addiu", "ori"} \cup Loads \cup Stores
Half(i) == [op |-> i.op, reg |-> IF i.op = "lui" THEN i.rt ELSE i.rs, field |-> i.field]
Pairs(code, hi, lo) == code[lo].op \in Lows /\ code[lo].rs = code[hi].rt
\* Mutant: a call does not end the search.
EndsPairUncalled(code, hi, lo) == code[hi].rt \in Writes(code[lo])
EndsPair(code, hi, lo) ==
  code[hi].rt \in Writes(code[lo]) \/ (code[hi].rt \in CallerSaved /\ code[lo].op \in Calls)
Scanned(code, hi) ==
  {lo \in hi + 1 .. Len(code) : lo < hi + PairReach /\ \A k \in hi + 1 .. lo - 1 : ~EndsPair(code, hi, k)}
BssPairs(va, code, data) ==
  {[site |-> va + hi - 1, paired |-> va + lo - 1, target |-> DecodeHiLo(Half(code[hi]), Half(code[lo]))] :
     <<hi, lo>> \in {<<h, l>> \in (DOMAIN code) \X (DOMAIN code) :
       /\ code[h].op = "lui" /\ l \in Scanned(code, h) /\ Pairs(code, h, l)
       /\ \E d \in OwnerOf(data, DecodeHiLo(Half(code[h]), Half(code[l]))) : d.kind = "bss"}}
ProposedRows(va, code, data, known) ==
  {[kind |-> "hi_lo", site |-> p.site, paired |-> p.paired, target |-> p.target, opcode |-> "lui", region |-> "bss",
    status |-> "candidate", channel |-> "reachable-code", name |-> Dat((CHOOSE d \in OwnerOf(data, p.target) : TRUE).va)] :
     p \in {q \in BssPairs(va, code, data) :
            ~\E r \in known : r.site = q.site /\ r.paired = q.paired /\ r.target = q.target}}

Transfers == {"call", "tail"}
Confirmed(r) == r.tier \in {"proven", "validated"}
FunctionDossier(idx, references, f) ==
  LET from == Outgoing(references, f, TRUE)
      direct == {r \in from : r.kind # "indirect-call" /\ r.target # NowhereVa}
      Callee(r) == IF r.kind \in Transfers THEN Starting(idx.functions, r.target) ELSE {}
  IN [callers |-> {g \in UNION {FunctionOwner(idx, r.site) : r \in {q \in Incoming(references, f, TRUE) : q.kind \in Transfers}} : g.va # f.va},
      callees |-> UNION {Callee(r) : r \in direct},
      indirect |-> Cardinality({r \in from : r.kind = "indirect-call"}),
      data |-> UNION {IF Callee(r) # {} THEN {} ELSE DataOwner(idx, ReferencedVa(r)) : r \in direct}]
Access(retail, r) ==
  IF r.kind = "pointer" THEN "initializer"
  ELSE IF r.paired \notin DOMAIN retail THEN "address"
  ELSE IF retail[r.paired].op \in Loads THEN "read" ELSE IF retail[r.paired].op \in Stores THEN "write" ELSE "address"
ScopeHint(users, confidence) ==
  [scope |-> IF Cardinality(users) = 1 THEN "function-static" ELSE "shared", confidence |-> confidence,
   owner |-> IF Cardinality(users) = 1 THEN users ELSE {}]
DataDossier(idx, references, retail, d) ==
  LET to == Incoming(references, d, FALSE)
      Users(rows) == UNION {FunctionOwner(idx, r.site) : r \in rows}
      confirmed == Users({r \in to : Confirmed(r)})
      candidates == Users({r \in to : ~Confirmed(r)}) \ confirmed
      Counted(access) == Cardinality({r \in to : Access(retail, r) \in access})
  IN [confirmed |-> confirmed, candidates |-> candidates, reads |-> Counted({"read"}), writes |-> Counted({"write"}),
      addresses |-> Counted({"address", "initializer"}),
      hint |-> IF confirmed # {} THEN ScopeHint(confirmed, "confirmed-xref")
               ELSE IF candidates # {} THEN ScopeHint(candidates, "candidate-xref")
               ELSE [scope |-> "", confidence |-> "", owner |-> {}]]
==============================================================================
