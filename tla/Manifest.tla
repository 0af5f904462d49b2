------------------------------ MODULE Manifest -------------------------------
(***************************************************************************)
(* Who owns which words of an image: retail.py validates the censuses,     *)
(* model.py reads the claims of a source, manifest.py binds the units and  *)
(* config_data.py admits contributions that have no source.  Every         *)
(* ValueError is a refusal of the whole load.                              *)
(*                                                                         *)
(* A configuration c is a record of the tables: images (in order),         *)
(* functions, data, relocs and vendored (the censuses, as sequences),      *)
(* names (of functions), identities (of data), sections and reservations,  *)
(* contributions.  Addresses count words; columns derived from others      *)
(* (file offsets, hashes, evidence) are left out.                          *)
(***************************************************************************)
EXTENDS Objects

Overlap(a, n, b, m) == a < b + m /\ b < a + n
ImageNames(c) == {layout.name : layout \in Range(c.images)}
Layout(c, image) == CHOOSE layout \in Range(c.images) : layout.name = image
InImage(c, image, va, size) ==
  size >= 0 /\ Layout(c, image).start <= va /\ va + size <= Layout(c, image).end
Rank(c, image) == CHOOSE i \in DOMAIN c.images : c.images[i].name = image
Before(c, x, y) == Rank(c, x.image) < Rank(c, y.image) \/ (x.image = y.image /\ x.va < y.va)
Ascends(c, rows) == \A i \in 2 .. Len(rows) : Before(c, rows[i - 1], rows[i])
Of(rows, image) == {r \in Range(rows) : r.image = image}
At(rows, image, va) == {r \in Of(rows, image) : r.va = va}
Apart(rows) == \A x, y \in rows : x # y => ~Overlap(x.va, x.size, y.va, y.size)

(***************************************************************************)
(* The censuses: retail.validate_config.                                   *)
(***************************************************************************)
ValidExtents(c, rows) ==
  \A r \in Range(rows) : r.image \in ImageNames(c) /\ InImage(c, r.image, r.va, r.size) /\ r.size > 0
ValidFunctions(c) ==
  /\ ValidExtents(c, c.functions) /\ Ascends(c, c.functions)
  /\ \A f \in Range(c.functions) : 0 < f.body /\ f.body <= f.size /\ f.fragments > 0
  /\ \A image \in ImageNames(c) :
       At(c.functions, image, Layout(c, image).entry) # {} /\ Apart(Of(c.functions, image))
ValidData(c) ==
  ValidExtents(c, c.data) /\ Ascends(c, c.data) /\ \A image \in ImageNames(c) : Apart(Of(c.data, image))
Accounted(c) ==
  \A image \in ImageNames(c) :
    Union({Span(r.va, r.va + r.size) : r \in Of(c.functions, image) \cup Of(c.data, image)})
      = <<Span(Layout(c, image).start, Layout(c, image).end)>>
ValidRelocs(c) ==
  /\ \A i, j \in DOMAIN c.relocs : c.relocs[i] = c.relocs[j] => i = j
  /\ \A r \in Range(c.relocs) :
       /\ r.image \in ImageNames(c) /\ InImage(c, r.image, r.site, 1)
       /\ r.paired >= 0 => InImage(c, r.image, r.paired, 1)
       /\ r.status \in {"candidate", "reviewed", "rejected"}
       /\ r.status # "rejected" /\ r.opcode = "jal" /\ r.channel = "reachable-code" /\ r.region = "load"
            => At(c.functions, r.image, r.target) # {}
ValidVendored(c) ==
  /\ Ascends(c, c.vendored)
  /\ \A v \in Range(c.vendored) : \E f \in At(c.functions, v.image, v.va) : f.size = v.size
ValidConfig(c) == ValidFunctions(c) /\ ValidData(c) /\ Accounted(c) /\ ValidRelocs(c) /\ ValidVendored(c)

(***************************************************************************)
(* Reviewed attributes of data: data_sections.py and data_reservations.py. *)
(***************************************************************************)
Storages == [load |-> {".data", ".sdata"}, bss |-> {".bss", ".sbss"}]
ValidSections(c) ==
  /\ Ascends(c, c.sections)
  /\ \A s \in Range(c.sections) : \E d \in At(c.identities, s.image, s.va) :
       s.name = d.name /\ d.storage \in DOMAIN Storages /\ s.section \in Storages[d.storage]
ValidReservations(c) ==
  /\ Ascends(c, c.reservations)
  /\ \A r \in Range(c.reservations) :
       /\ \E d \in At(c.identities, r.image, r.va) :
            r.name = d.name /\ d.storage = "bss" /\ d.scope = "static" /\ r.size >= d.size
       /\ \A other \in Of(c.identities, r.image) :
            other.va # r.va => ~Overlap(other.va, other.size, r.va, r.size)
AttributeAt(rows, d, field, default) ==
  LET here == At(rows, d.image, d.va) IN IF here = {} THEN default ELSE (CHOOSE r \in here : TRUE)[field]
DataIdentity(c, d) ==
  [image |-> d.image, va |-> d.va, name |-> d.name, size |-> d.size, storage |-> d.storage, scope |-> d.scope,
   section |-> AttributeAt(c.sections, d, "section", ""),
   reservation |-> AttributeAt(c.reservations, d, "size", 0)]
Scope(c, f) == IF At(c.vendored, f.image, f.va) # {} THEN "vendored" ELSE "decomp"
NameAt(c, f) ==
  LET named == At(c.names, f.image, f.va) IN IF named = {} THEN f.symbol ELSE (CHOOSE n \in named : TRUE).name

(***************************************************************************)
(* The claims of a source: model.py.  A file is a sequence of lines; a     *)
(* line is [kind, image, va, size, name].                                  *)
(***************************************************************************)
NoLine == [kind |-> "none", image |-> "", va |-> 0, size |-> 0, name |-> ""]
RECURSIVE SourceLines(_, _, _)
SourceLines(files, name, parents) ==
  FlattenSeq([i \in DOMAIN files[name] |->
    LET line == files[name][i] IN
    IF line.kind # "include" THEN <<[line |-> line, from |-> name]>>
    ELSE IF line.name \in parents THEN <<[line |-> [NoLine EXCEPT !.kind = "cycle"], from |-> name]>>
    ELSE SourceLines(files, line.name, parents \cup {line.name})])
FunctionClaim(line) == line.kind \in {"address", "at"}
DefinitionAfter(lines, i) ==
  LET near == {j \in i + 1 .. i + 5 : j \in DOMAIN lines
                 /\ lines[j].kind \notin {"blank", "address", "at", "data"}}
  IN IF near = {} THEN NoLine ELSE lines[CHOOSE j \in near : \A k \in near : j <= k]
RunEnd(lines, i) ==
  CHOOSE e \in i .. Len(lines) : /\ \A k \in i .. e : FunctionClaim(lines[k])
                                 /\ e = Len(lines) \/ ~FunctionClaim(lines[e + 1])
DefinitionOf(lines, i) == DefinitionAfter(lines, IF FunctionClaim(lines[i]) THEN RunEnd(lines, i) ELSE i)
Claim(lines, i) == [image |-> lines[i].image, va |-> lines[i].va, size |-> lines[i].size,
                    name |-> DefinitionOf(lines, i).name]
ScanSource(files, source) ==
  LET located == SourceLines(files, source, {source})
      lines == [i \in DOMAIN located |-> located[i].line]
      own(i) == located[i].from = source
      Selected(Kind(_)) == LET at == SelectSeq([i \in DOMAIN lines |-> i], LAMBDA i : Kind(lines[i]))
                           IN [k \in DOMAIN at |-> Claim(lines, at[k])]
  IN [functions |-> Selected(FunctionClaim),
      data |-> Selected(LAMBDA l : l.kind = "data"),
      rodata |-> Selected(LAMBDA l : l.kind = "rodata"),
      tokens |-> {lines[i] : i \in {j \in DOMAIN lines : lines[j].kind \in {"func", "dat"}}},
      refused |-> \E i \in DOMAIN lines :
        \/ lines[i].kind = "cycle"
        \/ lines[i].kind = "rodata" /\ ~own(i)
        \/ lines[i].kind = "data" /\ (DefinitionOf(lines, i).kind # "global" \/ ~own(i))
        \/ FunctionClaim(lines[i]) /\ DefinitionOf(lines, i).kind # "function"]

(***************************************************************************)
(* Units: manifest.load.  A row is [unit, image, source, bind, scope]; the *)
(* units accepted so far hold every claim.                                 *)
(***************************************************************************)
\* The claims of a row at its image's addresses: filtered by image, or re-addressed by name.
Homonyms(rows, image, name) == {r \in Of(rows, image) : r.name = name}
Rebound(rows, image, claims) ==
  [k \in DOMAIN claims |-> [claims[k] EXCEPT !.va = (CHOOSE r \in Homonyms(rows, image, claims[k].name) : TRUE).va]]
Rebindable(rows, image, claims) ==
  \A k \in DOMAIN claims : Cardinality(Homonyms(rows, image, claims[k].name)) = 1
UnitFunctionClaims(c, row, scan) ==
  IF row.bind = "name" THEN Rebound(c.names, row.image, scan.functions)
  ELSE SelectSeq(scan.functions, LAMBDA claim : claim.image \in {"", row.image})
UnitDataClaims(c, row, scan) ==
  IF row.bind = "name" THEN Rebound(c.identities, row.image, scan.data) ELSE scan.data
NameBindable(c, row, scan) ==
  /\ \A claim \in Range(scan.functions) : claim.image = ""
  /\ scan.rodata = <<>>
  /\ Rebindable(c.names, row.image, scan.functions) /\ Rebindable(c.identities, row.image, scan.data)

Claimed(units, image, part) == UNION {{x.va : x \in Range(u[part])} : u \in {v \in Range(units) : v.image = image}}
Rising(claims) == \A k \in 2 .. Len(claims) : claims[k - 1].va < claims[k].va
ClaimsAdmitted(c, units, row, claims) ==
  \A claim \in Range(claims) : \E f \in At(c.functions, row.image, claim.va) :
    /\ Scope(c, f) = row.scope /\ f.fragments = 1 /\ claim.size = f.body /\ claim.name = NameAt(c, f)
    /\ f.va \notin Claimed(units, row.image, "functions")
RunIsWhole(c, row, claims) ==
  LET run == [k \in DOMAIN claims |-> CHOOSE f \in At(c.functions, row.image, claims[k].va) : TRUE]
  IN /\ \A f \in Of(c.functions, row.image) :
          run[1].va <= f.va /\ f.va <= Last(run).va => f \in Range(run)
     /\ \A k \in 2 .. Len(run) : run[k - 1].va + run[k - 1].size = run[k].va
BindClaims(c, units, row, claims) ==
  ClaimsAdmitted(c, units, row, claims) /\ Rising(claims) /\ RunIsWhole(c, row, claims)
BindDataClaims(c, units, row, claims) ==
  /\ \A claim \in Range(claims) : \E d \in At(c.identities, row.image, claim.va) :
       /\ claim.name = d.name /\ claim.size = d.size /\ d.storage \in {"load", "bss"}
       /\ d.va \notin Claimed(units, row.image, "data")
  /\ Rising(claims)
RodataFree(c, units, row, claims) ==
  \A r \in Range(claims) :
    /\ r.size > 0 /\ InImage(c, row.image, r.va, r.size)
    /\ \A u \in Range(units) : u.image = row.image /\ u.rodata # <<>>
                                 => ~Overlap(r.va, r.size, u.rodata[1], u.rodata[2])
\* A token is an address spelled in the text, as a function's or as a datum's.
Labels(c, image, token) ==
  IF token.kind = "dat" THEN {d.name : d \in At(c.identities, image, token.va)}
  ELSE IF At(c.names, image, token.va) # {} THEN {n.name : n \in At(c.names, image, token.va)}
  ELSE {f.symbol : f \in {g \in At(c.functions, image, token.va) : Scope(c, g) = "vendored"}}
StaleAddressNames(c, row, scan) ==
  \E token \in scan.tokens : \E name \in Labels(c, row.image, token) : name # token.name
InLinkedOrder(units, row, first) ==
  units = <<>> \/ Last(units).image # row.image \/ Last(units).functions[1].va < first
Admits(c, units, row, scan) ==
  LET functions == UnitFunctionClaims(c, row, scan)
      data == UnitDataClaims(c, row, scan)
  IN /\ row.image \in ImageNames(c) /\ row.unit \notin {u.unit : u \in Range(units)}
     /\ ~scan.refused /\ ~StaleAddressNames(c, row, scan)
     /\ row.bind = "name" => NameBindable(c, row, scan)
     /\ Len(scan.rodata) <= 1 /\ RodataFree(c, units, row, scan.rodata)
     /\ functions # <<>> /\ BindClaims(c, units, row, functions)
     /\ BindDataClaims(c, units, row, data)
     /\ InLinkedOrder(units, row, functions[1].va)
Unit(c, row, scan) ==
  LET functions == UnitFunctionClaims(c, row, scan)
      data == UnitDataClaims(c, row, scan)
  IN [unit |-> row.unit, image |-> row.image,
      functions |-> [k \in DOMAIN functions |-> CHOOSE f \in At(c.functions, row.image, functions[k].va) : TRUE],
      data |-> [k \in DOMAIN data |-> DataIdentity(c, CHOOSE d \in At(c.identities, row.image, data[k].va) : TRUE)],
      rodata |-> IF scan.rodata = <<>> THEN <<>> ELSE <<scan.rodata[1].va, scan.rodata[1].size>>]
LoadUnit(c, files, state, row) ==
  LET scan == ScanSource(files, row.source) IN
  IF state.refused \/ row.source \notin DOMAIN files \/ ~Admits(c, state.units, row, scan) THEN [state EXCEPT !.refused = TRUE]
  ELSE [state EXCEPT !.units = Append(@, Unit(c, row, scan))]
LoadManifest(c, files, rows) ==
  FoldLeft(LAMBDA state, row : LoadUnit(c, files, state, row),
           [units |-> <<>>, refused |-> ~ValidSections(c) \/ ~ValidReservations(c)], rows)

(***************************************************************************)
(* Contributions: config_data.load, after the units.                       *)
(***************************************************************************)
\* Mutant: read-only words of a unit are not an owner.
OwnersWithoutRodata(c, units, image) ==
  {Span(f.va, f.va + f.body) : f \in Of(c.functions, image)}
  \cup UNION {{Span(d.va, d.va + d.size) : d \in Range(u.data)} : u \in {v \in Range(units) : v.image = image}}
Owners(c, units, image) ==
  LET mine == {v \in Range(units) : v.image = image} IN
  {Span(f.va, f.va + f.body) : f \in Of(c.functions, image)}
  \cup UNION {{Span(d.va, d.va + d.size) : d \in Range(u.data)} : u \in mine}
  \cup {Span(u.rodata[1], u.rodata[1] + u.rodata[2]) : u \in {v \in mine : v.rodata # <<>>}}
LoadContribution(c, units, state, row) ==
  LET matching == Homonyms(c.identities, row.image, row.name)
      d == CHOOSE d \in matching : TRUE
      accepted == Range(state.contributions)
      owners == Owners(c, units, row.image) \cup {Span(x.va, x.va + x.size) : x \in {y \in accepted : y.image = row.image}}
  IN IF /\ ~state.refused /\ row.image \in ImageNames(c) /\ Cardinality(matching) = 1
        /\ d.storage = "load" /\ d.scope \in {"global", "static"} /\ d.confidence \in {"supported", "proven"}
        /\ d.size > 0 /\ InImage(c, row.image, d.va, d.size) /\ d.va % row.alignment = 0
        /\ \A o \in owners : ~Overlap(d.va, d.size, o[1], o[2] - o[1])
        /\ row.unit \notin {x.unit : x \in accepted} \cup {u.unit : u \in Range(units)}
     THEN [state EXCEPT !.contributions = Append(@, [unit |-> row.unit, image |-> row.image, va |-> d.va, size |-> d.size,
                                                     name |-> d.name, scope |-> d.scope, alignment |-> row.alignment])]
     ELSE [state EXCEPT !.refused = TRUE]
LoadContributions(c, units) ==
  LET loaded == FoldLeft(LAMBDA state, row : LoadContribution(c, units, state, row),
                         [contributions |-> <<>>, refused |-> FALSE], c.contributions)
  IN [loaded EXCEPT !.refused = @ \/ ~Ascends(c, loaded.contributions)]

\* The sections a unit's object is placed in by roundtrip.plan: text, each kind of data, read-only words.
Hull(spans) ==
  Span(CHOOSE va \in {s[1] : s \in spans} : \A s \in spans : va <= s[1],
       CHOOSE end \in {s[2] : s \in spans} : \A s \in spans : s[2] <= end)
UnitSections(unit) ==
  LET sections == {SectionOf(d) : d \in Range(unit.data)}
      In(section) == {d \in Range(unit.data) : SectionOf(d) = section}
      Extent(d) == IF d.reservation > d.size THEN d.reservation ELSE d.size
  IN {Hull({Span(f.va, f.va + f.size) : f \in Range(unit.functions)})}
     \cup {Hull({Span(d.va, d.va + Extent(d)) : d \in In(s)}) : s \in sections}
     \cup (IF unit.rodata = <<>> THEN {} ELSE {Span(unit.rodata[1], unit.rodata[1] + unit.rodata[2])})
==============================================================================
