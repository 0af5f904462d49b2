----------------------------- MODULE MCInventory -----------------------------
EXTENDS Inventory, Evidence, TLC
(***************************************************************************)
(* Rows against words: f at 2 to 5 holds two address pairs, g at 6 calls   *)
(* or jumps, d at 8 points somewhere.                                      *)
(***************************************************************************)
Code(name, va, size, fragments, vendored) ==
  [va |-> va, size |-> size, body |-> size, fragments |-> fragments, name |-> name, code |-> TRUE, vendored |-> vendored]
Object(name, va, size) == [va |-> va, size |-> size, name |-> name, code |-> FALSE]
EvidenceIndex == [functions |-> {Code("f", 2, 4, 1, FALSE), Code("g", 6, 2, 1, FALSE)}, data |-> {Object("d", 8, 2), Object("e", 10, 1)}]
EvidenceCatalog ==
  [functions |-> {[va |-> f.va, size |-> f.size, fragments |-> 1, code |-> TRUE, symbol |-> Plain(f.name)] : f \in EvidenceIndex.functions},
   data |-> {[va |-> d.va, size |-> d.size, symbol |-> Plain(d.name)] : d \in EvidenceIndex.data}]
Insn(op, reg, field) == [op |-> op, reg |-> reg, field |-> field]
EvidenceWords(a, b, jump) ==
  <<Insn("data", 0, 0), Insn("lui", 1, High(a)), Insn("lui", 2, High(b)), Insn("addiu", 1, a % Radix), Insn("lw", 1, b % Radix),
    Insn(jump, 0, 6), Insn(jump, 0, 2), Insn("data", 0, a), Insn("data", 0, 6), Insn("data", 0, b)>>
RelocRow(kind, site, paired, target, opcode) ==
  [kind |-> kind, site |-> site, paired |-> paired, target |-> target, opcode |-> opcode, status |-> "candidate",
   region |-> "load", channel |-> "reachable-code", name |-> Plain("")]
Rated1(row, statuses, regions) == {[row EXCEPT !.status = s, !.region = r] : s \in statuses, r \in regions}
Statuses == {"candidate", "reviewed", "rejected"}
EvidenceInput(in) ==
  \E a \in {9}, b \in {10, 3}, jump \in {"j", "jal"} :
  \E r \in {[x EXCEPT !.name = n] : x \in Rated1(RelocRow("hi_lo", 2, 4, a, ""), Statuses, {"load", "ram"}), n \in {Plain(""), Plain("e")}},
     q \in UNION {Rated1(x, Statuses, {"load", "ram"}) :
             x \in {RelocRow("hi_lo", 2, 5, b, ""), RelocRow("hi_lo", 3, 5, b, ""), RelocRow("word", 4, -1, a, ""), RelocRow("hi_lo", 2, 4, b, "")}},
     s \in UNION {Rated1(x, Statuses, {"load"}) :
             x \in {RelocRow("mips26", 7, -1, 2, jump), RelocRow("mips26", 6, -1, 6, jump), RelocRow("word", 8, -1, 8, "")}} :
    in = [words |-> EvidenceWords(a, b, jump), rows |-> <<r, q, s>>, jump |-> jump]
DecodedEdges(in) ==
  {[function |-> 6, site |-> 7, kind |-> IF in.jump = "jal" THEN "call" ELSE "tail", target |-> 2]}
Applied(in, f) ==
  LET rows == RowsOf(in.rows, [va |-> f.va, size |-> f.size])
  IN {rows[i] : i \in Range(Carve(in.words, f, rows, EvidenceCatalog, "safe", <<>>).used)}
\* The rows that claim a word of row i, and where the view and the delinker count them differently:
\* a reviewed row is shown as validated beside candidates that the delinker counts against it, any
\* other is shown as a candidate beside rows that the delinker does not count.
Rivals(in, i) == {j \in DOMAIN in.rows \ {i} : in.rows[j].status # "rejected" /\ Sites(in.rows[j]) \cap Sites(in.rows[i]) # {}}
CountedByDelinker(in, i) == {j \in Rivals(in, i) : Competes(in.rows[j], "safe")}
ShownTooHigh(in, i) ==
  in.rows[i].status = "reviewed" /\ CountedByDelinker(in, i) # {} /\ \A j \in Rivals(in, i) : in.rows[j].status = "candidate"
ShownTooLow(in, i) ==
  in.rows[i].status = "candidate" /\ Rivals(in, i) # {} /\ CountedByDelinker(in, i) = {}
InCode(in) == {<<i, f>> \in (DOMAIN in.rows) \X EvidenceCatalog.functions : Covers(f.va, f.size, in.rows[i].site)}
TiersHold(in, tier, applied, merged) ==
  /\ \A p \in InCode(in) :
       LET i == p[1] IN
       /\ tier[i] = "validated" => in.rows[i] \in applied[p[2]] \/ ShownTooHigh(in, i)
       /\ in.rows[i] \in applied[p[2]] => tier[i] = "validated" \/ (tier[i] = "candidate" /\ ShownTooLow(in, i))
  /\ \A e \in DecodedEdges(in) : \E r \in Range(merged) : r.site = e.site /\ r.target = e.target /\ r.kind = e.kind /\ Visible(r, TRUE)
  /\ \A i \in DOMAIN in.rows : \E r \in Range(merged) :
       r.site = in.rows[i].site /\ r.target = in.rows[i].target /\ (tier[i] = "validated" => Visible(r, FALSE))
TiersAgree(in) ==
  TiersHold(in, [i \in DOMAIN in.rows |-> Tier(in.rows, i, EvidenceIndex, in.words, EvidenceCatalog)],
            [f \in EvidenceCatalog.functions |-> Applied(in, f)],
            References(in.rows, EvidenceIndex, in.words, EvidenceCatalog, DecodedEdges(in)))

(***************************************************************************)
(* Closure: references of any tier between two game functions, a library's *)
(* function, claimed data and data that only the configuration knows.      *)
(***************************************************************************)
Extent(source, name, va, size) == [va |-> va, size |-> size, name |-> name, source |-> source, code |-> FALSE]
Ref(site, tier, target) == Reference(site, target, "address", site, NowhereVa, tier, TRUE, NowhereVa)
ClosureInput(in) ==
  \E f \in {2, 5, 7, 9} \X {"candidate", "proven"}, f2 \in {7, 10}, g \in {2, 9} \X {"rejected", "candidate", "validated"},
     v \in {5, 9, 11} \X {"candidate", "proven"}, d \in {5, 11} \X {"validated", "candidate"},
     gVendored \in BOOLEAN, claims \in {{}, {Extent("DATA", "D", 9, 2)}, {Extent("DATA", "D", 9, 2), Extent("RODATA", "R", 10, 2)}} :
    /\ (gVendored => f[2] = "candidate" /\ v[2] = "candidate") /\ (Cardinality(claims) = 1 => f2 = 7)
    /\ in = [idx |-> [functions |-> {Code("f", 2, 3, 1, FALSE), Code("g", 5, 2, 1, gVendored), Code("v", 7, 2, 1, TRUE)}, data |-> {}],
          extents |-> claims \cup {Extent("data.tsv", "w", 9, 3), Extent("data_identities.tsv", "x", 11, 1)},
          references |-> <<Ref(2, f[2], f[1]), Ref(3, "validated", f2), Ref(5, g[2], g[1]), Ref(7, v[2], v[1]), Ref(9, d[2], d[1])>>]
Leads(in, n, rank) ==
  UNION {Holding(in.idx, in.extents, r.target) :
    r \in {x \in Range(SitesIn(in.references, n)) : PathRank(3, x.tier, Holding(in.idx, in.extents, x.target)) >= rank}}
Within(in, nodes, rank) ==
  FoldLeft(LAMBDA reached, k : reached \cup UNION {Leads(in, n, rank) : n \in reached},
           {f \in in.idx.functions : ~f.vendored}, [k \in 1 .. Cardinality(nodes) |-> k])
\* within[rank]: what paths of that rank reach; ends: the last node of every node's chain of parents.
ClosureHolds(in, visits, issues, within, ends) ==
  /\ DOMAIN visits = within[1]
  /\ \A n \in DOMAIN visits :
       /\ \A rank \in 0 .. 3 : n \in within[rank] <=> rank <= visits[n].rank
       /\ visits[ends[n]].parent = {}
       /\ \A p \in visits[n].parent, r \in visits[n].via :
            visits[p].rank >= visits[n].rank /\ n \in Leads(in, p, visits[n].rank) /\ r \in Range(SitesIn(in.references, p))
  /\ \A n \in DOMAIN visits, r \in Range(in.references) :
       r \in Range(SitesIn(in.references, n)) /\ PathRank(visits[n].rank, r.tier, Holding(in.idx, in.extents, r.target)) < 2 =>
         \E issue \in issues : issue[2] = {n} /\ issue[3] = {r}
TreeHolds(in, f, depth) ==
  LET Callees(g) == {h \in in.idx.functions : \E r \in Range(in.references) :
                       HoldsVa(g, r.site) /\ HoldsVa(h, r.target) /\ TierRank(r.tier) > 1}
      Steps(k) == FoldLeft(LAMBDA reached, i : reached \cup UNION {Callees(g) : g \in reached}, {f}, [i \in 1 .. k |-> i])
  IN {Last(p) : p \in Tree(in.idx, [i \in DOMAIN in.references |-> [in.references[i] EXCEPT !.kind = "call"]], f, TRUE, depth, <<>>)}
     = Steps(depth)
ClosureIsBest(in) ==
  LET nodes == in.idx.functions \cup in.extents
      Up(visits, n) == IF visits[n].parent = {} THEN n ELSE CHOOSE p \in visits[n].parent : TRUE
      End(visits, n) == FoldLeft(LAMBDA m, k : Up(visits, m), n, [k \in 1 .. Cardinality(nodes) |-> k])
      Closed(closure) == ClosureHolds(in, closure.visits, closure.issues, [rank \in 0 .. 3 |-> Within(in, nodes, rank)],
                                      [n \in DOMAIN closure.visits |-> End(closure.visits, n)])
  IN /\ Closed(AuditReachability(in.idx, in.extents, in.references, [w \in {} |-> 0], NowhereVa))
     /\ \A f \in in.idx.functions, depth \in 0 .. 2 : TreeHolds(in, f, depth)
(***************************************************************************)
(* Layouts: two headers, A in the first, B in the second made of A.        *)
(***************************************************************************)
Member(name, form, value, of) == [name |-> name, form |-> form, value |-> value, of |-> of]
Members(forms) == [i \in DOMAIN forms |-> Member(<<"p", "q", "r">>[i], forms[i][1], forms[i][2], forms[i][3])]
Field(name, type, pointer, bounds) == [name |-> name, type |-> type, pointer |-> pointer, bounds |-> bounds]
Of2(n) == <<[name |-> "", value |-> n]>>
Named1(name) == <<[name |-> name, value |-> 0]>>
Forms == {<<"number", 2, "">>, <<"number", EnumEnd, "">>, <<"implicit", 0, "">>, <<"alias", 0, "p">>, <<"expression", 3, "">>}
LayoutInput(in) ==
  \E forms \in Forms \X Forms \X Forms, first \in {"u8", "u16", "Mode"}, second \in {"u32", "DISPENV", "ModeByte"}, kind \in {"struct", "union"},
     bounds \in {<<>>, Of2(3), Named1("q"), Named1("r")}, again \in {"A", "u8"} :
    in = <<[enums |-> <<Members(forms)>>, stored |-> <<[name |-> "Mode", storage |-> "u16", members |-> <<Member("m", "alias", 0, "p")>>]>>,
            aliases |-> <<[domain |-> "Mode", storage |-> "u8", name |-> "ModeByte"]>>,
            types |-> <<[name |-> "A", kind |-> "struct", fields |-> <<Field("x", first, FALSE, <<>>), Field("y", second, FALSE, bounds)>>]>>],
           [enums |-> <<>>, stored |-> <<>>, aliases |-> <<>>,
            types |-> <<[name |-> "B", kind |-> kind, fields |-> <<Field("h", "u8", FALSE, <<>>), Field("a", again, FALSE, Of2(2)), Field("z", "A", TRUE, <<>>)>>]>>]>>
\* What C makes of the members of one enum, an expression having the value that the input gives it.
TrueValues(members) ==
  LET Value(known, m) == CASE m.form = "alias" -> known[CHOOSE k \in DOMAIN known : members[k].name = m.of] [] m.form = "implicit" -> IF known = <<>> THEN 0 ELSE Last(known) + 1
                           [] OTHER -> m.value
  IN FoldLeft(LAMBDA known, m : Append(known, Value(known, m)), <<>>, members)
LegalEnum(members) == members[1].form # "alias" /\ \A v \in Range(TrueValues(members)) : v <= EnumEnd
LayoutHolds(in, read, state) ==
  LET members == in[1].enums[1]
      Leaf(t) == t \in DOMAIN state.primitives
      Each(field) == IF field.pointer THEN Pointer ELSE IF Leaf(field.type) THEN state.primitives[field.type] ELSE read.layouts[field.type]
      Total(field) == Each(field).size * Count([i \in DOMAIN field.bounds |-> Bound(state, field.bounds[i])])
      FieldsOf(name) == state.definitions[name].fields
      OffsetOf(name, k) == read.layouts[name].fields[k].offset
      Ends(name, k) == OffsetOf(name, k) + Total(FieldsOf(name)[k])
      Width(name) == read.layouts[name].size
      Copies(field) == 0 .. (Total(field) \div Each(field).size) - 1
      Elements(name) == UNION {{[at |-> OffsetOf(name, k) + n * Each(FieldsOf(name)[k]).size, field |-> k] : n \in Copies(FieldsOf(name)[k])} : k \in DOMAIN FieldsOf(name)}
      rows == {[name |-> n, size |-> Width(n)] : n \in DOMAIN read.layouts}
      fields == [k \in 1 .. Len(read.layouts["A"].fields) |-> [read.layouts["A"].fields[k] EXCEPT !.name = @] @@ [structure |-> "A"]]
                \o [k \in 1 .. Len(read.layouts["B"].fields) |-> [read.layouts["B"].fields[k] EXCEPT !.name = @] @@ [structure |-> "B"]]
  IN /\ LegalEnum(members) => \A k \in DOMAIN members : members[k].name \in DOMAIN read.constants => read.constants[members[k].name] = TrueValues(members)[k]
     /\ LegalEnum(members) /\ (\A k \in DOMAIN members : members[k].form # "expression") => \A k \in DOMAIN members : members[k].name \in DOMAIN read.constants
     /\ ~read.refused =>
          \A name \in DOMAIN read.layouts :
            /\ Width(name) % read.layouts[name].alignment = 0
            /\ \A base \in {0, Width(name)}, e \in Elements(name) :
                 LET type == Each(FieldsOf(name)[e.field]) IN (base + e.at) % type.alignment = 0 /\ e.at + type.size <= Width(name)
            /\ state.definitions[name].kind = "struct" =>
                 \A k \in DOMAIN FieldsOf(name) \ {1} :
                   OffsetOf(name, k) >= Ends(name, k - 1) /\ OffsetOf(name, k) - Ends(name, k - 1) < Each(FieldsOf(name)[k]).alignment
            /\ \E k \in DOMAIN FieldsOf(name) : Width(name) - Ends(name, k) < read.layouts[name].alignment
     /\ ~read.refused => /\ ValidStructures(SetToSeq(rows), fields, read.layouts)
                         /\ \A k \in DOMAIN fields : ~ValidStructures(SetToSeq(rows), [fields EXCEPT ![k].offset = @ + 1], read.layouts)
LayoutIsC(in) == LayoutHolds(in, HeaderLayouts(in), ReadHeaders(in))

(***************************************************************************)
(* Tables over an image whose load is 2 to 12.                             *)
(***************************************************************************)
Routine(va, size, fragments, curated) ==
  [image |-> "G", va |-> va, size |-> size, body |-> size, fragments |-> fragments, symbol |-> "", curated |-> curated]
Piece(va, size, kind, curated) == [image |-> "G", va |-> va, size |-> size, kind |-> kind, curated |-> curated]
BssRow(target, name, status) ==
  [image |-> "G", site |-> 2, paired |-> 3, target |-> target, region |-> "bss", status |-> status, name |-> name]
Census(in) ==
  [images |-> <<[name |-> "G", start |-> 2, end |-> 12, entry |-> 2]>>,
   functions |-> <<Routine(2, 2, 1, in.curated), Routine(4, 2, 1, Plain("g")), Routine(6, 1, 1, Plain("lib")), Routine(7, 1, 2, Nameless)>>,
   vendored |-> <<[image |-> "G", va |-> 6, size |-> 1]>>,
   data |-> <<Piece(8, 2, in.kind, in.datum), Piece(10, 2, "unclassified", Nameless)>>,
   relocs |-> in.relocs, sections |-> <<>>, reservations |-> in.reservations, identities |-> <<>>, functionIdentities |-> <<>>]
Unknown(pointer, name) == [type |-> "int", star |-> IF pointer THEN "type" ELSE "none", name |-> name]
SeedCode == [va \in 2 .. 12 |-> IF va = 2 THEN <<[op |-> "lw", rs |-> 4, rt |-> 2, rd |-> 0, field |-> 0]>> ELSE <<>>]
Decompiled(va, parameters) ==
  [image |-> "G", va |-> va, status |-> "decompiled", returns |-> "int", parameters |-> parameters]
Memory(target, start, size, type) ==
  [image |-> "G", site |-> 2, target |-> target, start |-> start, size |-> size, type |-> type, function |-> "f"]
CensusInput(in) ==
  \E curated \in {Plain("f"), Plain("g"), Nameless}, kind \in {"data", "bss", "string"}, datum \in {Plain("d"), Nameless},
     a \in {<<12, 12>>, <<13, 12>>, <<15, 12>>}, b \in {<<12, 12>>, <<13, 13>>, <<14, 14>>, <<8, 8>>}, status \in {"candidate", "rejected"},
     tail \in {<<>>, <<Variadic>>}, found \in {<<>>, <<[type |-> "int", pointer |-> TRUE]>>}, signature \in {"candidate", "supported"},
     reserved \in {0, 3}, extra \in {<<14, 2, 14>>, <<15, 1, 15>>, <<16, 3, 17>>, <<17, 2, 17>>, <<22, 4, 23>>, <<11, 2, 12>>} :
    in = [curated |-> curated, kind |-> kind, datum |-> datum,
          relocs |-> <<BssRow(a[1], Dat(a[2]), "candidate"), BssRow(b[1], Dat(b[2]), status)>>,
          reservations |-> IF reserved = 0 THEN <<>> ELSE <<[image |-> "G", va |-> 12, name |-> Dat(12), size |-> reserved]>>,
          tail |-> tail, candidates |-> {Decompiled(2, found)}, signature |-> signature,
          references |-> {Memory(extra[3], extra[1], extra[2], "READ"), Memory(16, 16, 2, "WRITE"), Memory(20, 20, 1, "DATA")}]
SeedClean(c) ==
  LET named == {r \in Range(c.relocs) : r.status # "rejected" /\ At(c.data, r.image, r.name.at) \subseteq {d \in Range(c.data) : d.kind \in {"string", "unclassified"}}}
  IN /\ UniqueNames([i \in DOMAIN Universe(c) |-> [Universe(c)[i] EXCEPT !.symbol = ""] @@ [name |-> SeedFunction(Universe(c)[i], <<>>).name]])
     /\ \A r, q \in named : r.name.at = q.name.at \/ ~Overlap(r.name.at, SeedSize, q.name.at, SeedSize)
     /\ \A r \in named : \E t \in BssTargets(c, r.image) : Covers(r.name.at, SeedSize, t)
     /\ \A r \in named : At(c.data, r.image, r.name.at) = {}
Grown(in) ==  \* what a person made of the seed: a static datum with a reservation, a parameter list and a signature
  LET seeded == Seed([Census(in) EXCEPT !.reservations = <<>>], SeedCode)
  IN [seeded EXCEPT !.reservations = in.reservations,
                    !.identities = [i \in DOMAIN @ |-> IF @[i].va = 12 THEN [@[i] EXCEPT !.scope = "static"] ELSE @[i]],
                    !.functionIdentities = [@ EXCEPT ![1].parameters = <<Unknown(TRUE, "target")>> \o in.tail, ![1].signature = in.signature]]
ProposalsAreAdmitted(in) ==
  LET c == Census(in)
      seeded == Seed([c EXCEPT !.reservations = <<>>], SeedCode)
      grown == Grown(in)
      signed == ProposeSignatures(grown, in.candidates)
      found == ProposeIdentities(grown, in.references)
      new == Range(found.identities) \ Range(grown.identities)
      Spoils(d) == \E r \in Range(grown.reservations) : Overlap(d.va, d.size, r.va, r.size)
      wild == in.signature = "candidate" /\ in.tail # <<>> /\ \E x \in in.candidates : x.parameters = <<>>
  IN /\ Validate(seeded) = SeedClean(c)
     /\ SeedRefused(seeded)
     /\ Validate(grown) =>
          /\ Validate(signed) = ~wild
          /\ Validate(found) = ~\E d \in new : Spoils(d)
          /\ Range(grown.identities) \subseteq Range(found.identities) /\ ~\E x, y \in new : x # y /\ Overlap(x.va, x.size, y.va, y.size)
          /\ \A i \in DOMAIN grown.functionIdentities :
               grown.functionIdentities[i].signature \notin {"address-only", "candidate"} => signed.functionIdentities[i] = grown.functionIdentities[i]
          /\ \A r \in in.references :
               LET before == TargetGroup(grown, "G", r.target, in.references)
                   after == TargetGroup(found, "G", r.target, in.references)
               IN before.region = "unowned-ram" /\ r.type \in Accesses /\ 12 <= r.start /\ r.start + r.size <= RamEnd
                    => after.region = "owned" \/ \E d \in Range(grown.identities) : Overlap(r.start, r.size, d.va, d.size)
\* Hand-made rows of data.
RowInput(in) ==
  \E x \in {8, 10, 11, 12, 13} \X {1, 2, 3} \X {"load", "bss"} \X {{}, {GhidraChannel}},
     y \in {11, 12, 14, 16} \X {1, 2, 9} \X {"load", "bss"} \X {{}, {GhidraChannel}}, t \in {12, 13, 14}, kind \in {"data", "bss"} :
    in = [curated |-> Nameless, kind |-> kind, datum |-> Nameless, relocs |-> <<BssRow(t, Dat(t), "candidate")>>, reservations |-> <<>>,
          identities |-> [i \in 1 .. 2 |-> LET r == <<x, y>>[i] IN
            [image |-> "G", va |-> r[1], size |-> r[2], name |-> Dat(r[1]), scope |-> "unknown", storage |-> r[3],
             confidence |-> "address-only", evidence |-> r[4]]]]
IdentitiesAreApart(in) ==
  LET c == [Census(in) EXCEPT !.identities = in.identities]
      x == in.identities[1]
      y == in.identities[2]
  IN ValidDataIdentities(c) => \/ ~Overlap(x.va, x.size, y.va, y.size)
                               \/ \E d \in {x, y} : d.storage = "bss" /\ At(c.data, "G", d.va) = {} /\ d.va < 12

(***************************************************************************)
(* Code: what an execution of the words in a row makes of its registers.   *)
(***************************************************************************)
I(op, rs, rt, rd, field) == [op |-> op, rs |-> rs, rt |-> rt, rd |-> rd, field |-> field]
CodeWords == {I("lui", 0, 4, 0, 2), I("lui", 0, 16, 0, 2), I("jal", 0, 0, 0, 6), I("jalr", 3, 0, 0, 0), I("lw", 4, 4, 0, 1), I("lw", 16, 2, 0, 3),
            I("sw", 16, 5, 0, 0), I("addiu", 4, 16, 0, 1), I("addu", 5, 6, 4, 0), I("sll", 0, 7, 5, 0)}
CodeInput(in) == \E code \in [1 .. 5 -> CodeWords] : in = code
BssData == {[va |-> 8, size |-> 2, kind |-> "bss"], [va |-> 6, size |-> 2, kind |-> "data"]}
CodeCatalog == [functions |-> {}, data |-> {[va |-> d.va, size |-> d.size, symbol |-> Dat(d.va)] : d \in BssData}]
Sources(i) == CASE i.op \in {"lw", "addiu", "jalr"} -> {i.rs} [] i.op \in {"sw", "addu", "beq"} -> {i.rs, i.rt} [] i.op = "sll" -> {i.rt} [] OTHER -> {}
Destination1(i) == CASE i.op \in {"lui", "lw", "addiu"} -> {i.rt} [] i.op \in {"addu", "sll", "mflo"} -> {i.rd} [] i.op \in Calls -> {31} [] OTHER -> {}
\* origin: the lui a register's value comes from, 0 at the entry, -1 from elsewhere.
Walk(code) ==
  FoldLeft(LAMBDA walked, k :
             LET last == Last(walked)
                 written == [r \in DOMAIN last |-> IF r \in Destination1(code[k]) THEN IF code[k].op = "lui" THEN k ELSE -1 ELSE last[r]]
                 returned == k > 1 /\ code[k - 1].op \in Calls
             IN Append(walked, [r \in DOMAIN last |-> IF returned /\ r \in CallerSaved THEN -1 ELSE written[r]]),
           <<[r \in 0 .. 31 |-> 0]>>, [k \in DOMAIN code |-> k])
HintsAreExecuted(in) ==
  LET walked == Walk(in)
      read == UNION {{r \in Sources(in[k]) \cap Arguments : walked[k][r] = 0} : k \in DOMAIN in}
      calls == \E i \in Range(in) : i.op \in Calls
      rows == ProposedRows(2, in, BssData, {})
      Slot(k) == k > 1 /\ in[k - 1].op \in Calls
      owner == [va |-> 2, size |-> Len(in), code |-> TRUE]
      blob == [o \in 0 .. Len(in) - 1 |-> Half(in[o + 1])]
  IN /\ ~calls => Len(SignatureHints(in).parameters) = Highest(read) - 3
     /\ \A r \in rows : /\ walked[r.paired - 1][in[r.paired - 1].rs] = r.site - 1 \/ (Slot(r.site - 1) /\ in[r.site - 1].rt \in CallerSaved)
                        /\ ~Valid(blob, owner, r, CodeCatalog, "safe")
                        /\ in[r.paired - 1].op \in SignedLows => Valid(blob, owner, r, CodeCatalog, "all")
     /\ \A lo \in DOMAIN in :
          LET hi == walked[lo][in[lo].rs] IN
          in[lo].op \in Lows /\ hi > 0 /\ lo < hi + PairReach /\ DecodeHiLo(Half(in[hi]), Half(in[lo])) \in 8 .. 9 =>
            (Slot(lo) /\ in[hi].rt \in CallerSaved) \/ \E r \in rows : r.site = hi + 1 /\ r.paired = lo + 1

\* The dossiers of a function and of what it uses agree: on the inputs of the evidence above.
DossiersHold(references, function, datum) ==
  LET Starts(f, g) == \A r \in Range(references) : HoldsVa(f, r.site) /\ HoldsVa(g, r.target) => r.target = g.va
  IN /\ \A f \in DOMAIN function, d \in DOMAIN datum : (d \in function[f].data) = (f \in datum[d].confirmed)
     /\ \A f, g \in DOMAIN function : f # g /\ Starts(f, g) => (g \in function[f].callees) = (f \in function[g].callers)
     /\ \A d \in DOMAIN datum :
          /\ datum[d].confirmed \cap datum[d].candidates = {}
          /\ datum[d].hint.owner # {} => \E f \in datum[d].hint.owner : \A g \in datum[d].confirmed : g = f
DossiersAgree(in) ==
  LET Of1(references) == DossiersHold(references, [f \in EvidenceIndex.functions |-> FunctionDossier(EvidenceIndex, references, f)],
                                      [d \in EvidenceIndex.data |-> DataDossier(EvidenceIndex, references, in.words, d)])
  IN Of1(References(in.rows, EvidenceIndex, in.words, EvidenceCatalog, DecodedEdges(in)))
==============================================================================
