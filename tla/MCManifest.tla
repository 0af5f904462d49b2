------------------------------ MODULE MCManifest ------------------------------
EXTENDS Contributions, TLC
(***************************************************************************)
(* The manifest of claims.                                                 *)
(***************************************************************************)
\* Image G has 14 words of functions a, b, c, a library function and data, image O copies of a, b and d.
Function(image, va, size, body, symbol) ==
  [image |-> image, va |-> va, size |-> size, body |-> body, fragments |-> 1, symbol |-> symbol]
Row(image, va, size) == [image |-> image, va |-> va, size |-> size]
Name(image, va, name) == [image |-> image, va |-> va, name |-> name]
Identity(image, va, name, size, storage) ==
  [image |-> image, va |-> va, name |-> name, size |-> size, storage |-> storage, scope |-> "static", confidence |-> "proven"]
Config(in) ==
  [images |-> <<[name |-> "G", start |-> 2, end |-> 16, entry |-> 2], [name |-> "O", start |-> 2, end |-> 8, entry |-> 2]>>,
   functions |-> <<Function("G", 2, 2, 2, "a"), Function("G", 4, 2, in.body, "fb"), Function("G", 6, 1, 1, "c"),
                   Function("G", 7, 1, 1, "lib"), Function("O", 2, 2, 2, "a"), Function("O", 4, 2, 2, "fb")>>,
   data |-> <<Row("G", in.census, 16 - in.census), Row("O", 6, 2)>>,
   relocs |-> <<[image |-> "G", site |-> 2, paired |-> -1, target |-> in.call, status |-> "candidate", opcode |-> "jal",
                 channel |-> "reachable-code", region |-> "load"]>>,
   vendored |-> <<Row("G", 7, 1)>>,
   names |-> <<Name("G", 2, "a"), Name("G", 4, "b"), Name("G", 6, "c"), Name("O", 2, "a"), Name("O", 4, "b")>>,
   identities |-> <<Identity("G", 8, "d", 2, "load"), Identity("G", 10, "e", in.extent, "load"), Identity("G", 11, "f", 1, "load"),
                    Identity("G", 5, "k", 1, "load"), Identity("G", 13, "t", 1, "load"), Identity("G", 16, "z", 1, "bss"),
                    Identity("G", 18, "y", 1, "bss"), Identity("O", 6, "d", 2, "load")>>,
   sections |-> <<[image |-> "G", va |-> 11, name |-> "f", section |-> ".sdata"]>>,
   reservations |-> IF in.reserved = 0 THEN <<>> ELSE <<[image |-> "G", va |-> 16, name |-> "z", size |-> in.reserved]>>,
   contributions |-> [i \in DOMAIN in.contributions |->
     [image |-> "G", name |-> in.contributions[i], unit |-> in.contributions[i], alignment |-> 1]]]
Line(kind, image, va, size, name) == [kind |-> kind, image |-> image, va |-> va, size |-> size, name |-> name]
Define(name) == <<Line("function", "", 0, 0, name)>>
Own(va, size, name) == <<Line("data", "", va, size, ""), Line("global", "", 0, 0, name)>>
Bytes(va, size) == <<Line("rodata", "", va, size, "")>>
\* main claims a and b, by image or plainly; tail claims c and data; lib is a library source; cut is of the text after a.
Files(in) ==
  [main |-> (IF in.shared THEN <<Line("at", "G", 2, 2, ""), Line("at", "O", 2, 2, "")>> ELSE <<Line("address", "", 2, 2, "")>>)
              \o Define("a") \o <<Line("include", "", 0, 0, "part")>> \o in.mainData,
   part |-> <<Line("address", "", 4, in.body, ""), Line("blank", "", 0, 0, "")>> \o Define("b") \o in.cut,
   tail |-> <<Line("address", "", 6, 1, "")>> \o Define("c") \o in.tailData,
   lib |-> <<Line("address", "", 7, 1, "")>> \o Define("lib")]
UnitRow(unit, image, source, bind) ==
  [unit |-> unit, image |-> image, source |-> source, bind |-> bind, scope |-> IF source = "lib" THEN "vendored" ELSE "decomp"]
Listings ==
  {<<UnitRow("u", "G", "main", "address")>>,
   <<UnitRow("u", "G", "main", "address"), UnitRow("v", "G", "tail", "address"), UnitRow("l", "G", "lib", "address")>>,
   <<UnitRow("u", "G", "main", "address"), UnitRow("o", "O", "main", "name"), UnitRow("v", "G", "tail", "address")>>,
   <<UnitRow("v", "G", "tail", "address"), UnitRow("o", "O", "main", "address"), UnitRow("u", "G", "main", "address")>>,
   <<UnitRow("u", "G", "main", "address"), UnitRow("w", "G", "main", "address")>>,
   <<UnitRow("v", "G", "tail", "address"), UnitRow("u", "G", "main", "address")>>}
ManifestInput(in) ==
  \E rows \in Listings, body \in 1 .. 2, extent \in 1 .. 2 :
    \E mainData \in {<<>>, Own(8, 2, "d"), Own(8, 2, "d") \o Own(10, extent, "e"), Own(11, 1, "f"), Bytes(12, 2)},
       tailData \in {<<>>, Own(11, 1, "f"), Bytes(13, 2), Bytes(8, 1), Own(8, 2, "d"), Own(16, 1, "z") \o Own(18, 1, "y")} :
    \E plain \in {[rows |-> rows, body |-> body, census |-> 8, call |-> 6, extent |-> extent, shared |-> FALSE, reserved |-> 0,
                   contributions |-> <<>>, mainData |-> mainData, tailData |-> tailData, cut |-> <<>>]} :
      \/ \E contributions \in {<<>>, <<"k">>, <<"e", "t">>, <<"t", "e">>, <<"d">>}, reserved \in {0, 1, 3} :
           in = [plain EXCEPT !.contributions = contributions, !.reserved = reserved]
      \/ \E shape \in {<<8, 6>>, <<7, 6>>, <<8, 5>>, <<9, 6>>}, shared \in BOOLEAN,
           cut \in {<<>>, Bytes(14, 1), <<Line("dat", "", 8, 0, "DAT8")>>} :
           in = [plain EXCEPT !.census = shape[1], !.call = shape[2], !.shared = shared, !.cut = cut]
Parts(u) ==
  {Span(f.va, f.va + f.size) : f \in Range(u.functions)}
  \cup {Span(d.va, d.va + IF d.reservation > d.size THEN d.reservation ELSE d.size) : d \in Range(u.data)}
  \cup (IF u.rodata = <<>> THEN {} ELSE {Span(u.rodata[1], u.rodata[1] + u.rodata[2])})
Meet(s, t) == Overlap(s[1], s[2] - s[1], t[1], t[2] - t[1])
Claimed1(units, given) ==
  UNION {{<<s[1], s[2], u.unit>> : s \in UnitSections(u)} : u \in units} \cup {<<x.va, x.va + x.size, x.unit>> : x \in given}
OwnersApart(units, given, overlaps) ==
  LET Reported(x, y) == \E pair \in overlaps : {p[3] : p \in pair} = {x, y}
  IN /\ \A u, v \in units : u # v =>
          /\ \A f \in Range(u.functions), g \in Range(v.functions) : ~Overlap(f.va, f.size, g.va, g.size)
          /\ \A s \in Parts(u), t \in Parts(v) : Meet(s, t) => Reported(u.unit, v.unit)
          /\ u.rodata # <<>> /\ v.rodata # <<>> => ~Overlap(u.rodata[1], u.rodata[2], v.rodata[1], v.rodata[2])
     /\ \A x \in given :
          /\ \A y \in given : x # y => ~Overlap(x.va, x.size, y.va, y.size)
          /\ \A u \in units : \A s \in Parts(u) : Meet(Span(x.va, x.va + x.size), s) =>
               /\ Reported(u.unit, x.unit)
               /\ \E f \in Range(u.functions) : f.va + f.body <= x.va /\ x.va + x.size <= f.va + f.size
\* Every word of an accepted configuration that two owners claim is seen: code and read-only words
\* are never claimed twice, a contribution lies in nobody's words, and find_overlaps names the owners of any other.
OwnersAreApart(in) ==
  LET Seen(units, given) == OwnersApart(units, given, FindOverlaps(Claimed1(units, given)))
      In(image, rows) == {r \in Range(rows) : r.image = image}
      Loaded(c, units, loaded) == ~loaded.refused => \A image \in ImageNames(c) : Seen(In(image, units), In(image, loaded.contributions))
      Accepted(c, manifest) == ~manifest.refused => Loaded(c, manifest.units, LoadContributions(c, manifest.units))
      Configured(c) == ValidConfig(c) => Accepted(c, LoadManifest(c, Files(in), in.rows))
  IN Configured(Config(in))
(***************************************************************************)
(* What the units contribute to a linked section.                          *)
(***************************************************************************)
\* Listings: a switch to the section, then four lines of any kind.
Entry1(kind, section, count, offset, bytes) ==
  [kind |-> kind, section |-> section, count |-> count, offset |-> offset, bytes |-> bytes, name |-> "t"]
ListingLines ==
  {Entry1("switch", "1", 0, 0, <<>>), Entry1("switch", "2", 0, 0, <<>>), Entry1("code", "", 2, 0, <<>>),
   Entry1("code", "", 1, 0, <<>>), Entry1("dump", "", 0, 0, <<5>>), Entry1("dump", "", 0, 0, <<5, 6>>),
   Entry1("dump", "", 0, 1, <<7>>), Entry1("patch", "", 0, 0, <<>>), Entry1("export", "1", 0, 0, <<>>),
   Entry1("symbol", "1", 0, 0, <<>>), Entry1("blank", "", 0, 0, <<>>)}
ListingInput(in) ==
  \E a, b \in ListingLines : \E c, d \in ListingLines, tag \in {"t4", "t32"} :
    in = [lines |-> <<Entry1("switch", "1", 0, 0, <<>>), a, b, c, d>>, tag |-> tag]
\* A section that is read is whole: the dumps of its code records, each record as long as it says and its
\* bytes in place, nothing of another section, and no patch inside it that the words would lack.
SectionIsWhole(in) ==
  LET read == ParseSdkSection({[name |-> ".data", number |-> "1", tag |-> in.tag], [name |-> ".bss", number |-> "2", tag |-> "t4"]},
                              in.lines, ".data")
      lines == SelectSeq(in.lines, LAMBDA l : l.kind # "blank")
      Current(i) == lines[CHOOSE j \in 1 .. i : lines[j].kind = "switch" /\ \A k \in j + 1 .. i : lines[k].kind # "switch"].section
      mine == {i \in DOMAIN lines : Current(i) = "1"}
      Record(i) == CHOOSE k \in i .. Len(lines) : /\ \A j \in i + 1 .. k : lines[j].kind = "dump"
                                                  /\ k = Len(lines) \/ lines[k + 1].kind # "dump"
      DumpsOf(i) == [j \in 1 .. Record(i) - i |-> lines[i + j]]
      records == SelectSeq([i \in DOMAIN lines |-> i], LAMBDA i : i \in mine /\ lines[i].kind = "code")
      BytesOf(i) == FlattenSeq([j \in DOMAIN DumpsOf(i) |-> DumpsOf(i)[j].bytes])
  IN ~read.refused =>
       /\ read.data = FlattenSeq([k \in DOMAIN records |-> BytesOf(records[k])])
       /\ \A i \in Range(records) :
            /\ Len(BytesOf(i)) = lines[i].count
            /\ \A j \in DOMAIN DumpsOf(i) :
                 DumpsOf(i)[j].offset = Len(FlattenSeq([m \in 1 .. j - 1 |-> DumpsOf(i)[m].bytes]))
       /\ \A i \in mine : lines[i].kind # "patch"
       /\ in.tag = "t4"

\* A contribution of two words at 4, the words of the image, of the library and of the objects on disk.
Word1(n) == [op |-> "data", reg |-> 0, field |-> n]
Retail1(a, b) == [at \in 2 .. 9 |-> IF at = 4 THEN Word1(a) ELSE IF at = 5 THEN Word1(b) ELSE Word1(at)]
Section1(bytes, alignment, exports) == [refused |-> FALSE, data |-> bytes, alignment |-> alignment, exports |-> exports]
Report1(name, total, matched, code) ==
  [name |-> name, code |-> code, total |-> total, matched |-> matched, data |-> <<total>>, fuzzy |-> 100]
ContributionInput(in) ==
  \E scope \in {"global", "static"}, image \in {<<1, 2>>, <<1, 3>>}, library \in {<<1, 2>>, <<1, 3>>, <<1>>},
     exported \in BOOLEAN, alignment \in {1, 2} :
  \E target, base \in {<<1, 2>>, <<1, 3>>}, moved \in {"no", "base", "target"}, fresh, built \in BOOLEAN, row \in {3, 5},
     report \in {<<Report1("x", 2, 2, 0)>>, <<Report1("x", 2, 1, 0)>>, <<>>, <<Report1("x", 2, 2, 0), Report1("x", 2, 2, 1)>>} :
    in = [scope |-> scope, image |-> image, library |-> library, exported |-> exported, alignment |-> alignment,
          target |-> target, base |-> base, moved |-> moved, fresh |-> fresh, built |-> built, row |-> row, report |-> report]
\* A contribution counted as matched is the library's section and the image's words at its address,
\* whichever objects and report lie on disk.
Library(in) ==
  Section1([i \in DOMAIN in.library |-> Word1(in.library[i])], in.alignment, IF in.exported THEN <<<<"t", 0>>>> ELSE <<>>)
Contributed(in) == [unit |-> "x", image |-> "G", va |-> 4, size |-> 2, name |-> "t", scope |-> in.scope, alignment |-> 2]
OnDisk(in, who) ==
  ContributionObject([Contributed(in) EXCEPT !.name = IF in.moved = who THEN "z" ELSE "t"],
                     [o \in 0 .. 1 |-> Word1(in[who][o + 1])], 2)
MatchedIsProvided(in) ==
  LET retail == Retail1(in.image[1], in.image[2])
      rows == <<[image |-> "G", site |-> in.row, paired |-> -1, status |-> "candidate"]>>
      Provided(x, section, target, base) ==
        Matched(x, section, target, base, retail, in.report, in.fresh) =>
          /\ \A o \in 0 .. 1 : retail[4 + o] = section.data[o + 1]
          /\ in.exported = (in.scope = "global")
          /\ \A object \in {target, base} : \E e \in Range(object.symbols) : e.name = Plain(x.name) /\ e.section # 0
      Built(x, section, target, stale) == Provided(x, section, target, IF in.built THEN BuildBase(x, section, stale) ELSE stale)
  IN Built(Contributed(in), Library(in), DelinkContribution(Contributed(in), retail, rows, OnDisk(in, "target")), OnDisk(in, "base"))
==============================================================================
