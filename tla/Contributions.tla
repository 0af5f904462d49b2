---------------------------- MODULE Contributions ----------------------------
(***************************************************************************)
(* Data of an image that no source owns: config_data.py reads a section    *)
(* out of the listing of a library's object, writes it as the base object, *)
(* carves the target object out of the image and compares the two.         *)
(*                                                                         *)
(* A listing's line is [kind, section, count, offset, bytes, name].        *)
(***************************************************************************)
EXTENDS Manifest

(***************************************************************************)
(* parse_sdk_section: a machine over the lines.  pending counts the bytes  *)
(* of a code record whose dump has begun.                                  *)
(***************************************************************************)
Tags == [t2 |-> 1, t4 |-> 2, t8 |-> 4, t16 |-> 16]
Reading == [active |-> "", pending |-> 0, chunk |-> <<>>, data |-> <<>>, exports |-> <<>>, refused |-> FALSE]
\* Mutant: a dump's offset is not compared with the bytes read so far.
DumpAnywhere(r, line) == line.kind = "dump"
DumpFollows(r, line) == line.kind = "dump" /\ line.offset = Len(r.chunk)
ReadDump(r, line) ==
  LET chunk == r.chunk \o line.bytes IN
  IF ~DumpFollows(r, line) \/ Len(chunk) > r.pending THEN [r EXCEPT !.refused = TRUE]
  ELSE IF Len(chunk) = r.pending THEN [r EXCEPT !.data = @ \o chunk, !.pending = 0, !.chunk = <<>>]
  ELSE [r EXCEPT !.chunk = chunk]
ReadLine(r, line, section) ==
  LET active == r.active = section IN
  CASE r.refused -> r
    [] ~r.refused /\ r.pending > 0 -> IF line.kind = "blank" THEN r ELSE ReadDump(r, line)
    [] ~r.refused /\ r.pending = 0 ->
         CASE line.kind = "switch" -> [r EXCEPT !.active = line.section]
           [] line.kind = "code" /\ active -> [r EXCEPT !.pending = line.count]
           [] line.kind = "export" /\ line.section = section -> [r EXCEPT !.exports = Append(@, <<line.name, line.offset>>)]
           [] \/ line.kind \in {"patch", "dump", "record"} /\ active
              \/ line.kind = "symbol" /\ line.section = section -> [r EXCEPT !.refused = TRUE]
           [] OTHER -> r
\* declarations: the sections the listing declares, [name, number, tag].
ParseSdkSection(declarations, lines, name) ==
  LET selected == {d \in declarations : d.name = name}
      d == CHOOSE d \in selected : TRUE
      r == FoldLeft(LAMBDA s, line : ReadLine(s, line, d.number), Reading, lines)
  IN IF \/ Cardinality(selected) # 1 \/ d.tag \notin DOMAIN Tags
        \/ r.refused \/ r.pending > 0 \/ r.data = <<>>
     THEN [refused |-> TRUE, data |-> <<>>, alignment |-> 0, exports |-> <<>>]
     ELSE [refused |-> FALSE, data |-> r.data, alignment |-> Tags[d.tag], exports |-> r.exports]

(***************************************************************************)
(* Objects of a contribution x: its base from the library, its target from *)
(* the image.  Words of a listing are the bytes of its dumps.              *)
(***************************************************************************)
\* source_section: the whole section, its alignment and its one exported name, or none.
SourceSection(x, section) ==
  /\ ~section.refused /\ section.alignment = x.alignment /\ Len(section.data) = x.size
  /\ section.exports = IF x.scope = "global" THEN <<<<x.name, 0>>>> ELSE <<>>
ContributionObject(x, words, alignment) ==
  WriteObject([name \in Range(SectionNames) |->
    IF name # ".data" THEN NoSection
    ELSE [NoSection EXCEPT !.words = words, !.size = x.size, !.align = alignment,
                           !.symbols = <<[name |-> Plain(x.name), value |-> 0, size |-> x.size, local |-> x.scope # "global"]>>]])
\* An object that is refused leaves the one that was there.
BuildBase(x, section, old) ==
  IF SourceSection(x, section)
  THEN ContributionObject(x, [o \in 0 .. x.size - 1 |-> section.data[o + 1]], section.alignment) ELSE old
Touched(x, rows) ==
  \E r \in Range(rows) : /\ r.image = x.image /\ r.status # "rejected"
                         /\ \E a \in {r.site, r.paired} : a >= 0 /\ Covers(x.va, x.size, a)
DelinkContribution(x, retail, rows, old) ==
  IF Touched(x, rows) THEN old ELSE ContributionObject(x, Words(retail, x.va, x.size), x.alignment)
ValidateObject(object, x) ==
  LET runtime == {k \in DOMAIN object.sections : object.sections[k].size > 0}
      k == CHOOSE k \in runtime : TRUE
      s == object.sections[k]
      owned == {i \in DOMAIN object.symbols : object.symbols[i].section = k /\ object.symbols[i].name # Plain("")}
      e == object.symbols[CHOOSE i \in owned : TRUE]
  IN /\ Cardinality(runtime) = 1
     /\ s.name = ".data" /\ s.size = x.size /\ ~s.nobits /\ s.align = x.alignment
     /\ Cardinality(owned) = 1
     /\ e.name = Plain(x.name) /\ e.value = 0 /\ e.size = x.size /\ e.local = (x.scope # "global")
     /\ \A m \in DOMAIN object.sections : object.sections[m].rel = <<>>

(***************************************************************************)
(* compare and report_failures: whatever objects and report lie on disk.   *)
(***************************************************************************)
AsUnit(x) ==
  [functions |-> <<>>, rodata |-> <<>>,
   data |-> <<[symbol |-> Plain(x.name), va |-> x.va, size |-> x.size, storage |-> "load", section |-> "",
               local |-> x.scope # "global", reservation |-> 0]>>]
NoCatalog == [functions |-> {}, data |-> {}]
\* Mutant: the objects are compared with each other and never relinked.
NoRelink(object, x, retail) == TRUE
Relinked(object, x, retail) ==
  Verifiable(object, AsUnit(x), NoCatalog) /\ CompareLinked(object, AsUnit(x), NoCatalog, retail)
DataWords(object) == object.sections[CHOOSE k \in Named(object, ".data") : TRUE].words
Compare(x, section, target, base, retail) ==
  /\ SourceSection(x, section)
  /\ ValidateObject(target, x) /\ ValidateObject(base, x)
  /\ DataWords(base) = [o \in 0 .. x.size - 1 |-> section.data[o + 1]]
  /\ DiffInit(".data", target, base) = "match"
  /\ Relinked(target, x, retail) /\ Relinked(base, x, retail)
\* report: the units of objdiff's report, [name, code, total, matched, data, fuzzy]; data: sizes of its data sections.
ReportFails(report, x) ==
  LET mine == SelectSeq(report, LAMBDA u : u.name = x.unit) IN
  \/ Len(mine) # 1
  \/ mine[1].total # x.size \/ mine[1].matched # x.size \/ mine[1].code # 0
  \/ mine[1].data # <<x.size>> \/ mine[1].fuzzy # 100
\* audit: the report is no older than the objects.
Matched(x, section, target, base, retail, report, fresh) ==
  Compare(x, section, target, base, retail) /\ ~ReportFails(report, x) /\ fresh
==============================================================================
