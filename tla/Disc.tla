-------------------------------- MODULE Disc --------------------------------
(***************************************************************************)
(* Discs that carry rebuilt programs: psxbuild/disc.py patches the three   *)
(* programs into a copy of the retail disc, at its end when they outgrow   *)
(* their extents, and keeps the copy in a cache; kf/emulator.py writes     *)
(* them over the retail extents only.                                      *)
(*                                                                         *)
(* A disc maps its sector numbers to [cells, check, form, address]: the    *)
(* payload, what its error codes were computed of, its CD form and number. *)
(* The directory's cells are records [name, lba, size, directory] or Gap,  *)
(* the volume descriptor's one is [root, sectors, total]; a size counts    *)
(* cells.                                                                  *)
(***************************************************************************)
EXTENDS Integers, Sequences, FiniteSets
CONSTANTS PayloadSize, Descriptor, Programs, Magic, AddressEnd
ASSUME DiscAssumption == PayloadSize \in Nat \ {0} /\ AddressEnd \in Nat

SectorCount(raw) == Cardinality(DOMAIN raw)
SectorsOf(size) == (size + PayloadSize - 1) \div PayloadSize
Fits(raw, lba, size) == lba >= 0 /\ size >= 0 /\ lba + SectorsOf(size) <= SectorCount(raw)
Gap == [name |-> "", lba |-> 0, size |-> 0, directory |-> FALSE]
Volume(raw) == raw[Descriptor].cells[1]
Directory(raw) == Volume(raw).root .. Volume(raw).root + Volume(raw).sectors - 1
RecordsIn(raw, n) ==
  LET cells == raw[n].cells
      used == {i \in DOMAIN cells : \A j \in 1 .. i : cells[j] # Gap}
  IN {[record |-> cells[i], at |-> <<n, i>>] : i \in used}
RootFiles(raw) == {r \in UNION {RecordsIn(raw, n) : n \in Directory(raw)} : ~r.record.directory}
\* iso_files: what it returns, and whether it returns.
Listable(raw) ==
  /\ Fits(raw, Volume(raw).root, Volume(raw).sectors * PayloadSize)
  /\ \A r, s \in RootFiles(raw) : r.record.name = s.record.name => r = s
IsoFiles(raw) ==
  [name \in {r.record.name : r \in RootFiles(raw)} |->
    LET r == CHOOSE r \in RootFiles(raw) : r.record.name = name
    IN [lba |-> r.record.lba, size |-> r.record.size, at |-> r.at]]

IsProgram(program) == Len(program) >= PayloadSize /\ program[1] = Magic
HoldsExtent(raw, file) == file.size % PayloadSize = 0 /\ Fits(raw, file.lba, file.size)
Acceptable(raw, retail, programs) ==
  /\ raw = retail /\ Listable(raw)
  /\ \A name \in Programs : IsProgram(programs[name]) /\ name \in DOMAIN IsoFiles(raw) /\ HoldsExtent(raw, IsoFiles(raw)[name])
Padded(program, capacity) == program \o [n \in 1 .. capacity - Len(program) |-> 0]
Chunk(cells, n) == SubSeq(cells, n * PayloadSize + 1, (n + 1) * PayloadSize)
Blank(n) == [cells |-> [i \in 1 .. PayloadSize |-> 0], check |-> <<>>, form |-> 1, address |-> n]
WritePayload(raw, lba, cells) ==
  [n \in DOMAIN raw |->
    IF lba <= n /\ n < lba + SectorsOf(Len(cells)) THEN [raw[n] EXCEPT !.cells = Chunk(cells, n - lba)] ELSE raw[n]]
Regenerate(sector) == [sector EXCEPT !.check = sector.cells]

\* One program: in its extent, or in new sectors that its directory record then names.
Enlarged(raw, count) ==
  [n \in 0 .. SectorCount(raw) + count - 1 |-> IF n \in DOMAIN raw THEN raw[n] ELSE Blank(n)]
Named(raw, at, lba, size) == [raw EXCEPT ![at[1]].cells[at[2]] = [@ EXCEPT !.lba = lba, !.size = size]]
Written(disc, raw, lba, count, program) ==
  [disc EXCEPT !.raw = WritePayload(raw, lba, Padded(program, count * PayloadSize)), !.changed = @ \cup (lba .. lba + count - 1)]
InNewSectors(disc, file, program, lba, count) ==
  [Written(disc, Named(Enlarged(disc.raw, count), file.at, lba, Len(program)), lba, count, program)
     EXCEPT !.failed = @ \/ lba + count > AddressEnd, !.changed = @ \cup {file.at[1]}]
PlaceFile(disc, file, program) ==
  IF Len(program) > file.size THEN InNewSectors(disc, file, program, SectorCount(disc.raw), SectorsOf(Len(program)))
  ELSE Written(disc, disc.raw, file.lba, file.size \div PayloadSize, program)
PlaceProgram(disc, name, program) == PlaceFile(disc, IsoFiles(disc.original)[name], program)
Counted(raw) == [raw EXCEPT ![Descriptor].cells[1].total = SectorCount(raw)]
Volumed(disc) ==
  IF SectorCount(disc.raw) = SectorCount(disc.original) THEN disc
  ELSE [disc EXCEPT !.raw = Counted(@), !.changed = @ \cup {Descriptor}]
WithCodes(raw, changed) == [n \in DOMAIN raw |-> IF n \in changed THEN Regenerate(raw[n]) ELSE raw[n]]
\* Mutant: only the sectors that hold programs get new error codes.
ReframedPrograms(disc) ==
  [disc EXCEPT !.raw = WithCodes(@, disc.changed \ {Descriptor}),
               !.failed = @ \/ \E n \in disc.changed : disc.raw[n].form # 1]
Reframed(disc) ==
  [disc EXCEPT !.raw = WithCodes(@, disc.changed),
               !.failed = @ \/ \E n \in disc.changed : disc.raw[n].form # 1]
Unplaced(raw) == [original |-> raw, raw |-> raw, changed |-> {}, failed |-> FALSE]
PlacedUpTo(raw, order, programs) ==
  LET Done[n \in 0 .. Len(order)] ==
        IF n = 0 THEN Unplaced(raw) ELSE PlaceProgram(Done[n - 1], order[n], programs[order[n]])
  IN Done
Rebuilt(raw, order, programs) == Reframed(Volumed(PlacedUpTo(raw, order, programs)[Len(order)]))
(***************************************************************************)
(* The cache maps keys to the discs in it.  A run may be killed anywhere:  *)
(* prepare leads to one of these caches, done only in the last.            *)
(***************************************************************************)
Key(raw, programs) == <<raw, programs>>
Joining(discs, key, raw) == [k \in DOMAIN discs \cup {key} |-> IF k = key THEN raw ELSE discs[k]]
Outcome(discs, done) == [discs |-> discs, done |-> done]
\* Mutant: the disc is written in its place, so a killed run leaves a part of it.
WriteInPlace(discs, key, raw) ==
  {Outcome(discs, FALSE), Outcome(Joining(discs, key, [n \in DOMAIN raw \ {SectorCount(raw) - 1} |-> raw[n]]), FALSE),
   Outcome(Joining(discs, key, raw), TRUE)}
WriteAndReplace(discs, key, raw) ==
  {Outcome(discs, FALSE), Outcome(Joining(discs, key, raw), FALSE), Outcome(Joining(discs, key, raw), TRUE)}
Cached(discs, key, disc) ==
  CASE key \in DOMAIN discs -> {Outcome(discs, TRUE)}
    [] key \notin DOMAIN discs /\ disc.failed -> {Outcome(discs, FALSE)}
    [] OTHER -> WriteAndReplace(discs, key, disc.raw)
Prepare(discs, raw, retail, order, programs) ==
  IF Acceptable(raw, retail, programs) THEN Cached(discs, Key(raw, programs), Rebuilt(raw, order, programs))
  ELSE {Outcome(discs, FALSE)}

(***************************************************************************)
(* emulator.build_candidate: programs no longer than the retail ones, at   *)
(* fixed sectors (extents: name -> [lba, cells]) whose payload must be     *)
(* the retail program's.                                                   *)
(***************************************************************************)
HoldsRetail(raw, extent, program) ==
  /\ program # <<>> /\ program[1] = Magic /\ Len(program) <= Len(extent.cells)
  /\ \A n \in 0 .. SectorsOf(Len(extent.cells)) - 1 :
       extent.lba + n \in DOMAIN raw /\ raw[extent.lba + n].form = 1 /\ raw[extent.lba + n].cells = Chunk(extent.cells, n)
ReplaceProgram(raw, extent, program) ==
  WithCodes(WritePayload(raw, extent.lba, Padded(program, Len(extent.cells))),
            extent.lba .. extent.lba + SectorsOf(Len(extent.cells)) - 1)
Unbuilt(raw, selected) == [raw |-> raw, failed |-> selected = {} \/ ~(selected \subseteq Programs)]
BuildProgram(built, name, extent, program) ==
  IF built.failed \/ ~HoldsRetail(built.raw, extent, program) THEN [built EXCEPT !.failed = TRUE]
  ELSE [built EXCEPT !.raw = ReplaceProgram(built.raw, extent, program)]
BuiltUpTo(raw, extents, selected, order, programs) ==
  LET Done[n \in 0 .. Len(order)] ==
        IF n = 0 THEN Unbuilt(raw, selected)
        ELSE IF order[n] \notin selected THEN Done[n - 1]
        ELSE BuildProgram(Done[n - 1], order[n], extents[order[n]], programs[order[n]])
  IN Done
BuildCandidate(raw, extents, selected, order, programs) == BuiltUpTo(raw, extents, selected, order, programs)[Len(order)]

(***************************************************************************)
(* What a disc promises: as it is mastered, its error codes and addresses  *)
(* are right and its files lie apart, off the directory and descriptor;    *)
(* one that carries programs is such a disc still, reads each program with *)
(* zeros behind it, and has everything else as the retail disc has it.     *)
(***************************************************************************)
Entries == [name : STRING, lba : Nat, size : Nat, directory : BOOLEAN]
Extent(file) == file.lba .. file.lba + SectorsOf(file.size) - 1
Mastered(raw) ==
  /\ IsFiniteSet(DOMAIN raw) /\ DOMAIN raw = 0 .. SectorCount(raw) - 1
  /\ \A n \in DOMAIN raw :
       raw[n] = [cells |-> raw[n].cells, check |-> raw[n].cells, form |-> raw[n].form, address |-> n]
  /\ Descriptor \in DOMAIN raw \ Directory(raw)
  /\ raw[Descriptor].cells \in [{1} -> [root : Nat, sectors : Nat, total : Nat]]
  /\ Listable(raw)
  /\ \A n \in Directory(raw) : raw[n].cells \in Seq(Entries)
  /\ \A name \in DOMAIN IsoFiles(raw) :
       LET file == IsoFiles(raw)[name]
       IN /\ Fits(raw, file.lba, file.size)
          /\ Extent(file) \cap (Directory(raw) \cup {Descriptor}) = {}
          /\ \A other \in DOMAIN IsoFiles(raw) \ {name} : Extent(file) \cap Extent(IsoFiles(raw)[other]) = {}
\* What the console reads of a file: the cells of its extent.
ReadFile(raw, file) ==
  [k \in 1 .. file.size |-> raw[file.lba + ((k - 1) \div PayloadSize)].cells[((k - 1) % PayloadSize) + 1]]
Rewritten(retail) == Directory(retail) \cup {Descriptor} \cup UNION {Extent(IsoFiles(retail)[name]) : name \in Programs}
OthersStand(raw, retail) ==
  /\ \A n \in DOMAIN retail \ Rewritten(retail) : raw[n] = retail[n]
  /\ \A n \in Directory(retail) : DOMAIN raw[n].cells = DOMAIN retail[n].cells
  /\ \A n \in Directory(retail) : \A i \in DOMAIN retail[n].cells :
       raw[n].cells[i] = retail[n].cells[i] \/ \E name \in Programs : IsoFiles(retail)[name].at = <<n, i>>
Carries(raw, retail, programs) ==
  /\ DOMAIN retail \subseteq DOMAIN raw /\ Mastered(raw) /\ OthersStand(raw, retail)
  /\ IF SectorCount(raw) = SectorCount(retail) THEN Volume(raw) = Volume(retail)
     ELSE SectorCount(raw) <= AddressEnd /\ Volume(raw) = [Volume(retail) EXCEPT !.total = SectorCount(raw)]
  /\ DOMAIN IsoFiles(raw) = DOMAIN IsoFiles(retail)
  /\ \A name \in DOMAIN IsoFiles(retail) \ Programs : IsoFiles(raw)[name] = IsoFiles(retail)[name]
  /\ \A name \in Programs :
       LET file == IsoFiles(raw)[name]
       IN file.size >= Len(programs[name]) /\ ReadFile(raw, file) = Padded(programs[name], file.size)
\* The fixed extents are those of the directory, and hold what is in them.
Located(extents, retail) ==
  \A name \in Programs :
    LET file == IsoFiles(retail)[name]
        cells == extents[name].cells
    IN /\ name \in DOMAIN IsoFiles(retail) /\ file.size % PayloadSize = 0
       /\ extents[name].lba = file.lba /\ Len(cells) = file.size /\ file.size > 0
       /\ \A n \in 0 .. SectorsOf(file.size) - 1 : retail[file.lba + n].cells = Chunk(cells, n)
\* The retail programs with the selected ones in place of theirs.
Mixed(extents, selected, programs) ==
  [name \in Programs |-> IF name \in selected THEN programs[name] ELSE extents[name].cells]
\* No disc of the cache is a part of one or carries other programs than its key names.
AllCarry(discs) == \A key \in DOMAIN discs : Carries(discs[key], key[1], key[2])
=============================================================================
