------------------------------ MODULE MCTools ------------------------------
(***************************************************************************)
(* The algorithms of the reconstruction's tools, each over every input of  *)
(* its own instance.  A state is a tool, its input and whether it is done; *)
(* the traced batch, the parser's machine and an export make their own.    *)
(***************************************************************************)
EXTENDS Delink, Disc
CONSTANTS LinkRadix, LinkWindow,                                           \* parser_machine.py's link
          Unpatched, Grain, StubSize,
          WordCells, CellValues, ReturnAddress, StackBase, MemoryEnd,     \* its machine
          ChunkWords, WidestAlign,                                         \* elf_to_lnk.py
          JumpWindow,                                                      \* control flow
          FrameReach, ReturnReach, LeafReach, ScoreWindow, ScoreFloor, ScoreSlack,
          RamEnd, SeedSize, PairReach, EnumEnd,                            \* the inventory
          AnchorFloor, SignatureFloor, FixedFloor, FidFloor, HighFloor, WholeFloor,
          SeedBytes, MaxGap, Header,                                       \* islands
          Geometric, Locals, HubDegree, LocalHubDegree,                    \* literals
          Broken, Doubled, Exactly, KeepTop,                               \* trials
          MaxEdits                                                             \* exports
VARIABLES part, input, done

Obj == INSTANCE MCObjects
Man == INSTANCE MCManifest
Code == INSTANCE MCFunctions
Out == INSTANCE MCOutputs
Inv == INSTANCE MCInventory
Mach == INSTANCE MCParser WITH Radix <- LinkRadix, Window <- LinkWindow,
          CodeArena <- <<32, 44>>, RodataArena <- <<44, 46>>, HookArena <- <<46, 54>>
Bool == INSTANCE MCBooleans
Src == INSTANCE MCSources

Starts(name) == part = name /\ done = FALSE
Init ==
  \/ Starts("object") /\ Obj!ObjectInput(input)
  \/ Starts("native") /\ Obj!NativeInput(input)
  \/ Starts("bridge") /\ Obj!ElfInput(input)
  \/ Starts("spans") /\ Obj!SpanInput(input)
  \/ Starts("manifest") /\ Man!ManifestInput(input)
  \/ Starts("listing") /\ Man!ListingInput(input)
  \/ Starts("contribution") /\ Man!ContributionInput(input)
  \/ Starts("disc") /\ Out!DiscInput(input)
  \/ Starts("flow") /\ Code!FlowInput(input)
  \/ Starts("audit") /\ Code!AuditInput(input)
  \/ Starts("search") /\ Code!SearchInput(input)
  \/ Starts("signature") /\ Code!SignatureInput(input)
  \/ Starts("evidence") /\ Inv!EvidenceInput(input)
  \/ Starts("layout") /\ Inv!LayoutInput(input)
  \/ Starts("census") /\ Inv!CensusInput(input)
  \/ Starts("rows") /\ Inv!RowInput(input)
  \/ Starts("code") /\ Inv!CodeInput(input)
  \/ Starts("link") /\ Mach!LinkInput(input)
  \/ Starts("machine") /\ Mach!MachineInput(input)
  \/ Starts("batch") /\ Src!BatchInput(input)
  \/ Starts("literals") /\ Src!CensusInput(input)
  \/ Starts("booleans") /\ Bool!ProgramInput(input)
  \/ Starts("islands") /\ Src!IslandInput(input)
  \/ Starts("text") /\ Out!TextInput(input)
  \/ Starts("view") /\ Out!ViewInput(input)
  \/ Starts("calls") /\ Out!CallInput(input)
  \/ Starts("tree") /\ Out!TreeInput(input)
  \/ Starts("export") /\ Out!ExportInput(input)
  \/ Starts("closure") /\ Inv!ClosureInput(input)
Finish == done = FALSE /\ part \notin {"machine", "batch", "export"} /\ done' = TRUE /\ UNCHANGED <<part, input>>
Execute == part = "machine" /\ input' \in Mach!MachineSteps(input) /\ UNCHANGED <<part, done>>
Proceed == part = "batch" /\ input' \in {<<input[1], b>> : b \in Src!BatchSteps(input[2])} /\ UNCHANGED <<part, done>>
Publish == part = "export" /\ input' \in Out!PublicationSteps(input) /\ UNCHANGED <<part, done>>
Next == Finish \/ Execute \/ Proceed \/ Publish
Done(name) == done /\ part = name

(***************************************************************************)
(* What the tools promise.                                                 *)
(***************************************************************************)
\* An object that is placed, linked and compared holds the image's words: the delinker's split
\* of an address pair, its carry, its packing and its relocations are undone by the linker
\* (delink.py, mips_elf.py, roundtrip.py), for each owner by itself as for the whole object,
\* and a reconstruction whose data data_match.py calls matched links to the same words, referents
\* and reservations as the target.
ObjectsRelink == Done("object") => Obj!ObjectsHold(input)

\* The ELF view of a native object and the native stream of an ELF object each link to what the
\* native linker makes of the patches' expressions, wherever sections and symbols are put; an
\* expression that no relocation can say is refused (lnk.py, elf_to_lnk.py).
NativeObjectsLinkAlike ==
  /\ Done("native") => Obj!ViewLinksAlike(input)
  /\ Done("bridge") => Obj!BridgeLinksAlike(input)

\* Claims of a manifest that is accepted have one owner each or are reported by the sweep that
\* looks for overlaps, which misses none; a listing's code records are the section's words without
\* a gap; a contribution called matched holds the image's words, and its names are exported only
\* from where both objects define them (manifest.py, roundtrip.py, config_data.py).
DataIsOwned ==
  /\ Done("spans") => Obj!SpansAgree(input)
  /\ Done("manifest") => Man!OwnersAreApart(input)
  /\ Done("listing") => Man!SectionIsWhole(input)
  /\ Done("contribution") => Man!MatchedIsProvided(input)

\* A disc built from rebuilt programs gives every program back through its directory, whether it
\* fits its extent or not, leaves every other file alone and has right error codes in every
\* sector; the cache never holds a part of one, whenever a run was killed (disc.py, emulator.py).
\* The exported source is what its own preprocessor would see, with no token joined, lost or left
\* of the scaffold; a branch of exports always has the whole export of the commit it names, and no
\* commit, edit, ignored file or directory made by hand is lost to it, whenever a run is killed
\* and whatever is committed beside it (clean.py, clean_lexer.py).
OutputsAreWhole ==
  /\ Done("disc") => Out!DiscsCarryPrograms(input)
  /\ Done("text") => Out!TextIsKept(input)
  /\ Done("view") => Out!ViewIsKept(input)
  /\ Done("calls") => Out!CallsMeanTheirBodies(input)
  /\ Done("tree") => Out!TreeIsExported(input)
  /\ part = "export" => Out!ExportIsWhole(input)

\* The blocks that are called reachable are those an execution can reach, delay slots included,
\* and every executed word lies in one; two functions without a difference in edges and controls
\* are left by the same blocks for the same blocks; a proposed leaf runs to its first return and
\* crosses no known function (sema/cfg.py, sema/mips.py, trial_flow.py, audit_functions.py).
CodeIsExecution ==
  /\ Done("flow") => Code!FlowIsExecution(input) /\ Code!AgreementIsOfPaths(input)
  /\ Done("audit") => Code!LeavesAreDelimited(input)

\* The masked search finds every occurrence of a library pattern; an image linked of two objects
\* has every function named as its own object names it, when a signature of it is in the corpus,
\* and later evidence never renames it (seed_vendored_functions.py, fid_census.py).
NamesAreEarned ==
  /\ Done("search") => Code!SearchIsExact(input)
  /\ Done("signature") => Code!NamesAreTrue(input)

\* The tier of a reference says what the delinker does with its row, also where rows overlap: they
\* differ only over a reviewed row beside live candidates, shown as validated and withheld, and a
\* candidate beside rows outside the load only, shown as one and applied.  No decoded edge is lost in
\* the merge, a dossier lists the same evidence, and the rank and the chain of a visited extent
\* are the best there are (sema/evidence.py, inventory.py, data_reachability.py).
EvidenceAgrees ==
  /\ Done("evidence") => Inv!TiersAgree(input) /\ Inv!DossiersAgree(input)
  /\ Done("closure") => Inv!ClosureIsBest(input)

\* Layouts are the compiler's, a proposed extent or signature passes the checks of the tables it
\* is proposed for, identities keep apart unless one starts inside the load, and a proposed pair
\* is one that an execution combines (inventory.py).
InventoryIsAdmissible ==
  /\ Done("layout") => Inv!LayoutIsC(input)
  /\ Done("census") => Inv!ProposalsAreAdmitted(input)
  /\ Done("rows") => Inv!IdentitiesAreApart(input)
  /\ Done("code") => Inv!HintsAreExecuted(input)

\* A linked reference means the address the console gives it, and the emulated run is the
\* console's, load and branch delays included, until it returns, is refused or exhausts its
\* limit (parser_machine.py).
MachineIsConsole ==
  /\ Done("link") => Mach!LinkedMeansTarget(input)
  /\ part = "machine" => Mach!MachineIsConsole(input)

\* A slot that is a candidate for a boolean never holds another value than 0 and 1 and is never
\* used as a number; the domains of literals are exactly the components of the flow that counts,
\* without quantities, geometry and hubs, in whatever order the units are read (booleans.py,
\* literals.py).
DomainsAreSound ==
  /\ Done("booleans") => Bool!DomainsAreSound(input)
  /\ Done("literals") => Src!DomainsAreFlows(input)

\* Two payloads' islands and unanchored rests partition both, no byte is matched twice, and only
\* equal payloads are one exact island of all (executable_diff.py); a batch's report is of one source, one target and one compiler, ranks
\* every variant by its own object and keeps the best of each traced state (hypotheses.py).
ComparisonsAreOfOnePair ==
  /\ Done("islands") => Src!IslandsAreEqualBytes(input)
  /\ part = "batch" => Src!BatchIsOfOneTarget(input)
=============================================================================
