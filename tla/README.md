# Verification of the King's Field decompilation

TLA+ modules, TLC configurations and TLAPS proofs about this repository: the
game program that it reconstructs in C (`src/src`, the executable of King's
Field for the PlayStation) and the Python tools that make and judge the
reconstruction (`src/scripts`). Every definition is a translation of the code;
the table `map` of `PROJECT.json` names its lines.

The two halves are hard in different ways. The game is one thread without
tests: its hazards are state that outlives the step that made it (a floor's
record, a memory card, a cached array, a stamp, a count), reached by long
sequences of legal steps, by power failures and by exchanged cards. It is
modelled as state machines. The tools are algorithms whose result is believed
without looking: an object called equal, a score that is banked, a name, a
domain, a disc. They are modelled as operators and compared, over all inputs of
small instances, with what a linker, a processor, a C compiler or a plain
definition says; the build, the batches and the emulated processor, which have
steps and interference, are state machines again.

## 1. The system

| Part | Where | Its state | What it does |
| --- | --- | --- | --- |
| Loader, `PSX.EXE` | `src/src/psx/main.c` | none | runs `OPEN.EXE`, then `GAME.EXE`, for ever |
| `OPEN.EXE` | `src/src/open` | scene cursor, streams | opening and ending |
| Frame loop | `game/game.c` | session memory, cleared for each session | one frame after the other until the player leaves |
| Player | `game/player_*.c` | vitals, motion, equipment, stocks of items and magic | motion, attack, use of items, death, warps |
| Actors | `game/actor*.c` | 128 slots of `actor_state`, the count of occupants in the collision grid | one visit per slot and frame: wakes, selects an action, dies |
| Map objects | `game/map_object*.c` | 190 slots, 160 authored and three groups of ten drops; edges of the grid | doors, chests, switches and what they release |
| Drops | `game/map_object.c` | the last thirty slots and three 16-bit sequences | spawned by deaths and by the player's sword, taken, displaced |
| Effects | `game/effect_*.c` | 48 records | projectiles, summons, hazards, machinery |
| Map events and scripts | `game/map_event*.c`, `map_scripts.c` | dialogue stages, script flags of each floor | people, shops, gates, the boss, the seal stones |
| Floors | `game/map_load.c`, `map_events.c` | `world_state`: a record for each floor | serialize the floor that is left, load the next, restore its record |
| Animation cache | `game/animation_cache.c` | twelve records with vertex arrays on the system heap | keeps the morphed vertices of what is drawn |
| Save file | `game/save_system.c`, `menu_runtime.c` | the card; header image, summaries and panel in memory | save, load, format, card changes |
| Menus | `game/menu*.c` | cursors; everything else is other parts' state | equipment, stock, shops, map viewer |
| Rendering, collision, audio, disc, arena | `game/`, `lib/` | grids, packets, voices, search record, arena cursor | called by all of the above |

The tools, in `src/scripts` (`kf`, `kf/sema`, `psxbuild`):

| Part | Where | Its state | What it does |
| --- | --- | --- | --- |
| Build graph, score ledger | `kf/graph.py`, `progress.py`, `readme.py`, `edges.py` | build directory, ninja's log, report, bank, README | regenerates its own graph, delinks, compiles, reports, checks, banks, links and compares executables |
| Delinker and round trip | `kf/delink.py`, `relocations.py`, `mips_elf.py`, `roundtrip.py`, `data_match.py` | none (objects are files) | carves a relocatable object out of the linked image, links it again, compares |
| Manifest | `kf/retail.py`, `model.py`, `manifest.py`, `config_data.py` | tables and claims | who owns which word of an image |
| Native objects | `kf/lnk.py`, `psxbuild/elf_to_lnk.py` | none | reads and writes the vendor's object format |
| Discs | `psxbuild/disc.py`, `kf/emulator.py` | a cache of patched discs | puts rebuilt programs into a disc image |
| Navigation | `kf/sema`, `audit_functions.py`, `trial_flow.py`, `data_reachability.py` | none | control flow, references, function starts |
| Signatures | `kf/seed_vendored_functions.py`, `fid_census.py` | none | which functions came from the vendor's library |
| Inventory | `kf/inventory.py` | hand-owned tables | identities, layouts, proposals |
| Parser oracle | `kf/parser_machine.py` | an emulated machine | runs reconstructed functions as the console would |
| Census of values | `kf/booleans.py`, `literals.py` | facts of all units | which integers are booleans, which numbers belong together |
| Source export | `kf/clean.py`, `clean_lexer.py`, `clean_cpp.py` | an output directory; a branch with its worktree | exports the source without scaffolding, publishes it as one commit |
| Comparison, trials | `kf/executable_diff.py`, `hypotheses.py` | none; a batch of workers | islands of equal bytes; variants of a source, compiled and ranked |

How they interact. The game is one thread. A frame calls, in this order,
`player_update`, `actor_pool_update`, `map_object_pool_update`,
`effect_pool_update`, `map_event_pool_update`, `render_frame`, then waits for
the vertical blank and tests for a warp. The parts share memory, not messages:
an actor that dies takes a slot of the drops; a hazard owns a record of the
effect pool; a switch reaches every object with its link; a door writes an edge
of the grid that the player reads in the next frame; the summon of an actor is
an effect that later takes a slot of the actor pool; rendering binds cache
records to actors, effects, events, the weapon and HUD models. A menu is a
loop of its own inside a frame: it may format the heap, exchange the weapon,
save, or load another game. A change of floor serializes the floor into its
record, replaces assets, objects and actors and restores the record of the
next. Every session starts as a new game on floor 1: a saved game is loaded
from the menu in the middle of one, with what the session already counted
still in memory.

The tools meet in files. `relocs.tsv` and the censuses feed the delinker, the
navigation and the inventory; the manifest decides which words become one
object; ninja runs the delinker, the compilers and the report; a check and the
bank read the report and the objects on disk; checks of several images, the
bank and a comparison of the executables run together and each rewrites blocks of
the README under one lock. `kf build` links the executables beside them, removes
the last comparison and leaves the README alone (`docs/build-system.md:7`). A
person or CI edits, stages, interrupts and changes
the compiler at any moment.

What is hard, part by part, and what would make it right:

| Part | Hard because | Right when | Covered by |
| --- | --- | --- | --- |
| Save file | a transfer is several device calls, each may fail or be the last before a power failure; cards are exchanged while a panel is open | a slot holds its last complete save at every moment; an acknowledged save is there; what is loaded is on the inserted card; retries end | SaveFile, SaveStore |
| Animation cache | two pointers per record, owners that vanish, the heap formatted under them, a morph skipped when a stored key is equal | pointers agree, arrays are neither lost nor doubled, no array of an unloaded asset is drawn, the pose shown is the one asked for | AnimationCache |
| Drops | eleventh drop, wrapping ages, gold split in bytes, stamps of another session | no drop is lost but by displacement, the oldest gives way, worth is kept | DropPools |
| Map objects | a link fired in the middle of a sweep, timers, slots reused by the next floor, what a record leaves out | grid and doors agree, nobody is shut in, what is opened stays open, no item is doubled or lost | MapObjects |
| Actors | deaths started over, pools shared with summons, scripts that rewrite other actors, early returns around a count | one drop per life, the dead do not act, the slain stay slain, one summon at a time, each occupant counted once | Actors |
| Map events | dialogue pages, exchanges of items, a record with a one-page inverse | an exchange happens once, pages are restored | planned |
| Arena, disc | a stack of sixteen sizes without bounds; a search that reports its own failure with the record it failed on | sizes return in order, the error screen is reached | planned |
| Build and ledger | edits, builds, kills and banks in any order, a graph that rewrites itself | what is clean is current, a bank holds the score of its object, a check that passed and a comparison that ended left the README with the report and the executable that are on disk | Workbench |
| Delinker | split addresses with carries, addends, packing, withheld rows | linking its object again gives the image's words | Delink, Objects |
| Native objects | expressions against relocations, halves paired by order | both formats link to the same words, or one is refused | NativeObject |
| Manifest | many tables that must agree, claims of several units | a word has one owner or is reported | Manifest, Contributions |
| Discs | programs that outgrow their place, a run killed in the middle | every program comes back through the directory | Disc |
| Navigation | delay slots, jumps out of a function, rows that compete | a block is reachable when an execution reaches it; a tier says what the delinker does | ControlFlow, Evidence, FunctionAudit |
| Signatures | masked words, channels of unequal trust | a name is the name in the function's own object | Signatures |
| Inventory | proposals that must pass later checks | a proposal is admitted by the tables it is made for | Inventory |
| Parser oracle | load delays, delay slots, hooks, a console that is emulated without them | the run is the console's run or is refused | ParserLink, ParserMachine |
| Value census | flow through pointers, calls and units in any order | a boolean is never anything else | Booleans, Literals |
| Source export | a lexer, conditionals and macros of its own; people commit and kill runs while a worktree is rewritten | code, notices and the view's branches are kept; no work of a person is overwritten; a branch that says it is an export is one | SourceView, Export |
| Trials | sources and compilers edited beside minutes of compilation | a report is of one source, target and compiler | Trials, Islands |
| Effects, player, collision, audio | geometry, fixed-point motion, library calls | pools balanced, vitals in range | in parts, see section 7 |

`PROJECT.json` lists all components with the reason where one is left out, and
the hazards with the line at which each bites and the properties that watch it.

## 2. The modules

Each component module holds the whole state machine, its properties and the
inductive invariant its proof needs; `MC...` modules only give constants
values (SaveFile, AnimationCache and DropPools are run as they are); `...Proofs`
modules hold theorems. Numbers the code fixes are
constants of the modules (named in their comments), so that runs are small and
proofs cover the game's own values. A small helper whose lines lie inside those
of a definition that uses it has no row of its own in `map`.

### SaveFile and SaveStore

`cards` is what survives a power failure: whether the file exists, its header
(a directory of four tags with their summaries) and one payload per entry.
`header` is `save_header_buffer`, `summaries`, `panel`, `slot`, `tries` and
`pc` are the panel and the place in the transfer. There is one action per
device call, in the code's order: `ReadCatalog`; `FormatCard`; `WriteCheck`,
`OpenMainFile`/`CreateMainFile`, `WritePayload`, `WriteHeader`; `ReadCheck`,
`VerifyCatalog`, `ReadPayload`; each with its failing form, the retry loop and
the status it leaves. `OpenPanel`, `ConfirmSlot`, `ConfirmFormat`,
`ClosePanel` and `Play` are the player. `ChangeCard`, `PowerFails` and
`PowerOn` are the world.

Directory frames are written whole; a payload spans many frames and may be
torn. `Faults` selects what the environment may do beyond power failures and
failed transfers: exchange cards (`swap`), fail all header attempts
(`header`), fail the open of an existing file (`open`), find old data in a new
file's blocks (`leftover`). A directory written after such a mistake, or a file
that was never given a header, is marked in the history variables `suspect`
and `headerSuspect`; the guarantees are stated for the
others: those mistakes, and no other fault, can cost a slot its save.

SaveStore is what the file promises: slots of a card that are saved, erased
and loaded in one step. `ImplementsStore` maps the directory and the payloads
it names to those slots: a half-written save does not exist, the header write
is the save.

### AnimationCache

`record` is the pool, `slot` the pointer each owner keeps, `heap` the blocks of
the arrays, `loaded` the model behind each registry index. A frame is
`BeginFrame` (all occupied records become stale), any binds, `EndFrame` (the
sweep of what stayed stale). The five paths of
`render_bind_animated_instance` are `BindStatic`, `BindExhausted`, `BindNew`,
`BindOtherAsset` and `BindSameAsset`; the last three may have to wait in
`pc = "malloc"`, where `ArrayRefused` releases every record and tries again, as
the loop at `animation_cache.c:109` does. Between frames stand the attack, the
menu (which formats the heap), equipment, floor loads, loads of a game and
the start of a game. The binder numbers a keyframe by counting from the register
s5, which it never sets (`animation_cache.c:83`): every bind takes any value of
`Incoming`, and `Index` counts from it and wraps. `shown` compares the pose asked
for in a bind with the pose whose vertices are in the array afterwards, with the
register as it is and as it was when the array was morphed.

### DropPools

`pool` and `sequence` are the thirty slots and the three stamps; `record` and
`saved` their copies in floor records and on the card, where gold is two bytes
and items are lists. `Spawn` is death and theft; `LaySword` the cutscene that
takes a slot without a stamp; `PickUp`, `ChangeFloor`, `UseSavePoint`,
`LoadGame`, `NewGameAfterDeath`, `NewSession` the rest. `drops` numbers every
drop of the game and says what became of it; the slots carry the number, which
no guard reads.

### MapObjects

`object` is the authored part of the pool with identifier, item, link,
contents, effect index, action and timer; `passable` the edges of the grid
opened by doors, `regions` the copied regions of the map, `effect` the records
owned by hazards and switches, `standing` the doorways in
which an actor or the player stands. The sweep is one step per object: `cursor` is the object to visit,
`Update` its visit, and links reach objects that the same sweep has still to
visit or has visited already. Objects without work are passed over, which
changes nothing since their visit changes nothing. Between sweeps the player
opens, takes, uses a key or a stone, the boss dies, the keeper opens, the
weapon is transformed, the floor is changed, a game is saved or loaded.

`PlacementAssumption` is about MIXA.DAT, which is not in the repository: the
effects of a floor fit into the pool, and slots that only some floors use hold
objects without an action of their own. The floors are finite in number
(`MapObjectAssumption`), so items can be counted over them. The loader resets nothing but the
identifier of the other slots, so the code is right under that assumption only
(a hazard no property covers, see section 7).

### Actors

`actors` holds slot state, definition, lifecycle, health, action, progress and
phase; `spawners` the summoning effects, `records` and `script` what outlives
the floor, `census` the occupants counted, all cells together, in the grid's
five bits. `Visit` is one slot's turn: `Aware` first (wake, deactivate, select
an action), then the action: `Exit`, `HitReaction`, `Summon`, `Dying`,
`BossDying`, `Transform`, `PostDeath`, or `Other` and `Settle` for all that no
property tells apart. `Damage` is a weapon or blast, `SummonArrives` and
`SummonMoves` the effects, `EnterGate`, `LeaveGate` and `MeetBoss` the scripts
that rewrite actors, `ChangeFloor` record and load.

Distances, facing and dice are choices. Visits, hits and effects come in any
order: a superset of the orders of the frame, so a property that holds here
holds for the frame. The phases are scaled (4 for 4095, 2 for 1548 and 2048, 1
for the definition's cast phase); the proofs need only `StepAssumption`, which
says how the definition's animation step relates to them. `BossAssumption` says
that the boss's floor is another than the gated and the transforming actor's
(5, 1 and 4 in the code), that he is not among what a summon creates (7 is not
among 0, 2 and 4), and that his floor's data places him once.

### Workbench

`src` and `header` are the files (a version decides what it includes, claims
and compiles to), `unstaged` what git would call dirty, `tool` the toolchain.
`graph` and `toolId` are what the generator last wrote, `dirty` the edges ninja
would run, `build` and `plan` one invocation; `obj`, `stamp`, `report` and
`newer` the build directory; `ledger` the bank; `exe`, `linking` and `compared`
the executable in `build/link`, a link that is replacing it and the executable
the comparison beside it is of; `refresher`, `snap` and `readme` the processes
that rewrite the README, what they took and what it says. Actions: `EditSource`,
`EditHeader`, `ChangeTools`, `Stage` (a person); `Start`, `Regenerate`, `Load`,
one action per rule (`EdgeDelink`, `EdgeCompile`, `EdgeProject`, `EdgeReport`,
`BeginCheck`/`EndCheck`), `Finish`, `Interrupt` (ninja); `Bank`;
`LinkExecutables`/`EndLink` (`kf build`, which removes the executable and its
comparison and may fail to give another; it does not refresh);
`StartCompare`/`WriteComparison` (`kf link --compare-only`, which refreshes when
its comparison is written); `Kill` (of a bank or a comparison). An edge's command
reads its inputs when it runs, so an edit beside a build leaves its readers dirty.

A refresh is three steps between which anything may happen: `Lock` (the lock is
had and the scores are taken), `WriteScores` (their block is written and the
executable is taken, a dash where the comparison is of none there is),
`WriteExecutables` (the other block, and the lock goes). A comparison does the last
two only. A check judges before it refreshes and says so after (`judged`).

### Delink, Objects, NativeObject

`Delink` is a word and its relocations: which rows are admitted, which
addend replaces which field, what a linker puts back (`Linked`, the external
reference). Its last section says what carving one owner promises (`RelinksTo`)
and of which inputs. The carve is a recursive function over the rows, not a
`RECURSIVE` operator, so `ToolsProofs` can prove about it. `Objects` extends it with units: sections and symbols in the order
of the file, placement at retail addresses, the relink, the comparison of
data, overlaps. `NativeObject` extends that with the vendor's records and
expressions, the ELF view of a native object and the conversion the other way.

### Manifest and Contributions

`Manifest` validates a configuration (a record of tables) as `retail.py` does
and binds the claims of sources to identities; `Contributions` reads data that
has no source out of listings, carves its target, compares and exports. Every
`ValueError` is one refusal.

### Disc

A disc is a function from sector numbers to sectors. `Disc` patches three
programs into it, in place or at its end, repairs directory, descriptor,
addresses and codes, and keeps the result in the cache under a temporary name
until it is complete. A last section says what a pressed disc is (`Mastered`)
and what one with other programs promises of it (`Carries`). The programs are
placed by a recursive function (`PlacedUpTo`), about which `ExportProofs` proves.

### ControlFlow, FunctionAudit, Evidence

`ControlFlow` decodes words, cuts blocks, decides reachability and compares an
object's function with the retail one; `FunctionAudit` finds starts the census
missed and says what it promises of a leaf among them (`Delimited`). `Evidence` extends `Delink`: it rates rows, merges them with decoded
edges, walks them as a tree and closes them from the game's functions.

### Signatures and Inventory

`Signatures` searches masked patterns and applies the channels in their order.
`Inventory` extends `Manifest` and `Evidence` with the tables of identities:
validation, layouts, seeding, proposals, extents, address pairs and dossiers.

### ParserLink and ParserMachine

`ParserLink` links a closure of candidate objects into the arenas of an
unmodified game; `ParserMachine` is one call on an emulator without load delays,
with the audit, the hooks and the write log, beside a console that has
them (`MCParser`).

### Booleans, Literals, Islands, Trials

`Booleans` extracts facts from a small C (the terms of `MCBooleans`), closes
them and classes every slot; `Literals` joins slots into domains and accounts
for written numbers; `Islands` compares payloads; `Trials` renders variants,
scores them with concurrent workers, ranks and traces them.

### SourceView and Export

`SourceView` is what becomes of the reconstruction: tokens, comments and
notices of a file, the branches of the other view, calls of the claim and
enumeration macros, the refusal of what is left of them, and the allowlist that
makes a project of a tree (`Generate`). `Export` is what happens to a project:
the replacement of a marked output directory entry by entry, and the
publication into a worktree, with one action for each git command or file
written: `CheckBranch`, `CheckFiles`, `Retire`, `WriteFile`, `Add`,
`CommitTree`, `UpdateRef`, and `Kill` between any two. People (`People`) commit
at any time and edit files, reset, drop the branch or make a directory of their
own between runs. Files are written in one fixed order; `mine` records what a
person made and is read by no guard. It reaches no recursive operator, so
`ExportProofs` can prove about it (that module holds the theorems about discs
too, the other thing a user takes out of the repository); there a branch, a worktree and projects of any
names and texts are given, and `MCOutputs` takes small ones.

`MCTools` brings these together: a state is a tool, an input and whether it is
done, so one run holds every input of every tool's instance; the emulated
machine, the batch and the publication make steps of their own in it. The reference definitions
(a native linker, an executing processor, a console, a C layout, an
interpreter) are in the MC modules: they are what the tools are compared with,
not models of code.

## 3. What the runs check

| Run | Instance | Shows |
| --- | --- | --- |
| `save_crash` | one card, the game's three slots, 2 summaries, 2 attempts; 2.1 million states | `SlotsAreComplete`, `ImplementsStore`: power failures and failed transfers never cost a slot its last save |
| `save_faults` | two cards, one slot, every fault; 5.7 million | `DirectoryInv`, `WriteFindsFreeEntry`, `AcknowledgedSaveIsStored`, `LoadYieldsInsertedCardsSave`, `OnlyCommitsChangeSlots` |
| `save_live` | one card, two slots, 3 attempts; 0.2 million | `TransferEnds` |
| `cache_pool` | 2 records, 3 owners, 2 blocks, 3 assets and models (one static), 2 values of the register, indices modulo 3 | `CacheInv`, `SweepTakesOnlyUndrawn`, `ShownPoseIsOfAskedIndex`, `BindEnds` |
| `drops_pools` | gold and placement pools of two, stamps modulo 3, bytes modulo 2, two floors, 3 drops, a save | `DropInv`, `OldestOfVisitGivesWay` |
| `objects_floors` | every kind of object on two floors, 3 effect records | `DoorEdgesAgree`, `NobodyShutIn`, `LinkedEffectIsOwn`, `PassageStaysOpen` |
| `objects_card` | nine objects on two floors, one save | `FiredLinkIsGone`, `EveryItemIsSomewhere`, `WorldMovesForward` |
| `objects_stones` | as `objects_floors` | finding: `PassageNeedsStones` is violated |
| `actors_pool` | three slots, two floors (gate and transform; boss and a casting part); 1.2 million | `SummonsOneAtATime`, `OneDropPerLife`, `DeadDoNotAct`, `SlainStaySlain` |
| `workbench` | two images of one unit, three versions, three toolchains, at most two edits, tool changes or links, three with banks and comparisons; 1.5 million | `CleanMeansCurrent`, `ReadmeIsCurrent`, `BankMatchesObjects`, `BuildEnds` |
| `bank_edited` | the same with one edit and one bank or comparison | finding: `BankedScoreIsOfItsInput` is violated |
| `tools` | all inputs of the algorithms' instances (0.6 million) and the steps of the stateful ones; 1.9 million states | one property for each family of tools, below |

The properties of `tools`:

- `ObjectsRelink`: an object that is placed, linked and compared holds the
  image's words, and so does each owner linked by itself; data called matched links alike on both sides.
- `NativeObjectsLinkAlike`: views and conversions link to what the native linker
  makes of the expressions, wherever sections are put.
- `DataIsOwned`: accepted claims have one owner each, or the sweep reports
  them; a listing's records are the section; a matched contribution holds the
  image's words.
- `OutputsAreWhole`: every program comes back through a disc's directory, other
  files and the codes are right, a disc that is built is mastered as the retail
  one is, the cache never holds a part of a disc; an
  exported text keeps its code, its lines, its notices and what a preprocessor
  would read of its view; a tree is exported whole or refused; what people
  committed or wrote is never overwritten, and a branch or a directory that
  claims to be an export holds one.
- `CodeIsExecution`: reachable blocks are those an execution reaches; equal
  functions are left by the same blocks; a proposed leaf runs to its return, in
  words that no known function and no other start has.
- `NamesAreEarned`: the masked search misses nothing; names are those of
  the function's own object and are never replaced by weaker evidence.
- `EvidenceAgrees`: a tier says what the delinker does, also where rows overlap,
  but for the two cases of section 4; no edge is lost in a merge; ranks and
  chains are the best there are.
- `InventoryIsAdmissible`: layouts are the compiler's; proposals pass the checks
  of the tables they are made for; a proposed pair is one that is executed.
- `MachineIsConsole`: a linked reference means its target's address; the
  emulated run is the console's until it returns or is refused.
- `DomainsAreSound`: a boolean candidate never holds another value; domains are
  the components of the flow, in every order of the units.
- `ComparisonsAreOfOnePair`: islands partition both payloads; a batch's report
  is of one source, one target and one compiler.

Every property of a passing run has a mutant in `PROJECT.json`: a definition
of the code changed the way a plausible mistake would change it, for which the
same run finds the property violated. The mutated forms stand beside the
definitions (`WriteEntrySkipsSpare` above `WriteEntry`, and so on); no
specification uses them.

### Bounds, and why they are enough

- Save file. The directory has one entry more than slots; three slots are the
  game's own number. A second card is enough to be the wrong one. Two attempts
  tell the last from one before, three (in `save_live`) add one that is
  neither. No run uses symmetry.
- Cache. Two records for three owners exhaust the pool, two blocks make the
  heap refuse (a block may also be refused while one is free, for size). Two
  keyframes and one clip tell a skipped morph from a needed one; register values 0
  and 2 modulo 3 number keyframe 1 counted from 2 like keyframe 0 counted from 0.
- Drops. Two slots fill and overflow with three drops; stamps modulo 3 wrap
  within one visit and gold of 2 needs both of its one-bit bytes. `MaxDrops` and
  `MaxSaved` bound the history, not the code.
- Objects. Door ages 0, 1, 1, 2 stand for the code's 31, 250, 300 and 332 (40,
  250, 300 and 341 for a door that lifts): they keep the order, with one step in
  each interval. One stack place, two required stones, a
  chain of links over a switch, a socket, a hazard and an emitter. `MaxSaves`
  bounds the number of saves in a session; the run with every kind has none.
- Actors. Three slots are two placements and one for a summon; two hits for the
  caster, one for the others; phases 0 to 4 with a step of 1 cross the cast and
  the drop at different visits. `CountModulus` 1 leaves the count out of
  `actors_pool`; no guard reads it.
- Workbench. Two images of one unit are the least with which one can be stale
  and the other not; one version includes the header, one claims another
  address and does not compile; one toolchain changes the differ, one the
  compiler. `MaxEdits` bounds edits, tool changes and links, `MaxCommands` those
  with banks and comparisons. `kf analyze` is run for one image or both (`Goals`),
  `kf bank` for everything or one unit (`Selections`): the images, and their units,
  are alike.
- Tools. Scaled numbers keep the relations the code relies on: a low field
  of 4 values with its carry for 65536, a jump window of a few such, sectors of
  two cells, floors of pattern lengths just above what is unique by chance. Each
  instance is built from the cases the code
  distinguishes (every kind of row, of branch, of record, of conflict), crossed
  where they can meet; the MC modules list them. A publication has two commits
  and a working tree (one retires a file, adds two, one of an ignored name) and
  two edits by people: a commit made by hand and one more thing done before or
  after it.

`CHECK_DEADLOCK FALSE` stands in the runs of objects and actors: with every
actor dead, every object opened and no save left, the instance has no step but
ones that change nothing. It stands in `tools` because an algorithm that has
finished has no further step.

### Fairness

`TransferEnds` assumes weak fairness of the program's own step in a transfer
(`CardStep`): it runs unless power fails. `BindEnds` assumes weak fairness of
`ArrayAllocated \/ ArrayRefused`: the binder is one call of the only thread
and does nothing else until malloc succeeds. `BuildEnds` assumes weak fairness of `NinjaStep` (a started ninja and its
commands are scheduled and end) and of `Refresh` (a process that has the README's
lock, or waits for it when it is free, goes on). Nothing is assumed of the player, of
cards, of the power, of editors or of those who start builds. That malloc succeeds once nothing else is allocated
is the one fact taken from outside: an array fits into the empty heap.

## 4. Findings

1. `objects_stones`. `docs/patterns/game-map-script-state.md:49` calls the
   required four the number of completed reveals. A placed stone starts its
   reveal again whenever the floor is loaded and counts again: one stone and
   three returns open the passage.
2. `bank_edited`. `docs/build-system.md:169` says `kf bank` refuses stale
   reports and dirty build inputs. Dirty means unstaged or untracked, and a
   report is stale when an object is newer: a source that is edited and staged
   after its last build is banked under the new source's hash with the
   old object's score.

Disagreements met on the way, stated in the modules or here and not run:

- `docs/save-system.md:140` says status 12 protects the cached catalogue; with
  a new card `save_system_read_slot` (`save_system.c:573`) has by then replaced
  it, and the second confirmation loads a save the panel never showed
  (`LoadMatchesShownSummary` in SaveFile).
- `docs/map-objects.md:76` says allocation chooses a free slot or the oldest.
  With ten drops whose ages are all zero there is none older, acquisition
  returns NULL and the spawners write through it (`map_object.c:153`;
  `EveryDropFindsASlot` in DropPools).
- The comment at `actor_behavior.c:850` says removal from the count returns
  early; the dying boss returns early in every frame (`:953`), and each frame
  takes one occupant more than there is (`ActiveActorsAreCounted` in Actors).
- `docs/semantic-navigation.md:27` says `validated` passes the same overlap
  checks as the delinker. The view (`sema/evidence.py:161-187`) counts reviewed
  rows against reviewed ones and all others against every row that is not
  rejected; the delinker (`delink.py:480`) counts reviewed rows and those into the
  load together. A reviewed row that shares its word with a candidate into the
  load is shown as validated and withheld; a candidate that shares its word only
  with candidates into other memory is shown as a candidate and applied.
  `EvidenceAgrees` excepts these two (`ShownTooHigh`, `ShownTooLow`) and no other.

- `docs/clean-source.md:38` says untracked work is never an export input, and
  the option's help (`clean.py:370`) speaks of tracked files; `snapshot`
  (`clean.py:46`) lists the untracked files that are not ignored too, so a
  preview of the working tree exports them. They cannot be published.

The C is matched against the original byte by byte, so those about the game
describe the shipped program; they are disagreements with what the repository
says of it.

## 5. What is proved

For every value of the constants that the named assumptions allow:

| Theorem | Module | Property |
| --- | --- | --- |
| `TypeCorrect`, `DirectoryInvariant`, `SlotsComplete`, `FreeEntryFound`, `SlotsChangeByCommitOnly`, `AcknowledgedSaveStored`, `LoadIsOfInsertedCard` | SaveFileProofs | `TypeOK`, `DirectoryInv`, `SlotsAreComplete`, `WriteFindsFreeEntry`, `OnlyCommitsChangeSlots`, `AcknowledgedSaveIsStored`, `LoadYieldsInsertedCardsSave` |
| `SaveFileIsAStore` | SaveFileProofs | `ImplementsStore`, where `Faults = {}` |
| `CacheInvariant`, `PointersAgree`, `ArraysAccounted`, `RecordsAreCurrent`, `SweepIsExact`, `PoseIsShown` | AnimationCacheProofs | `CacheInv`, `OwnersAgree`, `HeapAccounted`, `RecordsMatchLoadedAssets`, `SweepTakesOnlyUndrawn`, `ShownPoseIsOfAskedIndex` |
| `DropInvariant`, `DropsStay`, `DropsKeep`, `OldestDropGivesWay` | DropPoolsProofs | `DropInv`, `DropsConserved`, `DropsKeepWorth`, `OldestOfVisitGivesWay` |
| `ObjectInvariant`, `DoorsAndGridAgree`, `DoorsWait`, `EffectsStayWithTheirObjects`, `PassageIsOpen`, `FiredLinksAreGone`, `WorldOnlyMovesForward`, `ItemsAreSomewhere` | MapObjectsProofs | `ObjectInv`, `DoorEdgesAgree`, `NobodyShutIn`, `LinkedEffectIsOwn`, `PassageStaysOpen`, `FiredLinkIsGone`, `WorldMovesForward`, `EveryItemIsSomewhere` |
| `Types`, `TheDeadDoNotAct`, `TheSlainStaySlain`, `OneSummonAtATime`, `OneDropInEachLife` | ActorsProofs | `TypeOK`, `DeadDoNotAct`, `SlainStaySlain`, `SummonsOneAtATime`, `OneDropPerLife` |
| `PublicationInvariant`, `ExportsAreWhole` | ExportProofs | `ExportInv`, and `ExportIsWhole`, which is the part of `OutputsAreWhole` about publication |
| `RebuiltCarries`, `PrepareKeepsCache`, `CandidateCarries` | ExportProofs | `Carries` and `AllCarry`, which are the part of `OutputsAreWhole` about discs that were built |
| `CarvedRelinks` | ToolsProofs | `RelinksTo`, which is the part of `ObjectsRelink` about one owner |
| `LeavesDelimited` | ToolsProofs | `Delimited`, which is a part of `CodeIsExecution` |
| `BatchInvariant`, `ReportsAreRight` | ToolsProofs | `BatchInv`, and `ReportIsRight`, which is a part of `ComparisonsAreOfOnePair` |
| `BuildInvariant`, `CleanIsCurrent`, `BankIsOfObjects`, `ReadmeShowsReport` | WorkbenchProofs | `BuildInv`, `CleanMeansCurrent`, `BankMatchesObjects`, `ReadmeIsCurrent` |

The arguments:

- **Save file.** The safety of a slot is not inductive: it needs to know that
  the image in memory describes the inserted card when the header write
  publishes it. `DirectoryInv` says that a directory names each slot once
  (`UniqueSlots`, from which an entry is always free, by counting entries
  against slots), that a trusted image is the card's directory or is one
  retagged entry ahead of it (`HeaderFollowsCard`), that every entry it keeps is
  backed by a complete payload (`ImageIsComplete`), that at the commit the
  payload is on the card (`CommitIsReady`), and that a mistaken image is known
  as such (`MistakeIsSuspected`). `SaveFileAssumption` is all it assumes. A load
  has an invariant of its own (`LoadInv`): from its status check to its payload
  it goes by the inserted card's directory or by an empty one. The refinement
  (`SaveFileIsAStore`) is for `Faults = {}`, power failures and failed transfers
  alone: the other faults can cost a slot its save, which SaveStore does not
  do. Then no card is ever suspect and an open panel belongs to the card in the slot
  (`Faultless`), and lemmas about the two images show each device call to be a
  stutter of the store but the header write (a save), the format (an erasure)
  and the last read (a load).
- **Cache.** `CacheInv` holds the type, the agreement of pointers and owners
  (`OwnersAgree`), the account of the heap (`HeapAccounted`) and of the loaded
  models (`RecordsMatchLoadedAssets`), each also a theorem. It adds to pointer agreement that occupied records are
  owned, that a live record belongs to an owner drawn in this frame, that the
  record a bind waits with is free, and that the pose a record remembers is the
  pose in its array, numbered from the register as it was at the morph
  (`RecordedPose`). `PoseIsShown` then holds for any register values: the pose
  presented is of the asked model, clip and index, and it is the asked pose when
  the register is what it was at the morph, since counting from one value gives
  two keyframes different indices. Binds with different values can be shown
  another keyframe of the clip (see section 7).
- **Drops.** `Sound` ties a ground, or a record, to a history: each drop that
  lies there does so once, with the worth it was made with. `DropInv` says so of
  the live ground and of the saved one, and that vacant slots carry no number.
  `OldestDropGivesWay` needs to know what a stamp says (`Stamped`): until the
  pool's sequence wraps, the drops of this visit carry stamps in their order,
  all below the sequence, and restored drops carry 0. The age of a slot is the
  distance to the sequence modulo the width, which is then its plain difference.
- **Objects.** `ObjectInv` follows a slot from its placement (`FromPlacement`):
  an object keeps its kind, or was taken; it runs only the action its kind
  starts by itself, or a door's; its link is the placed one or gone; its effect
  index is a function of its place in the list. It says so of the floor that is
  loaded, of every record as the loader would restore it, and of the saved game
  (`WorldIsPlaced`), because each of them becomes the loaded one. Doors need
  their timer in one of the two intervals the code moves it through
  (`DoorTimers`), the effects that two objects never have the same index
  (by counting the objects with effects up to a slot), the links that nothing
  with a link that was fired comes back from a record (`FiredAreGone`).
  `PlacementAssumption` is used in earnest: without it a slot beyond a floor's
  list would run the action of the floor before. `RecordAssumption` says that
  the value for "no record" is no record. For `ItemsAreSomewhere`, `ItemsInv`
  adds the same balance of the saved game, which a load makes the running one.
  The copies of an item are one finite set of places (floor, slot, position), not
  a sum over floors: a view that keeps kind, item and contents keeps the set
  (`KeptView`), so floors, records, saves and loads are one lemma (`BalancedSame`),
  and taking or using an item is one place or one piece of the stock less. The
  exemption of a stone or key reads a link that is gone; a record keeps no
  links of pick-ups and save points, so of those nothing is said.
- **Actors.** `PoolInv` describes living records slot by slot (`Living`): what
  has no health left and can die has one of the actions of a death. Lemmas
  follow one record through each helper (selection, awareness, damage, progress)
  so that each action is a few lines. `SlainInv` adds that a kept actor that was
  slain is native to its slot, that its record agrees, and that the gated actor
  is only rewritten before its death. `OneSummonAtATime` is inductive once
  `PoolInv` is known, and uses `StepAssumption`: without it an actor would cross
  the cast phase twice. `OneDropPerLife` says nothing of an actor that has not
  dropped yet; `LivesInv` counts the drop that is still due with those made.
  A body has spent its drop once its animation is past the phase of the drop, and
  it is out of reach of a blow from an earlier phase on. Only the end of the boss
  starts a spent part over, so a part may have its second drop when no boss
  stands any more, and `BossAssumption` keeps a second boss from standing: with
  two of them a part would drop three times.
- **Workbench.** `CleanMeansCurrent` says what an edge that is not due has made;
  `EdgesAreDue` says it in every state, also inside a build and after an
  interrupt. A header is the hard case: the graph knows who includes what only
  as of its last run, so an object may be out of date and not due, but then the
  generator is. `PlanIsWhole` carries what is due into the plan of a
  running ninja and `ChecksRunLast` keeps the report from changing while a check
  holds the README's lock. For the bank, a report agrees with every object that
  has no newer file (`ReportAgrees`), so what passes the bank's test has the
  object's score. `ReadmeIsCurrent` speaks of states in which a comparison has ended
  (`Told`) or a check has passed (`Passed`), and is not inductive: others may be
  about to write. `ReadmeInv` adds that one process at a time has taken something
  (the lock), that what it took is the executable compared last or a comparison
  has still to write, and that scores taken by a check, or by a bank while a check
  is passed, are the report's. `VersionsAreNew` keeps an old comparison from being
  of a newer executable: each link makes another one, and a comparison that
  started before a link is of one that is gone.
- **Export.** A run reads the branch at one step and moves it at another, with
  kills and commits between. `ExportInv` says what holds at each step: from the
  replacement on the output is the run's project (`Settled`); what a person
  commits while a run works is none of the tips the run expects, so the last
  comparison refuses it (`BranchIsKept`); a file a person edited is in no index
  from the first check on, and after the second in no file the run writes
  (`EditsAreKept`); what is already retired and written of the tracked files is
  as in the project, and the rest is still to come (`TreeFollows`). A text of a
  project is taken to differ from the one word that stands for what a person
  wrote, which only lets `mine` be told apart. Edits of files
  while a run writes them are left out (section 7); commits beside it are not.
- **Trials.** A report is written minutes after the target was read. While the
  target is still the one the batch began with, every row that exists is right
  (`TargetIsWatched`): an edited target is not taken back (section 7), so the
  comparison at the end speaks for every score before it. A row knows the
  compiler of its object (`RowsAreOfObjects`), so one fingerprint is one
  compiler. That the retained traces hold the best of each state needs the least
  of a set of numbers twice, by score and then by index, which well-foundedness
  of the naturals gives without induction over the rows. The theorem takes any
  list of variants; that `Variants` renders the manifest's is checked by TLC, and
  so is the order of the ranking.

- **Delinker.** `CarvedRelinks` is about any image, owner, list of rows, policy
  and names. Row by row (`CarvedSoFar`), the words and relocations made so far
  link back to the image's (`Shows`): a row that is refused changes nothing, a
  row that is admitted replaces fields of its own words by an addend that the
  symbol's address completes. The arithmetic is that of two halves and a carry:
  `PairLinks`, `PairIs` and `Wraps` say that the high half of what the linker
  adds, with the carry of the low one, is the half the image had. The function
  over the rows is defined by recursion; that it exists is proved by a minimal
  counterexample (`UpTo`, from the well-foundedness of the naturals), which needs
  no induction theorem. `RelinksTo` names its conditions: rows are as the census
  writes them (`IsRow`); rows of one datum keep apart (`RowsApart`: for code the
  delinker compares rows and refuses, for data it trusts the census); a name that spells an address is of it (`SpelledRight`); the linker
  puts each symbol at the one address the catalog knows (`Stands`); pairs of one
  symbol do not interleave (`Crossed`, see section 7). TLC evaluates the same
  operator for every owner of its instance, under each policy.
- **Function audit.** `LeavesDelimited` is about any contiguous image and any
  census whose functions are not empty and do not overlap. A leaf's end is the
  least return after its start, which exists by well-foundedness; its words lie
  in one gap between functions, and two gaps have no word in common, so two
  leaves that began at one word would be one, and a start found by the other rule
  is dropped where a leaf begins. That the words execute as a leaf is
  not in `Delimited`; TLC compares them with an execution.
- **Discs.** `RebuiltCarries` takes a mastered retail disc, programs that
  `prepare` accepts, of any lengths, and any order that names each once.
  Program by program (`PlacedSoFar`), what is placed has its sectors and its
  entry names them, the sectors of two programs are apart, the changed set
  holds what was written, and everything else is as it was. A program that fits
  keeps its extent; one that grows takes new sectors behind the end, so it can
  touch neither an extent nor another program. The descriptor's total
  (`HasVolume`) and the codes of the changed sectors (`Coded`) then make the disc
  `Delivered`, from which `Carries` follows: the directory found by the same walk
  has the same names, its files lie apart, and reading a program gives its
  cells and zeros behind them. The emulator's candidate disc goes a shorter way
  (`BuiltIn`: programs over retail extents) to the same `Delivered`, for
  extents that are what the retail directory names and what its sectors hold
  (`Located`, as `read_iso_files` returns them). `PrepareKeepsCache`: a cache
  whose discs carry the programs of their keys is left so by every outcome of a
  run, the killed ones included, and loses no disc.

## 6. What is only model-checked

Liveness (`TransferEnds`, `BindEnds`, `BuildEnds`): fairness and ENABLED are
out of the prover's reach. Every other property of the save file, the cache,
the drops, the objects, the actors and the workbench is a theorem.
`ImplementsStore` is proved where
`Faults = {}`, the setting of `save_crash`. The `TypeOK` of a component is part
of its inductive invariant; the runs spend their properties on more than
types. Most algorithms of the tools: the library's induction over data is out
of the prover's reach, and where a minimal counterexample replaces it (the
delinker's rows, a disc's programs) the algorithm has to be one recursive
function with an invariant of its own; ParserMachine's console, MCBooleans'
interpreter and NativeObject's expressions are recursive operators, and a fold
over a set takes it in an order of its own choice. These properties are theorems in part:

- `ObjectsRelink`: one owner (`CarvedRelinks`). With TLC: sections joined and
  rebased in a module's object, placement, the ELF writer, pairs that cross, the
  comparison of data.
- `OutputsAreWhole`: the publication (`ExportsAreWhole`) and discs that were built
  (`RebuiltCarries`, `PrepareKeepsCache`, `CandidateCarries`). With TLC: when a
  rebuild is refused, that both ways make one disc of programs that fit, texts,
  views, macro calls, the allowlist.
- `CodeIsExecution`: proposed leaves (`LeavesDelimited`). With TLC: reachable
  blocks, compared functions, that a leaf executes to its return.
- `ComparisonsAreOfOnePair`: the report of a batch (`ReportsAreRight`). With TLC:
  variants, the order of the ranking, islands.

The other seven properties of `tools` are checked only.

## 7. What is not modelled

**The game.** Geometry (motion, collision response, projection, blending),
sound, image and text output, the opening: data without control, or calls into
libraries that are not in the repository. Of the effects only the records of
owned effects and of summons are here; of the player only what changes the
world; of collision the edges of doors and one count for all cells. Floors'
data (MIXA.DAT) is a constant with assumptions. Undefined reads are choices
where a property can see them (the summaries the header read leaves
uncleared, the register of the cache).

**The tools.** Source audits and proposals (one pass over libclang's tree, no
state), views and HTML, the command line, oracles (inputs for the emulated
game, decoders of its formats), instrumented compilers, vendored code. In the
modelled parts:

- Workbench: emission of the graph, the test of the current state with the
  write of the bank, and each edge's command are atomic; granularity of file
  times (and the second of tolerance of `progress.py:161`), the data of the SDK's
  edges, `--dirty`, banks, comparisons or links that run together with their like
  and a new header that shadows another are left out. A check may also fail over
  data, reachability or the round trip: that is a choice. The README has no column
  of data modules here; the executables are one, which is there at once when its
  link ends, and the temporary file of a refresh is part of its write.
- Delink and Objects: tables of used and rejected rows, alignments other than
  two values, the ELF header. Two pairs of one symbol that cross each other are
  excepted: the linker pairs by order and the comparison reports the unit. The
  data comparison assumes that one symbol has no further aliases.
- NativeObject: the order of the symbol file, line and block records, COMMON.
- Manifest and Contributions: parsing of tables and messages, columns that
  are derived (hashes, file offsets, evidence), sources that are not required.
- Disc: EDC and ECC are a copy of the payload; ISO record bytes, cue files,
  collisions of hashes.
- ControlFlow, FunctionAudit: traps do not return; the words of a leaf's last
  delay slot and a return in another's slot are outside the reference.
- Evidence: queries by text. Signatures: words instead of bytes.
- Inventory: storage of enumerations inside a row, limits on lists of names,
  decoding of strings. Excepted: an identity in BSS that starts inside the
  load, a pair in a call's delay slot, a proposal that touches a reservation's
  tail, a variadic candidate without parameters.
- ParserLink and ParserMachine: code that modifies itself, unaligned loads,
  effects of Unicorn within an instruction; the three refusals of a store are
  one. A hook's stub is three words.
- Booleans: one unit, one width of integers, no pointers to pointers or nested
  aggregates, parameters of functions that are not called; an increment through
  a dereferenced pointer, which records no write (`booleans.py:713`).
- Literals: parsing, counterparts in other games, families of constants.
- SourceView and Export: the C++ rewriting of casts and enumerations
  (`clean_cpp.py`), what a verification compiles, Rust beyond its comments,
  edits of files while a run writes them (commits are not left out), branches
  checked out twice. A worktree's path and the output's are apart.
- Islands: percentages and hashes. Trials: validation of a trace and its
  features, the comparison with a recompiled baseline, an edit of the target that
  is taken back before the batch ends (`hypotheses.py:371` cannot see it);
  objdiff is external.

**Hazards met that no property covers.** `PROJECT.json` lists those a property
watches. Beside them:

- `save_system.c:159` clears 36 of 72 bytes: the third slot's summary is what
  was there before unless the directory names it.
- `animation_cache.c:83`: a bind that finds another value in s5 than the one that
  filled its array may show another keyframe of the asked clip; that it does so
  only then is `ShownPoseIsOfAskedIndex`.
- `map_object_pool.c:218` resets only the identifier of slots beyond a floor's
  list: action, link and effect of the floor before stay.
- `map_scripts.c:637`: a chest whose first item is taken never opens again,
  whatever became of the others.
- `actor_behavior.c:316`: an actor that goes dormant out of range keeps its
  count and is counted again.
- `actor.c:266`: an actor sent to die by the boss's end keeps its health; a
  blast in the first half of the animation starts it again.
- `lib/memory.c:103` compares neither the cursor with the arena's end nor the
  depth with its sixteen sizes; `cd_file.c:48` searches for the error image with
  the record of the search that failed.
- `executable_diff.py:73`: islands grow through repeated bytes from both sides
  (the partition is checked as a part of `ComparisonsAreOfOnePair`).

## 8. Plan

Written so far: SaveFile, SaveStore, AnimationCache, DropPools, MapObjects,
Actors, Workbench, Export and Trials with their proofs; the other tools, with
proofs of the delinker, the audit of functions and the discs. Next:

1. The delinker's theorem for a whole object: sections of several owners joined
   and rebased; the layouts and proposals of the inventory.
2. `ActiveActorsAreCounted` and `PassageNeedsStones` under the conditions that
   would make them true, to say how far the code is from them.
3. `MapEvents`: stages and pages of dialogue, exchanges of items and gold, and
   the floor record's one-page inverse; composed with a stock of items.
4. `MemoryArena` with the disc loads that use it: last in, first out, within
   sixteen sizes, through changes of mode.
5. The effect pool's construct and free paths, the player's vitals with death
   and revival, and sequences and voice banks over floor changes.

## 9. Running

    tlc -workers 2 -config SaveFile_crash.cfg SaveFile.tla
    tlapm SaveFileProofs.tla

`PROJECT.json` names the module and configuration of every run.
