------------------------------ MODULE Workbench ------------------------------
(***************************************************************************)
(* The matching workbench of scripts/kf: sources are edited and staged, a  *)
(* ninja graph delinks the retail images, compiles the units, compares     *)
(* them and checks the result, `kf bank` keeps the scores in a ledger,     *)
(* `kf build` links the executables, `kf link --compare-only` compares     *)
(* them, and checks, banks and comparisons write the README's blocks.      *)
(* Every unit holds one function.  A source is its version: what it        *)
(* includes, claims and compiles to are functions of the version.          *)
(***************************************************************************)
EXTENDS Integers, FiniteSets

CONSTANTS Units, Images, ImageOf,
          Versions,      \* of a source, from 0
          Includes,      \* does that version include the header?
          Claims,        \* the ADDRESS() claims of that version
          Broken,        \* versions that do not compile
          Tools, Compiler, \* toolchains, and the compiler each one pins
          Percent,       \* the score of a unit's code against its target
          Goals, Selections, \* sets of images kf analyze, of units kf bank is run for
          MaxEdits,      \* bound: edits, tool changes and links
          MaxCommands,   \* bound: those and runs of kf bank and kf link --compare-only
          None

ASSUME WorkbenchAssumption ==
  /\ IsFiniteSet(Units) /\ ImageOf \in [Units -> Images]
  /\ Images \cap {"bank", "compare"} = {}
  /\ 0 \in Versions /\ 0 \in Tools /\ Goals \subseteq SUBSET Images
  /\ Selections \subseteq SUBSET Units
  /\ Includes \in [Versions -> BOOLEAN] /\ Broken \subseteq Versions \ {0}
  /\ Compiler \in [Tools -> Nat]
  /\ None \notin [src : Versions, header : 0..1, compiler : Nat]

VARIABLES src, header, tool,            \* the tree, the environment
          exe, linking, compared,       \* build/link: EXE (0: none), and the one compared
          unstaged,                     \* paths git reports as unstaged or untracked
          graph, toolId,                \* build.ninja's headers; build/toolchain.id
          older,                        \* units compiled before the header's last edit
          stamp, obj, project, report,  \* outputs of the edges
          newer,                        \* images with a file newer than the report
          dirty,                        \* edges ninja would run
          build, goal, plan, judged,    \* the running ninja; what its checks found
          ledger,                       \* baseline.tsv
          refresher, snap, readme,      \* who rewrites the README, with what
          edits, runs

tree == <<src, header, tool, unstaged>>
link == <<exe, linking, compared>>
outputs == <<graph, toolId, older, stamp, obj, project, report, newer>>
ninja == <<build, goal, plan, judged>>
docs == <<refresher, snap, readme>>
vars == <<tree, link, outputs, dirty, ninja, ledger, docs, edits, runs>>

E(rule, of) == [rule |-> rule, of |-> of]
Configure == E("configure", None)
Edges == {Configure, E("project", None), E("report", None)}
         \cup {E("compile", u) : u \in Units}
         \cup {E(r, i) : r \in {"delink", "check"}, i \in Images}
Refreshers == Images \cup {"bank", "compare"}

(***************************************************************************)
(* The graph.  A node is a file; Deps is what the generated build lines    *)
(* name as inputs, with the headers the scanner found when it ran.         *)
(***************************************************************************)
Headers == [u \in Units |-> Includes[src[u]]]
\* Mutant: the generator depends on no source.
NothingScanned == {}
Scanned == {<<"src", u>> : u \in Units}
           \cup {<<"header", None>> : u \in {v \in Units : graph[v]}}
UnitsOf(i) == {u \in Units : ImageOf[u] = i}
ProjectInputs == {<<"stamp", i>> : i \in Images} \cup {<<"obj", u>> : u \in Units}
Deps(e) ==
  CASE e.rule = "configure" -> Scanned
    [] e.rule = "delink"  -> {<<"src", u>> : u \in UnitsOf(e.of)}
    [] e.rule = "compile" -> {<<"src", e.of>>, <<"stamp", ImageOf[e.of]>>, <<"toolId", None>>}
                             \cup {<<"header", None>> : u \in {v \in {e.of} : graph[v]}}
    [] e.rule = "project" -> ProjectInputs
    [] e.rule = "report"  -> ProjectInputs \cup {<<"project", None>>, <<"toolId", None>>}
    [] e.rule = "check"   -> {<<"report", None>>, <<"ledger", None>>, <<"toolId", None>>}

\* Edges that read one of the files just written.
Reading(files) == {e \in Edges : Deps(e) \cap files # {}}
Rank(e) == CASE e.rule = "delink" -> 1 [] e.rule = "compile" -> 2
             [] e.rule = "project" -> 3 [] e.rule = "report" -> 4 [] OTHER -> 5
Precedes(f, e) == Rank(f) < Rank(e) /\ (e.rule = "compile" => f.of = ImageOf[e.of])

\* What the compiler makes of a unit now, and what identifies its inputs.
CodeOf(u) == [src |-> src[u], header |-> IF Includes[src[u]] THEN header ELSE 0,
              compiler |-> Compiler[tool]]
InputHash(u) == [src |-> src[u], header |-> IF Includes[src[u]] THEN header ELSE 0,
                 tool |-> tool]
ClaimsOf(i) == [u \in UnitsOf(i) |-> Claims[src[u]]]

(***************************************************************************)
(* The editor.                                                             *)
(***************************************************************************)
Edited(files) == /\ edits < MaxEdits /\ edits + runs < MaxCommands
                 /\ edits' = edits + 1 /\ UNCHANGED runs
                 /\ dirty' = dirty \cup Reading(files)
EditSource(u, v) ==
  /\ v # src[u] /\ src' = [src EXCEPT ![u] = v]
  /\ unstaged' = unstaged \cup {<<"src", u>>}
  /\ Edited({<<"src", u>>})
  /\ UNCHANGED <<header, tool, link, outputs, ninja, ledger, docs>>
EditHeader ==
  /\ header' = 1 - header
  /\ unstaged' = unstaged \cup {<<"header", None>>}
  /\ Edited({<<"header", None>>}) /\ older' = Units
  /\ UNCHANGED <<src, tool, link, graph, toolId, stamp, obj, project, report, newer,
                 ninja, ledger, docs>>
\* A new environment reaches the commands started after it.
ChangeTools(t) ==
  /\ build = "idle"
  /\ t # tool /\ tool' = t /\ Edited({})
  /\ UNCHANGED <<src, header, link, unstaged, outputs, ninja, ledger, docs>>
Stage ==
  /\ unstaged # {} /\ unstaged' = {}
  /\ UNCHANGED <<src, header, tool, link, outputs, dirty, ninja, ledger, docs, edits, runs>>

(***************************************************************************)
(* `kf analyze`: configure_if_needed, then ninja, which brings build.ninja *)
(* up to date before it reads it.                                          *)
(***************************************************************************)
\* Mutant: write-if-changed for build.ninja.
EmitIfChanged ==
  /\ graph' = Headers /\ toolId' = tool
  /\ dirty' = IF graph = Headers /\ toolId = tool THEN dirty
              ELSE (dirty \cup {E("compile", u) : u \in Units}) \ {Configure}
Emit == /\ graph' = Headers /\ toolId' = tool
        /\ LET changed == IF toolId = tool THEN {} ELSE Reading({<<"toolId", None>>})
               outdated == {E("compile", u) : u \in {v \in older : Headers[v]}}
           IN dirty' = (dirty \cup changed \cup outdated) \ {Configure}
Start(images) ==
  /\ build = "idle" /\ build' = "loading" /\ goal' = images
  /\ IF toolId # tool THEN Emit ELSE UNCHANGED <<graph, toolId, dirty>>
  /\ UNCHANGED <<tree, link, older, stamp, obj, project, report, newer, plan, judged, ledger,
                 docs, edits, runs>>
Regenerate ==
  /\ build = "loading" /\ Configure \in dirty
  /\ Emit
  /\ UNCHANGED <<tree, link, older, stamp, obj, project, report, newer, ninja, ledger, docs, edits, runs>>
Wanted(edges) == {e \in edges \ {Configure} : e.rule = "check" => e.of \in goal}
Load ==
  /\ build = "loading" /\ Configure \notin dirty
  /\ build' = "running" /\ plan' = Wanted(dirty)
  /\ UNCHANGED <<tree, link, outputs, dirty, goal, judged, ledger, docs, edits, runs>>

Ready(e) == build = "running" /\ e \in plan /\ \A f \in plan : ~Precedes(f, e)
\* An edge has run and written these files: its readers are due, restat spares the others.
Ran(e, files) == /\ dirty' = (dirty \ {e}) \cup Reading(files)
                 /\ plan' = (plan \ {e}) \cup Wanted(Reading(files))
                 /\ UNCHANGED <<tree, link, graph, toolId, build, goal, judged, ledger, docs,
                                 edits, runs>>
Failed(e) == /\ build' = "failing" /\ plan' = {}
             /\ UNCHANGED <<tree, link, outputs, dirty, goal, judged, ledger, docs, edits, runs>>

EdgeDelink(i) ==
  LET e == E("delink", i) IN
  /\ Ready(e)
  /\ stamp' = [stamp EXCEPT ![i] = ClaimsOf(i)]
  /\ newer' = IF stamp' = stamp THEN newer ELSE newer \cup {i}
  /\ Ran(e, IF stamp' = stamp THEN {} ELSE {<<"stamp", i>>})
  /\ UNCHANGED <<older, obj, project, report>>
EdgeCompile(u) ==
  LET e == E("compile", u) IN
  /\ Ready(e)
  /\ \/ src[u] \in Broken /\ Failed(e)
     \/ /\ src[u] \notin Broken
        /\ obj' = [obj EXCEPT ![u] = CodeOf(u)]
        /\ older' = older \ {u}
        /\ newer' = IF obj' = obj THEN newer ELSE newer \cup {ImageOf[u]}
        /\ Ran(e, IF obj' = obj THEN {} ELSE {<<"obj", u>>})
        /\ UNCHANGED <<stamp, project, report>>
EdgeProject ==
  LET e == E("project", None) IN
  /\ Ready(e)
  /\ project' = {u \in Units : obj[u] # None}
  /\ newer' = IF project' = project THEN newer ELSE Images
  /\ Ran(e, IF project' = project THEN {} ELSE {<<"project", None>>})
  /\ UNCHANGED <<older, stamp, obj, report>>
\* objdiff-cli writes the report anew, with the differ the toolchain pins.
EdgeReport ==
  LET e == E("report", None) IN
  /\ Ready(e)
  /\ report' = [tool |-> tool, target |-> stamp, code |-> [u \in project |-> obj[u]]]
  /\ newer' = {}
  /\ Ran(e, {<<"report", None>>})
  /\ UNCHANGED <<older, stamp, obj, project>>

(***************************************************************************)
(* current_state and classifications: what a check or a bank makes of the  *)
(* report.  A report of no unit of the image is a failure once the image   *)
(* has an object; a unit outside the report has no score.                  *)
(***************************************************************************)
\* Mutant: the report's age is not tested.
NeverStale(i) == FALSE
Stale(i) == i \in newer
Failures(images) == {i \in images : /\ \E u \in UnitsOf(i) : obj[u] # None
                                    /\ report = None \/ Stale(i)}
Scored == IF report = None THEN {} ELSE DOMAIN report.code
Pct(u) == Percent[report.code[u]]
Banked(images) == {u \in Units : ledger[u] # None /\ ImageOf[u] \in images}
Lost(images) == Banked(images) \ Scored
Regressed(images) == {u \in Banked(images) \cap Scored :
                        ledger[u].input = InputHash(u) /\ Pct(u) < ledger[u].best}
Bad(i) == Failures({i}) \cup Lost({i}) \cup Regressed({i}) # {}

(***************************************************************************)
(* The README.  refresh takes the scores, writes their block, takes the    *)
(* executables and writes theirs, all under one lock; a comparison takes   *)
(* the lock for the block of the executables only.  An executable is shown *)
(* when the comparison on disk is of it, else a dash (0).                  *)
(***************************************************************************)
Shown == IF compared = exe THEN exe ELSE 0
Holding == {"locked", "scored"}
\* Mutant: no lock around what is taken and what is written.
NoLock == TRUE
Free == \A r \in Refreshers : refresher[r] \notin Holding
Turn(r, state, taken) == /\ refresher' = [refresher EXCEPT ![r] = state]
                         /\ snap' = [snap EXCEPT ![r] = taken]
TakeExecutables(r) == Turn(r, "scored", [scores |-> None, exe |-> Shown])
Lock(r) ==
  /\ refresher[r] = "waiting" /\ Free
  /\ IF r = "compare" THEN TakeExecutables(r)
     ELSE Turn(r, "locked", [scores |-> report, exe |-> 0])
  /\ UNCHANGED <<tree, link, outputs, dirty, ninja, ledger, readme, edits, runs>>
WriteScores(r) ==
  /\ refresher[r] = "locked"
  /\ readme' = [readme EXCEPT !.scores = snap[r].scores] /\ TakeExecutables(r)
  /\ UNCHANGED <<tree, link, outputs, dirty, ninja, ledger, edits, runs>>
WriteExecutables(r) ==
  /\ refresher[r] = "scored"
  /\ readme' = [readme EXCEPT !.exe = snap[r].exe] /\ Turn(r, "idle", None)
EndRefresh(r) ==
  /\ WriteExecutables(r)
  /\ UNCHANGED <<tree, link, outputs, dirty, ninja, ledger, edits, runs>>

\* The check edge: judge, refresh, and write the stamp only when all is well (data,
\* reachability and round trip may fail it too).  A ledger banked since leaves the edge due.
BeginCheck(i) ==
  /\ Ready(E("check", i)) /\ refresher[i] = "idle"
  /\ refresher' = [refresher EXCEPT ![i] = "waiting"]
  /\ judged' = [judged EXCEPT ![i] = [bad |-> Bad(i), ledger |-> ledger]]
  /\ UNCHANGED <<tree, link, outputs, dirty, build, goal, plan, ledger, snap, readme, edits, runs>>
EndCheck(i) ==
  /\ WriteExecutables(i) /\ judged' = [judged EXCEPT ![i] = None]
  /\ \/ build' = "failing" /\ plan' = {} /\ UNCHANGED dirty
     \/ /\ ~judged[i].bad
        /\ plan' = plan \ {E("check", i)}
        /\ dirty' = IF ledger = judged[i].ledger THEN dirty \ {E("check", i)} ELSE dirty
        /\ UNCHANGED build
  /\ UNCHANGED <<tree, link, outputs, goal, ledger, edits, runs>>
Checking == \E i \in Images : refresher[i] # "idle"
Finish ==
  /\ build \in {"running", "failing"} /\ plan = {} /\ ~Checking
  /\ build' = "idle" /\ goal' = {}
  /\ UNCHANGED <<tree, link, outputs, dirty, plan, judged, ledger, docs, edits, runs>>
\* Ctrl-C: the commands die, the lock with them; an edge that was running stays due.
Interrupt ==
  /\ build # "idle" /\ build' = "idle" /\ goal' = {} /\ plan' = {}
  /\ judged' = [i \in Images |-> None]
  /\ refresher' = [r \in Refreshers |-> IF r \in Images THEN "idle" ELSE refresher[r]]
  /\ snap' = [r \in Refreshers |-> IF r \in Images THEN None ELSE snap[r]]
  /\ UNCHANGED <<tree, link, outputs, dirty, ledger, readme, edits, runs>>

(***************************************************************************)
(* `kf bank [--unit u]`: the test for dirty inputs, the report and the     *)
(* write are one step, milliseconds long; the refresh of the README is not.*)
(***************************************************************************)
DirtyInputs == unstaged
BankRecord(u) ==
  LET old == ledger[u] IN
  [input |-> InputHash(u), pct |-> Pct(u),
   best |-> IF old # None /\ old.input = InputHash(u) /\ old.best > Pct(u)
            THEN old.best ELSE Pct(u),
   hist |-> IF old # None /\ old.hist > Pct(u) THEN old.hist ELSE Pct(u)]
BankRows(selected) ==
  [u \in Units |-> IF selected = {}
                   THEN IF u \in Scored THEN BankRecord(u) ELSE None
                   ELSE IF u \in selected THEN BankRecord(u) ELSE ledger[u]]
Accepted(selected) == /\ Failures(Images) = {} /\ selected \subseteq Scored
                      /\ \A u \in selected : Pct(u) = 100
Run == edits + runs < MaxCommands /\ runs' = runs + 1
Bank(selected) ==
  /\ Run /\ refresher["bank"] = "idle" /\ DirtyInputs = {} /\ Accepted(selected)
  /\ ledger' = BankRows(selected)
  /\ dirty' = IF ledger' = ledger THEN dirty ELSE dirty \cup Reading({<<"ledger", None>>})
  /\ refresher' = [refresher EXCEPT !["bank"] = "waiting"]
  /\ UNCHANGED <<tree, link, outputs, ninja, snap, readme, edits>>

(***************************************************************************)
(* `kf build` removes an executable with its comparison and links another, *)
(* or none; it does not touch the README.  `kf link --compare-only` reads  *)
(* the executable there is, writes the comparison, and then refreshes.     *)
(***************************************************************************)
LinkExecutables ==
  /\ ~linking /\ linking' = TRUE /\ exe' = 0 /\ compared' = 0 /\ Edited({})
  /\ UNCHANGED <<tree, outputs, ninja, ledger, docs>>
EndLink ==
  /\ linking /\ linking' = FALSE /\ exe' \in {0, edits}
  /\ UNCHANGED <<tree, compared, outputs, dirty, ninja, ledger, docs, edits, runs>>
StartCompare ==
  /\ Run /\ refresher["compare"] \in {"idle", "cut"} /\ exe # 0
  /\ Turn("compare", "comparing", [scores |-> None, exe |-> exe])
  /\ UNCHANGED <<tree, link, outputs, dirty, ninja, ledger, readme, edits>>
WriteComparison ==
  /\ refresher["compare"] = "comparing"
  /\ compared' = snap["compare"].exe /\ Turn("compare", "waiting", None)
  /\ UNCHANGED <<tree, exe, linking, outputs, dirty, ninja, ledger, readme, edits, runs>>
\* A bank or a comparison is killed, and its lock goes with it.
Kill(r) ==
  /\ refresher[r] \notin {"idle", "cut"}
  /\ Turn(r, IF r = "compare" THEN "cut" ELSE "idle", None)
  /\ UNCHANGED <<tree, link, outputs, dirty, ninja, ledger, readme, edits, runs>>

\* A fresh checkout.
Init ==
  /\ src = [u \in Units |-> 0] /\ header = 0 /\ tool = 0 /\ unstaged = {}
  /\ exe = 0 /\ linking = FALSE /\ compared = 0
  /\ graph = [u \in Units |-> FALSE] /\ toolId = None /\ older = Units
  /\ stamp = [i \in Images |-> None] /\ obj = [u \in Units |-> None]
  /\ project = {} /\ report = None /\ newer = {}
  /\ dirty = Edges /\ build = "idle" /\ goal = {} /\ plan = {}
  /\ judged = [i \in Images |-> None] /\ ledger = [u \in Units |-> None]
  /\ refresher = [r \in Refreshers |-> "idle"] /\ snap = [r \in Refreshers |-> None]
  /\ readme = [scores |-> None, exe |-> 0] /\ edits = 0 /\ runs = 0

Editor == \/ \E u \in Units, v \in Versions : EditSource(u, v)
          \/ EditHeader \/ Stage \/ LinkExecutables \/ EndLink
          \/ \E t \in Tools : ChangeTools(t)
NinjaStep == \/ Regenerate \/ Load \/ EdgeProject \/ EdgeReport \/ Finish
             \/ \E i \in Images : EdgeDelink(i) \/ BeginCheck(i) \/ EndCheck(i)
             \/ \E u \in Units : EdgeCompile(u)
Commands == {"bank", "compare"}
Refresh == \/ \E r \in Refreshers : Lock(r) \/ WriteScores(r)
           \/ \E r \in Commands : EndRefresh(r)
           \/ WriteComparison
Next == \/ Editor \/ NinjaStep \/ Refresh \/ Interrupt \/ StartCompare
        \/ \E r \in Commands : Kill(r)
        \/ \E images \in Goals : Start(images)
        \/ \E s \in Selections : Bank(s)
Spec == Init /\ [][Next]_vars
\* Processes that run are scheduled.
Fairness == WF_vars(NinjaStep) /\ WF_vars(Refresh)
FairSpec == Spec /\ Fairness

(***************************************************************************)
(* Properties.                                                             *)
(***************************************************************************)
\* Types, and that only what is due is planned: a running ninja never plans an edge twice.
TypeOK ==
  /\ src \in [Units -> Versions] /\ header \in 0..1 /\ tool \in Tools
  /\ toolId \in Tools \cup {None} /\ graph \in [Units -> BOOLEAN] /\ older \subseteq Units
  /\ obj \in [Units -> [src : Versions, header : 0..1, compiler : Nat] \cup {None}]
  /\ DOMAIN stamp = Images /\ project \subseteq Units /\ goal \subseteq Images
  /\ dirty \subseteq Edges /\ plan \subseteq dirty /\ newer \subseteq Images
  /\ build \in {"idle", "loading", "running", "failing"} /\ (build # "running" => plan = {})
  /\ refresher \in [Refreshers -> {"idle", "comparing", "waiting", "locked", "scored", "cut"}]
  /\ DOMAIN snap = Refreshers /\ DOMAIN judged = Images

\* What ninja would not run again is right: an object is what its source, the header it
\* includes and the compiler give now, a stamp names the claims of its sources, and a report
\* compares today's objects with today's targets by today's tool (graph.emit's inputs).
CleanMeansCurrent ==
  Configure \notin dirty /\ toolId = tool =>
    /\ \A u \in Units : E("compile", u) \in dirty \/ obj[u] = CodeOf(u)
    /\ \A i \in Images : E("delink", i) \in dirty \/ stamp[i] = ClaimsOf(i)
    /\ E("report", None) \in dirty
       \/ report = [tool |-> tool, target |-> stamp, code |-> [u \in Units |-> obj[u]]]

\* A bank never records a score other than that of the object on disk, whatever build was
\* interrupted before it (current_state's test of a stale or missing report).
BankMatchesObjects ==
  [][\A u \in Units : ledger'[u] \in {ledger[u], None} \/ ledger'[u].pct = Percent[obj[u]]]_vars

\* Whatever checks, banks, comparisons and links run together and whichever of them is killed,
\* a comparison that ran to its end left the README with the executable on disk, and a check
\* that passed left it with the report (the lock of readme.refresh and refresh_executable).
\* A link alone promises nothing: `kf build` does not update the README.
Passed == \E i \in Images : E("check", i) \notin dirty
Compared == compared = exe /\ exe # 0
Told == Compared /\ refresher["compare"] = "idle"
ReadmeIsCurrent == (Told => readme.exe = exe) /\ (Passed => readme.scores = report)

\* A started ninja ends, also when it must regenerate its own graph (_write_generator).
BuildEnds == build # "idle" ~> build = "idle"

(***************************************************************************)
(* Why they hold: what every step keeps.                                   *)
(***************************************************************************)
\* The output of a compile edge as the toolchain of the graph gives it.
CodeBy(u, t) == [src |-> src[u], header |-> IF Includes[src[u]] THEN header ELSE 0,
                 compiler |-> Compiler[t]]
Compiled == {u \in Units : obj[u] # None}
\* An object that is not due is current, but for a header edit the graph has not heard of:
\* the next run of the generator makes it due.
EdgesAreDue ==
  /\ Configure \in dirty \/ graph = Headers
  /\ \A u \in Units : \/ E("compile", u) \in dirty
                      \/ obj[u] = CodeBy(u, toolId)
                      \/ u \in older /\ Headers[u] /\ ~graph[u]
  /\ \A u \in Units \ Compiled : E("compile", u) \in dirty
  /\ \A i \in Images : E("delink", i) \in dirty \/ stamp[i] = ClaimsOf(i)
  /\ E("project", None) \in dirty \/ project = Compiled
  /\ \/ E("report", None) \in dirty
     \/ report = [tool |-> toolId, target |-> stamp, code |-> [u \in Units |-> obj[u]]]
\* A running ninja has the toolchain of its graph, and in its plan what is not made yet.
PlanIsWhole ==
  /\ Configure \notin plan /\ (build # "idle" => toolId = tool)
  /\ build = "running" => /\ \A u \in Units \ Compiled : E("compile", u) \in plan
                          /\ E("project", None) \in plan \/ project = Compiled
\* While a check waits for the README or writes it, only checks are left to run.
ChecksRunLast ==
  Checking => build \in {"running", "failing"} /\ \A e \in plan : e.rule = "check"
BuildInv == TypeOK /\ EdgesAreDue /\ PlanIsWhole /\ ChecksRunLast

\* What the report says of a unit is the object on disk unless its image has newer files.
ReportAgrees ==
  /\ project \subseteq Compiled
  /\ report # None => \A u \in DOMAIN report.code :
       u \in Compiled /\ (ImageOf[u] \in newer \/ report.code[u] = obj[u])

\* A link gives an executable no comparison is of.
VersionsAreNew ==
  /\ edits \in Nat /\ exe \in 0..edits /\ compared \in 0..edits
  /\ refresher["compare"] = "comparing" => snap["compare"].exe \in 1..edits
  /\ linking => /\ exe = 0 /\ compared < edits
                /\ refresher["compare"] = "comparing" => snap["compare"].exe < edits
\* One process writes the README; what it took under the lock is what holds when it writes,
\* or a comparison that will write after it, or a check, is not done.
ReadmeInv ==
  /\ VersionsAreNew
  /\ \A r, s \in Refreshers : refresher[r] \in Holding /\ refresher[s] \in Holding => r = s
  /\ ReadmeIsCurrent
  /\ Compared /\ refresher["compare"] \in {"idle", "scored"} =>
       \A r \in Refreshers : refresher[r] = "scored" => snap[r].exe = exe
  /\ refresher["compare"] # "locked"
  /\ refresher["bank"] = "locked" /\ Passed => snap["bank"].scores = report
  /\ \A i \in Images : /\ refresher[i] = "locked" => snap[i].scores = report
                       /\ refresher[i] = "scored" => readme.scores = report

\* docs/build-system.md on `kf bank`: it refuses stale reports and dirty build inputs, so a
\* banked score is the score of the input it is banked under.
BankedScoreIsOfItsInput ==
  \A u \in Units : ledger[u] # None =>
    LET in == ledger[u].input
    IN ledger[u].pct = Percent[[src |-> in.src, header |-> in.header, compiler |-> Compiler[in.tool]]]
==============================================================================
