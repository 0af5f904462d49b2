---------------------------- MODULE WorkbenchProofs ----------------------------
(***************************************************************************)
(* Theorems about the workbench for any units, images, versions and        *)
(* toolchains and any number of edits, builds and banks: what ninja calls  *)
(* clean is current, a bank records scores of the objects on disk, and the *)
(* README is that of the last report.                                      *)
(*                                                                         *)
(* The graph is used through what it makes due (the lemmas of the first    *)
(* section); of an edge that runs only that it takes itself off the list.  *)
(***************************************************************************)
EXTENDS Workbench, TLAPS

-----------------------------------------------------------------------------
(* The graph.                                                              *)

\* What a compiler writes is no absent file.
Object == [src : Versions, header : 0..1, compiler : Nat]
LEMMA ConstantTypes ==
    /\ ImageOf \in [Units -> Images] /\ Images \cap {"bank", "compare"} = {} /\ Goals \subseteq SUBSET Images
    /\ Includes \in [Versions -> BOOLEAN] /\ Compiler \in [Tools -> Nat]
    /\ 0 \in Versions /\ 0 \in Tools /\ None \notin Object
  BY WorkbenchAssumption DEF WorkbenchAssumption, Object

\* The edges by name.
LEMMA EdgeNames ==
    /\ Configure \in Edges /\ E("project", None) \in Edges /\ E("report", None) \in Edges
    /\ \A u \in Units : E("compile", u) \in Edges
    /\ \A i \in Images : E("delink", i) \in Edges /\ E("check", i) \in Edges
  BY DEF Edges

\* No two names are of one edge.
LEMMA EdgesDiffer ==
    /\ \A r, o : E(r, o).rule = r /\ E(r, o).of = o
    /\ \A r, o, q, p : E(r, o) = E(q, p) <=> r = q /\ o = p
    /\ Configure.rule = "configure"
  BY DEF E, Configure

\* An edge reads a file when one of its inputs is that file.
LEMMA ReadsFile ==
    ASSUME NEW e \in Edges, NEW file, file \in Deps(e)
    PROVE  e \in Reading({file})
  BY DEF Reading

\* What an edit of a source makes due.
LEMMA SourceReaders ==
    ASSUME NEW u \in Units
    PROVE  /\ Configure \in Reading({<<"src", u>>})
           /\ E("compile", u) \in Reading({<<"src", u>>})
           /\ E("delink", ImageOf[u]) \in Reading({<<"src", u>>})
  <1>1. <<"src", u>> \in Deps(Configure)
    BY EdgesDiffer DEF Deps, Scanned
  <1>2. <<"src", u>> \in Deps(E("compile", u))
    BY EdgesDiffer DEF Deps
  <1>3. ImageOf[u] \in Images /\ <<"src", u>> \in Deps(E("delink", ImageOf[u]))
    BY EdgesDiffer, ConstantTypes DEF Deps, UnitsOf
  <1> QED
    BY <1>1, <1>2, <1>3, EdgeNames, ReadsFile

\* An edit of the header makes due what is known to include it.
LEMMA HeaderReaders ==
    ASSUME NEW u \in Units, graph[u]
    PROVE  E("compile", u) \in Reading({<<"header", None>>})
  <1>1. <<"header", None>> \in Deps(E("compile", u))
    BY EdgesDiffer DEF Deps
  <1> QED
    BY <1>1, EdgeNames, ReadsFile

\* Another toolchain makes due all objects and the report.
LEMMA ToolReaders ==
    /\ \A u \in Units : E("compile", u) \in Reading({<<"toolId", None>>})
    /\ E("report", None) \in Reading({<<"toolId", None>>})
  <1>1. \A u \in Units : <<"toolId", None>> \in Deps(E("compile", u))
    BY EdgesDiffer DEF Deps
  <1>2. <<"toolId", None>> \in Deps(E("report", None))
    BY EdgesDiffer DEF Deps
  <1> QED
    BY <1>1, <1>2, EdgeNames, ReadsFile

\* What the outputs of the edges make due.
LEMMA OutputReaders ==
    /\ \A u \in Units : /\ E("project", None) \in Reading({<<"obj", u>>})
                        /\ E("report", None) \in Reading({<<"obj", u>>})
    /\ \A i \in Images : E("report", None) \in Reading({<<"stamp", i>>})
    /\ E("report", None) \in Reading({<<"project", None>>})
    /\ \A i \in Images : /\ E("check", i) \in Reading({<<"report", None>>})
                         /\ E("check", i) \in Reading({<<"ledger", None>>})
  <1>1. \A u \in Units : <<"obj", u>> \in Deps(E("project", None)) /\ <<"obj", u>> \in Deps(E("report", None))
    BY EdgesDiffer DEF Deps, ProjectInputs
  <1>2. \A i \in Images : <<"stamp", i>> \in Deps(E("report", None))
    BY EdgesDiffer DEF Deps, ProjectInputs
  <1>3. <<"project", None>> \in Deps(E("report", None))
    BY EdgesDiffer DEF Deps
  <1>4. \A i \in Images : <<"report", None>> \in Deps(E("check", i)) /\ <<"ledger", None>> \in Deps(E("check", i))
    BY EdgesDiffer DEF Deps
  <1> QED
    BY <1>1, <1>2, <1>3, <1>4, EdgeNames, ReadsFile

LEMMA ReadersAreEdges == \A files : Reading(files) \subseteq Edges
  BY DEF Reading

\* What is wanted of what is due: all but the generator and the checks of other images.
LEMMA WantedEdges ==
    ASSUME NEW edges
    PROVE  /\ Wanted(edges) \subseteq edges
           /\ \A e \in edges : e # Configure /\ e.rule # "check" => e \in Wanted(edges)
  BY DEF Wanted

\* The object a compiler makes now.
LEMMA CodeIsObject ==
    ASSUME TypeOK, NEW u \in Units
    PROVE  CodeOf(u) \in Object
  BY ConstantTypes DEF TypeOK, CodeOf, Object

-----------------------------------------------------------------------------
(* Types.                                                                  *)

\* An edge that ran is off both lists, its readers are on them, nothing else leaves them.
LEMMA RanLists ==
    ASSUME TypeOK, NEW e, NEW files, Ran(e, files)
    PROVE  /\ dirty' \subseteq Edges /\ plan' \subseteq dirty'
           /\ dirty \ {e} \subseteq dirty' /\ plan \ {e} \subseteq plan'
           /\ Reading(files) \subseteq dirty' /\ Wanted(Reading(files)) \subseteq plan'
           /\ \A f \in dirty' : f \in dirty \ {e} \/ f \in Reading(files)
           /\ \A f \in plan' : f \in plan \ {e} \/ f \in Reading(files)
  BY ReadersAreEdges, WantedEdges DEF Ran, TypeOK

\* The generator takes only itself off the list.
LEMMA EmitLists ==
    ASSUME TypeOK, Emit
    PROVE  /\ dirty' \subseteq Edges /\ dirty \ {Configure} \subseteq dirty'
           /\ graph' = Headers /\ toolId' = tool
           /\ toolId # tool => Reading({<<"toolId", None>>}) \ {Configure} \subseteq dirty'
           /\ \A u \in older : Headers[u] => E("compile", u) \in dirty'
  <1>1. \A u \in Units : E("compile", u) # Configure /\ E("compile", u) \in Edges
    BY EdgesDiffer, EdgeNames
  <1> QED
    BY <1>1, ReadersAreEdges DEF Emit, TypeOK

LEMMA HeadersType ==
    ASSUME TypeOK
    PROVE  Headers \in [Units -> BOOLEAN]
  BY ConstantTypes DEF TypeOK, Headers

LEMMA EditorTypes ==
    ASSUME TypeOK, Editor
    PROVE  TypeOK'
  <1> USE ReadersAreEdges DEF TypeOK, tree, outputs, ninja, docs
  <1>1. ASSUME NEW u \in Units, NEW v \in Versions, EditSource(u, v)
        PROVE  TypeOK'
    BY <1>1 DEF EditSource, Edited
  <1>2. CASE EditHeader
    BY <1>2 DEF EditHeader, Edited
  <1>3. CASE Stage
    BY <1>3 DEF Stage
  <1>4. CASE LinkExecutables \/ EndLink
    BY <1>4 DEF LinkExecutables, EndLink, Edited
  <1>5. ASSUME NEW t \in Tools, ChangeTools(t)
        PROVE  TypeOK'
    BY <1>5 DEF ChangeTools, Edited
  <1> QED
    BY <1>1, <1>2, <1>3, <1>4, <1>5 DEF Editor

LEMMA NinjaTypes ==
    ASSUME TypeOK, NinjaStep
    PROVE  TypeOK'
  <1>1. CASE Regenerate
    <2>1. graph' \in [Units -> BOOLEAN] /\ toolId' \in Tools \cup {None} /\ dirty' \subseteq Edges
      BY <1>1, EmitLists, HeadersType DEF Regenerate, TypeOK
    <2>2. plan = {} /\ plan' = {}
      BY <1>1 DEF Regenerate, TypeOK, ninja
    <2> QED
      BY <1>1, <2>1, <2>2 DEF Regenerate, TypeOK, tree, ninja, docs
  <1>2. CASE Load
    BY <1>2, WantedEdges DEF Load, TypeOK, tree, outputs, docs
  <1>3. CASE EdgeProject
    <2>1. Ran(E("project", None), IF project' = project THEN {} ELSE {<<"project", None>>})
      BY <1>3 DEF EdgeProject
    <2>2. dirty' \subseteq Edges /\ plan' \subseteq dirty'
      BY <2>1, RanLists
    <2> QED
      BY <1>3, <2>1, <2>2 DEF EdgeProject, Ready, Ran, TypeOK, tree, docs
  <1>4. CASE EdgeReport
    <2>1. Ran(E("report", None), {<<"report", None>>})
      BY <1>4 DEF EdgeReport
    <2>2. dirty' \subseteq Edges /\ plan' \subseteq dirty'
      BY <2>1, RanLists
    <2> QED
      BY <1>4, <2>1, <2>2 DEF EdgeReport, Ready, Ran, TypeOK, tree, docs
  <1>5. CASE Finish
    BY <1>5 DEF Finish, TypeOK, tree, outputs, docs
  <1>6. ASSUME NEW i \in Images, EdgeDelink(i)
        PROVE  TypeOK'
    <2>1. Ran(E("delink", i), IF stamp' = stamp THEN {} ELSE {<<"stamp", i>>})
      BY <1>6 DEF EdgeDelink
    <2>2. dirty' \subseteq Edges /\ plan' \subseteq dirty'
      BY <2>1, RanLists
    <2> QED
      BY <1>6, <2>1, <2>2 DEF EdgeDelink, Ready, Ran, TypeOK, tree, docs
  <1>7. ASSUME NEW i \in Images, BeginCheck(i)
        PROVE  TypeOK'
    BY <1>7 DEF BeginCheck, TypeOK, tree, outputs, ninja, Refreshers
  <1>8. ASSUME NEW i \in Images, EndCheck(i)
        PROVE  TypeOK'
    <2>1. refresher' \in [Refreshers -> {"idle", "comparing", "waiting", "locked", "scored", "cut"}]
          /\ DOMAIN snap' = Refreshers /\ DOMAIN judged' = Images
      BY <1>8 DEF EndCheck, WriteExecutables, Turn, TypeOK, Refreshers
    <2> QED
      BY <1>8, <2>1 DEF EndCheck, TypeOK, tree, outputs
  <1>9. ASSUME NEW u \in Units, EdgeCompile(u)
        PROVE  TypeOK'
    <2>1. CASE Failed(E("compile", u))
      BY <2>1 DEF Failed, TypeOK, tree, outputs, docs
    <2>2. CASE ~Failed(E("compile", u))
      <3>1. Ran(E("compile", u), IF obj' = obj THEN {} ELSE {<<"obj", u>>})
        BY <1>9, <2>2 DEF EdgeCompile
      <3>2. dirty' \subseteq Edges /\ plan' \subseteq dirty'
        BY <3>1, RanLists
      <3>3. obj' = [obj EXCEPT ![u] = CodeOf(u)] /\ CodeOf(u) \in Object
        BY <1>9, <2>2, CodeIsObject DEF EdgeCompile
      <3>4. ImageOf[u] \in Images
        BY ConstantTypes
      <3> QED
        BY <1>9, <2>2, <3>1, <3>2, <3>3, <3>4 DEF EdgeCompile, Ready, Ran, TypeOK, Object, tree, docs
    <2> QED
      BY <2>1, <2>2
  <1> QED
    BY <1>1, <1>2, <1>3, <1>4, <1>5, <1>6, <1>7, <1>8, <1>9 DEF NinjaStep, NinjaStep

LEMMA OtherTypes ==
    ASSUME TypeOK
    PROVE  /\ Refresh => TypeOK'
           /\ Interrupt => TypeOK'
           /\ \A images \in SUBSET Images : Start(images) => TypeOK'
           /\ \A s : Bank(s) => TypeOK'
           /\ StartCompare => TypeOK'
           /\ \A r \in Commands : Kill(r) => TypeOK'
           /\ UNCHANGED vars => TypeOK'
  <1>1. ASSUME Refresh
        PROVE  TypeOK'
    <2>1. ASSUME NEW r \in Refreshers, Lock(r)
          PROVE  TypeOK'
      BY <2>1 DEF Lock, TakeExecutables, Turn, TypeOK, tree, outputs, ninja
    <2>2. ASSUME NEW r \in Refreshers, WriteScores(r)
          PROVE  TypeOK'
      BY <2>2 DEF WriteScores, TakeExecutables, Turn, TypeOK, tree, outputs, ninja
    <2>3. ASSUME NEW r \in Commands, EndRefresh(r)
          PROVE  TypeOK'
      BY <2>3 DEF Commands, EndRefresh, WriteExecutables, Turn, TypeOK, tree, outputs, ninja, Refreshers
    <2>4. CASE WriteComparison
      BY <2>4 DEF WriteComparison, Turn, TypeOK, tree, outputs, ninja, Refreshers
    <2> QED
      BY <1>1, <2>1, <2>2, <2>3, <2>4 DEF Refresh
  <1>2. ASSUME Interrupt
        PROVE  TypeOK'
    BY <1>2 DEF Interrupt, TypeOK, tree, outputs
  <1>3. ASSUME NEW images \in SUBSET Images, Start(images)
        PROVE  TypeOK'
    <2>1. graph' \in [Units -> BOOLEAN] /\ toolId' \in Tools \cup {None} /\ dirty' \subseteq Edges
      BY <1>3, EmitLists, HeadersType DEF Start, TypeOK
    <2> QED
      BY <1>3, <2>1 DEF Start, TypeOK, tree, docs
  <1>4. ASSUME NEW s, Bank(s)
        PROVE  TypeOK'
    BY <1>4, ReadersAreEdges DEF Bank, TypeOK, tree, outputs, ninja, Refreshers
  <1>5. ASSUME UNCHANGED vars
        PROVE  TypeOK'
    BY <1>5 DEF vars, TypeOK, tree, outputs, ninja, docs
  <1>6. ASSUME StartCompare
        PROVE  TypeOK'
    BY <1>6 DEF StartCompare, Turn, TypeOK, tree, outputs, ninja, Refreshers
  <1>7. ASSUME NEW r \in Commands, Kill(r)
        PROVE  TypeOK'
    BY <1>7 DEF Commands, Kill, Turn, TypeOK, tree, outputs, ninja, Refreshers
  <1> QED
    BY <1>1, <1>2, <1>3, <1>4, <1>5, <1>6, <1>7

\* Each step keeps the types.
LEMMA TypeStep == TypeOK /\ [Next]_vars => TypeOK'
  BY EditorTypes, NinjaTypes, OtherTypes, ConstantTypes DEF Next

LEMMA TypeInit == Init => TypeOK
  <1> SUFFICES ASSUME Init PROVE TypeOK
    OBVIOUS
  <1> QED
    BY ConstantTypes DEF Init, TypeOK, Refreshers, Object

-----------------------------------------------------------------------------
(* What is not due is current.                                             *)

\* Steps that leave inputs, outputs and the graph alone and take only checks off the list.
LEMMA Undisturbed ==
    ASSUME EdgesAreDue, \A e \in dirty : e.rule = "check" \/ e \in dirty',
           UNCHANGED <<src, header, graph, toolId, older, stamp, obj, project, report>>
    PROVE  EdgesAreDue'
  <1>1. \A r, o : r # "check" /\ E(r, o) \in dirty => E(r, o) \in dirty'
    BY EdgesDiffer
  <1>2. Configure \in dirty => Configure \in dirty'
    BY EdgesDiffer
  <1>3. /\ Headers' = Headers /\ Compiled' = Compiled
        /\ \A u : CodeBy(u, toolId)' = CodeBy(u, toolId)
        /\ \A i : ClaimsOf(i)' = ClaimsOf(i)
    BY DEF Headers, Compiled, CodeBy, ClaimsOf, UnitsOf
  <1> QED
    BY <1>1, <1>2, <1>3 DEF EdgesAreDue

\* Running the generator makes due what its news makes stale.
LEMMA EmitKeepsDue ==
    ASSUME TypeOK, EdgesAreDue, Emit, UNCHANGED <<src, header, older, stamp, obj, project, report>>
    PROVE  EdgesAreDue'
  <1>1. \A r, o : r # "configure" /\ E(r, o) \in dirty => E(r, o) \in dirty'
    BY EmitLists, EdgesDiffer DEF Configure
  <1>2. CASE toolId # tool
    <2>1. E("report", None) # Configure /\ \A u : E("compile", u) # Configure
      BY EdgesDiffer
    <2>2. E("report", None) \in dirty' /\ \A u \in Units : E("compile", u) \in dirty'
      BY <1>2, <2>1, EmitLists, ToolReaders
    <2> QED
      BY <1>1, <2>2, EmitLists DEF EdgesAreDue, Headers, Compiled, ClaimsOf, UnitsOf
  <1>3. CASE toolId = tool
    BY <1>1, <1>3, EmitLists DEF EdgesAreDue, Headers, Compiled, ClaimsOf, UnitsOf, CodeBy
  <1> QED
    BY <1>2, <1>3

\* An edited source is due for the generator, its compiler and its delinker.
LEMMA SourceKeepsDue ==
    ASSUME TypeOK, EdgesAreDue, NEW u \in Units, NEW v \in Versions, EditSource(u, v)
    PROVE  EdgesAreDue'
  <1>1. /\ dirty \subseteq dirty' /\ Configure \in dirty' /\ E("compile", u) \in dirty'
        /\ E("delink", ImageOf[u]) \in dirty'
    BY SourceReaders DEF EditSource, Edited
  <1>2. UNCHANGED <<header, graph, toolId, older, stamp, obj, project, report>>
    BY DEF EditSource, outputs
  <1>3. \A w \in Units \ {u} : src'[w] = src[w]
    BY DEF EditSource, TypeOK
  <1>4. \A w \in Units \ {u} : CodeBy(w, toolId)' = CodeBy(w, toolId) /\ Headers'[w] = Headers[w]
    BY <1>2, <1>3 DEF CodeBy, Headers
  <1>5. \A i \in Images \ {ImageOf[u]} : ClaimsOf(i)' = ClaimsOf(i)
    BY <1>3 DEF ClaimsOf, UnitsOf
  <1>6. Compiled' = Compiled
    BY <1>2 DEF Compiled
  <1> QED
    BY <1>1, <1>2, <1>4, <1>5, <1>6 DEF EdgesAreDue

\* An edited header is due where the graph knows of it, and its units are older than it.
LEMMA HeaderKeepsDue ==
    ASSUME TypeOK, EdgesAreDue, EditHeader
    PROVE  EdgesAreDue'
  <1>1. dirty \subseteq dirty' /\ \A u \in Units : graph[u] => E("compile", u) \in dirty'
    BY HeaderReaders DEF EditHeader, Edited
  <1>2. UNCHANGED <<src, graph, toolId, stamp, obj, project, report>> /\ older' = Units
    BY DEF EditHeader
  <1>3. \A u \in Units : ~Includes[src[u]] => CodeBy(u, toolId)' = CodeBy(u, toolId)
    BY <1>2 DEF CodeBy
  <1>4. Headers' = Headers /\ Compiled' = Compiled /\ \A i : ClaimsOf(i)' = ClaimsOf(i)
    BY <1>2 DEF Headers, Compiled, ClaimsOf, UnitsOf
  <1>5. ASSUME NEW u \in Units
        PROVE  \/ E("compile", u) \in dirty'
               \/ obj'[u] = CodeBy(u, toolId)'
               \/ u \in older' /\ Headers'[u] /\ ~graph'[u]
    <2>1. Headers[u] = Includes[src[u]]
      BY DEF Headers
    <2> QED
      BY <1>1, <1>2, <1>3, <1>4, <2>1 DEF EdgesAreDue
  <1> QED
    BY <1>1, <1>2, <1>4, <1>5 DEF EdgesAreDue

LEMMA DelinkKeepsDue ==
    ASSUME TypeOK, EdgesAreDue, NEW i \in Images, EdgeDelink(i)
    PROVE  EdgesAreDue'
  <1> DEFINE files == IF stamp' = stamp THEN {} ELSE {<<"stamp", i>>}
  <1>1. Ran(E("delink", i), files) /\ UNCHANGED <<src, header, graph, toolId, older, obj, project, report>>
    BY DEF EdgeDelink, Ran, tree
  <1>2. dirty \ {E("delink", i)} \subseteq dirty' /\ Reading(files) \subseteq dirty'
    BY <1>1, RanLists
  <1>3. \A r, o : E(r, o) \in dirty /\ (r # "delink" \/ o # i) => E(r, o) \in dirty'
    BY <1>2, EdgesDiffer
  <1>4. Configure \in dirty => Configure \in dirty'
    BY <1>2, EdgesDiffer
  <1>5. stamp'[i] = ClaimsOf(i) /\ \A j \in Images \ {i} : stamp'[j] = stamp[j]
    BY DEF EdgeDelink, TypeOK
  <1>6. stamp' = stamp \/ E("report", None) \in dirty'
    BY <1>2, OutputReaders
  <1>7. /\ Headers' = Headers /\ Compiled' = Compiled
        /\ \A u : CodeBy(u, toolId)' = CodeBy(u, toolId)
        /\ \A j : ClaimsOf(j)' = ClaimsOf(j)
    BY <1>1 DEF Headers, Compiled, CodeBy, ClaimsOf, UnitsOf
  <1> QED
    BY <1>1, <1>3, <1>4, <1>5, <1>6, <1>7 DEF EdgesAreDue

LEMMA CompileKeepsDue ==
    ASSUME TypeOK, EdgesAreDue, PlanIsWhole, NEW u \in Units, EdgeCompile(u),
           ~Failed(E("compile", u))
    PROVE  EdgesAreDue'
  <1> DEFINE files == IF obj' = obj THEN {} ELSE {<<"obj", u>>}
  <1>1. Ran(E("compile", u), files) /\ UNCHANGED <<src, header, graph, toolId, stamp, project, report>>
    BY DEF EdgeCompile, Ran, tree
  <1>2. dirty \ {E("compile", u)} \subseteq dirty' /\ Reading(files) \subseteq dirty'
    BY <1>1, RanLists
  <1>3. \A r, o : E(r, o) \in dirty /\ (r # "compile" \/ o # u) => E(r, o) \in dirty'
    BY <1>2, EdgesDiffer
  <1>4. Configure \in dirty => Configure \in dirty'
    BY <1>2, EdgesDiffer
  <1>5. /\ obj'[u] = CodeOf(u) /\ \A w \in Units \ {u} : obj'[w] = obj[w]
        /\ older' = older \ {u}
    BY DEF EdgeCompile, TypeOK
  <1>6. toolId = tool
    <2>1. build = "running"
      BY DEF EdgeCompile, Ready
    <2> QED
      BY <2>1 DEF PlanIsWhole
  <1>7. obj'[u] = CodeBy(u, toolId)
    BY <1>5, <1>6 DEF CodeOf, CodeBy
  <1>8. obj' # obj => E("report", None) \in dirty' /\ E("project", None) \in dirty'
    BY <1>2, OutputReaders
  <1>9. /\ Headers' = Headers
        /\ \A w : CodeBy(w, toolId)' = CodeBy(w, toolId)
        /\ \A j : ClaimsOf(j)' = ClaimsOf(j)
    BY <1>1 DEF Headers, CodeBy, ClaimsOf, UnitsOf
  <1>10. u \in Compiled' /\ \A w \in Units \ {u} : w \in Compiled' <=> w \in Compiled
    <2>1. CodeOf(u) # None
      BY CodeIsObject, ConstantTypes
    <2> QED
      BY <1>5, <2>1 DEF Compiled
  <1>11. obj' = obj => Compiled' = Compiled
    BY DEF Compiled
  <1> QED
    BY <1>1, <1>3, <1>4, <1>5, <1>7, <1>8, <1>9, <1>10, <1>11 DEF EdgesAreDue

LEMMA ProjectKeepsDue ==
    ASSUME TypeOK, EdgesAreDue, EdgeProject
    PROVE  EdgesAreDue'
  <1> DEFINE files == IF project' = project THEN {} ELSE {<<"project", None>>}
  <1>1. Ran(E("project", None), files) /\ UNCHANGED <<src, header, graph, toolId, older, stamp, obj, report>>
    BY DEF EdgeProject, Ran, tree
  <1>2. dirty \ {E("project", None)} \subseteq dirty' /\ Reading(files) \subseteq dirty'
    BY <1>1, RanLists
  <1>3. \A r, o : E(r, o) \in dirty /\ r # "project" => E(r, o) \in dirty'
    BY <1>2, EdgesDiffer
  <1>4. Configure \in dirty => Configure \in dirty'
    BY <1>2, EdgesDiffer
  <1>5. project' = Compiled
    BY DEF EdgeProject, Compiled
  <1>6. /\ Headers' = Headers /\ Compiled' = Compiled
        /\ \A u : CodeBy(u, toolId)' = CodeBy(u, toolId)
        /\ \A j : ClaimsOf(j)' = ClaimsOf(j)
    BY <1>1 DEF Headers, Compiled, CodeBy, ClaimsOf, UnitsOf
  <1> QED
    BY <1>1, <1>3, <1>4, <1>5, <1>6 DEF EdgesAreDue

\* A report is written when all objects are made and in the project.
LEMMA ReportIsOfAll ==
    ASSUME PlanIsWhole, Ready(E("report", None)), TypeOK
    PROVE  project = Units /\ Compiled = Units
  <1>1. \A u : Precedes(E("compile", u), E("report", None)) /\ Precedes(E("project", None), E("report", None))
    BY EdgesDiffer DEF Precedes, Rank
  <1> QED
    BY <1>1 DEF Ready, PlanIsWhole, Compiled

LEMMA ReportKeepsDue ==
    ASSUME TypeOK, EdgesAreDue, PlanIsWhole, EdgeReport
    PROVE  EdgesAreDue'
  <1>1. Ran(E("report", None), {<<"report", None>>}) /\ UNCHANGED <<src, header, graph, toolId, older, stamp, obj, project>>
    BY DEF EdgeReport, Ran, tree
  <1>2. dirty \ {E("report", None)} \subseteq dirty'
    BY <1>1, RanLists
  <1>3. \A r, o : E(r, o) \in dirty /\ r # "report" => E(r, o) \in dirty'
    BY <1>2, EdgesDiffer
  <1>4. Configure \in dirty => Configure \in dirty'
    BY <1>2, EdgesDiffer
  <1>5. toolId = tool /\ project = Units
    BY ReportIsOfAll DEF EdgeReport, Ready, PlanIsWhole
  <1>6. report' = [tool |-> toolId, target |-> stamp, code |-> [u \in Units |-> obj[u]]]
    BY <1>5 DEF EdgeReport
  <1>7. /\ Headers' = Headers /\ Compiled' = Compiled
        /\ \A u : CodeBy(u, toolId)' = CodeBy(u, toolId)
        /\ \A j : ClaimsOf(j)' = ClaimsOf(j)
    BY <1>1 DEF Headers, Compiled, CodeBy, ClaimsOf, UnitsOf
  <1> QED
    BY <1>1, <1>3, <1>4, <1>6, <1>7 DEF EdgesAreDue

\* Each step keeps due what is not current.
LEMMA DueStep ==
    ASSUME TypeOK, EdgesAreDue, PlanIsWhole, [Next]_vars
    PROVE  EdgesAreDue'
  <1> USE DEF tree, outputs
  <1>1. CASE Editor
    <2>1. CASE Stage \/ LinkExecutables \/ EndLink \/ \E t \in Tools : ChangeTools(t)
      BY <2>1, Undisturbed DEF Stage, LinkExecutables, EndLink, ChangeTools, Edited
    <2> QED
      BY <1>1, <2>1, SourceKeepsDue, HeaderKeepsDue DEF Editor
  <1>2. CASE NinjaStep
    <2>1. CASE Regenerate
      BY <2>1, EmitKeepsDue DEF Regenerate
    <2>2. CASE Load \/ Finish \/ \E i \in Images : BeginCheck(i)
      BY <2>2, Undisturbed DEF Load, Finish, BeginCheck
    <2>3. ASSUME NEW i \in Images, EndCheck(i)
          PROVE  EdgesAreDue'
      <3>1. \A e \in dirty : e.rule = "check" \/ e \in dirty'
        BY <2>3, EdgesDiffer DEF EndCheck
      <3> QED
        BY <2>3, <3>1, Undisturbed DEF EndCheck
    <2>4. ASSUME NEW u \in Units, EdgeCompile(u)
          PROVE  EdgesAreDue'
      <3>1. CASE Failed(E("compile", u))
        BY <3>1, Undisturbed DEF Failed
      <3> QED
        BY <2>4, <3>1, CompileKeepsDue
    <2> QED
      BY <1>2, <2>1, <2>2, <2>3, <2>4, ProjectKeepsDue, ReportKeepsDue, DelinkKeepsDue DEF NinjaStep
  <1>3. CASE Refresh
    BY <1>3, Undisturbed DEF Refresh, Lock, WriteScores, EndRefresh, WriteComparison
  <1>4. CASE Interrupt \/ StartCompare \/ \E r \in Commands : Kill(r)
    BY <1>4, Undisturbed DEF Interrupt, StartCompare, Kill
  <1>5. ASSUME NEW images, Start(images)
        PROVE  EdgesAreDue'
    BY <1>5, EmitKeepsDue, Undisturbed DEF Start
  <1>6. ASSUME NEW s, Bank(s)
        PROVE  EdgesAreDue'
    BY <1>6, Undisturbed DEF Bank
  <1>7. CASE UNCHANGED vars
    BY <1>7, Undisturbed DEF vars
  <1> QED
    BY <1>1, <1>2, <1>3, <1>4, <1>5, <1>6, <1>7 DEF Next

\* An edge that ran leaves in the plan what is still to be made.
LEMMA RanKeepsWhole ==
    ASSUME TypeOK, PlanIsWhole, NEW r, NEW o, r \notin {"compile", "project"},
           NEW files, Ran(E(r, o), files), UNCHANGED <<obj, project>>
    PROVE  PlanIsWhole'
  <1>1. \A q, p : E(q, p) \in plan /\ q # r => E(q, p) \in plan'
    BY RanLists, EdgesDiffer
  <1>2. Configure \notin plan'
    BY DEF Ran, PlanIsWhole, Wanted
  <1>3. Compiled' = Compiled /\ UNCHANGED <<build, toolId, tool>>
    BY DEF Compiled, Ran, tree
  <1> QED
    BY <1>1, <1>2, <1>3 DEF PlanIsWhole

LEMMA CompileKeepsWhole ==
    ASSUME TypeOK, PlanIsWhole, NEW u \in Units, EdgeCompile(u), ~Failed(E("compile", u))
    PROVE  PlanIsWhole'
  <1> DEFINE files == IF obj' = obj THEN {} ELSE {<<"obj", u>>}
  <1>1. Ran(E("compile", u), files) /\ UNCHANGED project
    BY DEF EdgeCompile
  <1>2. plan \ {E("compile", u)} \subseteq plan' /\ Wanted(Reading(files)) \subseteq plan'
    BY <1>1, RanLists
  <1>3. \A q, p : E(q, p) \in plan /\ (q # "compile" \/ p # u) => E(q, p) \in plan'
    BY <1>2, EdgesDiffer
  <1>4. Configure \notin plan' /\ UNCHANGED <<build, toolId, tool>>
    BY <1>1 DEF Ran, PlanIsWhole, Wanted, tree
  <1>5. obj'[u] = CodeOf(u) /\ \A w \in Units \ {u} : obj'[w] = obj[w]
    BY DEF EdgeCompile, TypeOK
  <1>6. u \in Compiled' /\ \A w \in Units \ {u} : w \in Compiled' <=> w \in Compiled
    BY <1>5, CodeIsObject, ConstantTypes DEF Compiled
  <1>7. obj' = obj => Compiled' = Compiled
    BY DEF Compiled
  <1>8. obj' # obj => E("project", None) \in plan'
    <2>1. E("project", None) # Configure /\ E("project", None).rule # "check"
      BY EdgesDiffer
    <2>2. E("project", None) \in Wanted(Reading({<<"obj", u>>}))
      BY <2>1, OutputReaders, WantedEdges
    <2> QED
      BY <1>2, <2>2
  <1> QED
    BY <1>1, <1>3, <1>4, <1>6, <1>7, <1>8 DEF PlanIsWhole

LEMMA ProjectKeepsWhole ==
    ASSUME TypeOK, PlanIsWhole, EdgeProject
    PROVE  PlanIsWhole'
  <1> DEFINE files == IF project' = project THEN {} ELSE {<<"project", None>>}
  <1>1. Ran(E("project", None), files) /\ UNCHANGED obj
    BY DEF EdgeProject
  <1>2. \A q, p : E(q, p) \in plan /\ q # "project" => E(q, p) \in plan'
    BY <1>1, RanLists, EdgesDiffer
  <1>3. Configure \notin plan' /\ UNCHANGED <<build, toolId, tool>>
    BY <1>1 DEF Ran, PlanIsWhole, Wanted, tree
  <1>4. Compiled' = Compiled /\ project' = Compiled
    BY <1>1 DEF Compiled, EdgeProject
  <1> QED
    BY <1>2, <1>3, <1>4 DEF PlanIsWhole

\* Ninja plans what is due when it loads the graph, and by then what is not made is due.
LEMMA LoadIsWhole ==
    ASSUME TypeOK, EdgesAreDue, PlanIsWhole, Load
    PROVE  PlanIsWhole'
  <1>1. /\ E("project", None) # Configure /\ E("project", None).rule # "check"
        /\ \A u : E("compile", u) # Configure /\ E("compile", u).rule # "check"
    BY EdgesDiffer
  <1>2. /\ E("project", None) \in dirty => E("project", None) \in plan'
        /\ \A u : E("compile", u) \in dirty => E("compile", u) \in plan'
        /\ Configure \notin plan'
    BY <1>1, WantedEdges DEF Load
  <1>3. Compiled' = Compiled /\ UNCHANGED <<toolId, tool, project>> /\ toolId = tool
    BY DEF Load, Compiled, tree, outputs, PlanIsWhole
  <1> QED
    BY <1>2, <1>3 DEF PlanIsWhole, EdgesAreDue

\* Each step leaves a running ninja a plan that makes what is missing.
LEMMA WholeStep ==
    ASSUME TypeOK, EdgesAreDue, PlanIsWhole, ChecksRunLast, [Next]_vars
    PROVE  PlanIsWhole'
  <1> USE DEF tree, outputs, ninja
  <1>1. CASE Editor
    BY <1>1 DEF Editor, EditSource, EditHeader, Stage, LinkExecutables, EndLink, ChangeTools, Edited, PlanIsWhole, Compiled
  <1>2. CASE NinjaStep
    <2>1. CASE Regenerate
      BY <2>1 DEF Regenerate, Emit, PlanIsWhole
    <2>2. CASE Load
      BY <2>2, LoadIsWhole
    <2>3. CASE EdgeProject
      BY <2>3, ProjectKeepsWhole
    <2>4. CASE EdgeReport
      BY <2>4, RanKeepsWhole DEF EdgeReport
    <2>5. CASE Finish
      BY <2>5 DEF Finish, PlanIsWhole
    <2>6. ASSUME NEW i \in Images, EdgeDelink(i)
          PROVE  PlanIsWhole'
      BY <2>6, RanKeepsWhole DEF EdgeDelink
    <2>7. ASSUME NEW i \in Images, BeginCheck(i)
          PROVE  PlanIsWhole'
      BY <2>7 DEF BeginCheck, PlanIsWhole, Compiled
    <2>8. ASSUME NEW i \in Images, EndCheck(i)
          PROVE  PlanIsWhole'
      <3>1. \A r, o : r # "check" => E(r, o) # E("check", i)
        BY EdgesDiffer
      <3>2. build # "idle" /\ Configure # E("check", i)
        BY <2>8, EdgesDiffer DEF EndCheck, WriteExecutables, ChecksRunLast, Checking, Configure
      <3> QED
        BY <2>8, <3>1, <3>2 DEF EndCheck, PlanIsWhole, Compiled
    <2>9. ASSUME NEW u \in Units, EdgeCompile(u)
          PROVE  PlanIsWhole'
      <3>1. CASE Failed(E("compile", u))
        BY <2>9, <3>1 DEF EdgeCompile, Ready, Failed, PlanIsWhole
      <3> QED
        BY <2>9, <3>1, CompileKeepsWhole
    <2> QED
      BY <1>2, <2>1, <2>2, <2>3, <2>4, <2>5, <2>6, <2>7, <2>8, <2>9 DEF NinjaStep
  <1>3. CASE Refresh
    BY <1>3 DEF Refresh, Lock, WriteScores, EndRefresh, WriteComparison, PlanIsWhole, Compiled
  <1>4. CASE Interrupt
    BY <1>4 DEF Interrupt, PlanIsWhole
  <1>8. CASE StartCompare \/ \E r \in Commands : Kill(r)
    BY <1>8 DEF StartCompare, Kill, PlanIsWhole, Compiled
  <1>5. ASSUME NEW images, Start(images)
        PROVE  PlanIsWhole'
    BY <1>5 DEF Start, Emit, PlanIsWhole
  <1>6. ASSUME NEW s, Bank(s)
        PROVE  PlanIsWhole'
    BY <1>6 DEF Bank, PlanIsWhole, Compiled
  <1>7. CASE UNCHANGED vars
    BY <1>7 DEF vars, PlanIsWhole, Compiled
  <1> QED
    BY <1>1, <1>2, <1>3, <1>4, <1>5, <1>6, <1>7, <1>8 DEF Next

-----------------------------------------------------------------------------
(* Checks run last.                                                        *)

\* An edge that is no check runs only when no check is in progress.
LEMMA EdgesBeforeChecks ==
    ASSUME ChecksRunLast, NEW r, NEW o, r # "check", Ready(E(r, o))
    PROVE  ~Checking
  BY EdgesDiffer DEF ChecksRunLast, Ready

\* A check that starts finds only checks in the plan.
LEMMA CheckIsLast ==
    ASSUME TypeOK, PlanIsWhole, NEW i \in Images, Ready(E("check", i))
    PROVE  \A e \in plan : e.rule = "check"
  <1> SUFFICES ASSUME NEW e \in plan PROVE e.rule = "check"
    OBVIOUS
  <1>1. e \in Edges /\ e # Configure
    BY DEF TypeOK, PlanIsWhole
  <1>2. Rank(E("check", i)) = 5 /\ E("check", i).rule # "compile"
    BY EdgesDiffer DEF Rank
  <1>3. Rank(e) \in Nat => ~(Rank(e) < 5)
    BY <1>2 DEF Ready, Precedes
  <1> QED
    BY <1>1, <1>3, EdgesDiffer DEF Edges, Rank

\* Each step keeps checks last.
LEMMA ChecksStep ==
    ASSUME TypeOK, PlanIsWhole, ChecksRunLast, [Next]_vars
    PROVE  ChecksRunLast'
  <1> USE DEF tree, outputs, ninja, docs
  <1>1. CASE Editor
    <2>1. \A i \in Images : refresher'[i] = refresher[i]
      BY <1>1, ConstantTypes DEF Editor, EditSource, EditHeader, Stage, LinkExecutables, EndLink, ChangeTools,
                                 TypeOK, Refreshers
    <2>2. UNCHANGED <<build, plan>>
      BY <1>1 DEF Editor, EditSource, EditHeader, Stage, LinkExecutables, EndLink, ChangeTools
    <2> QED
      BY <2>1, <2>2 DEF ChecksRunLast, Checking
  <1>2. CASE NinjaStep
    <2>1. CASE Regenerate
      BY <2>1 DEF Regenerate, ChecksRunLast, Checking
    <2>2. CASE Load
      BY <2>2 DEF Load, ChecksRunLast, Checking
    <2>3. CASE EdgeProject
      BY <2>3, EdgesBeforeChecks DEF EdgeProject, Ran, ChecksRunLast, Checking
    <2>4. CASE EdgeReport
      BY <2>4, EdgesBeforeChecks DEF EdgeReport, Ran, ChecksRunLast, Checking
    <2>5. CASE Finish
      BY <2>5 DEF Finish, ChecksRunLast, Checking
    <2>6. ASSUME NEW i \in Images, EdgeDelink(i)
          PROVE  ChecksRunLast'
      BY <2>6, EdgesBeforeChecks DEF EdgeDelink, Ran, ChecksRunLast, Checking
    <2>7. ASSUME NEW i \in Images, BeginCheck(i)
          PROVE  ChecksRunLast'
      BY <2>7, CheckIsLast DEF BeginCheck, Ready, ChecksRunLast
    <2>8. ASSUME NEW i \in Images, EndCheck(i)
          PROVE  ChecksRunLast'
      <3>1. Checking
        BY <2>8 DEF EndCheck, WriteExecutables, Checking
      <3> QED
        BY <2>8, <3>1 DEF EndCheck, ChecksRunLast
    <2>9. ASSUME NEW u \in Units, EdgeCompile(u)
          PROVE  ChecksRunLast'
      BY <2>9, EdgesBeforeChecks DEF EdgeCompile, Failed, Ran, ChecksRunLast, Checking
    <2> QED
      BY <1>2, <2>1, <2>2, <2>3, <2>4, <2>5, <2>6, <2>7, <2>8, <2>9 DEF NinjaStep
  <1>3. CASE Refresh
    <2>1. Checking' => Checking
      BY <1>3, ConstantTypes DEF Refresh, Lock, WriteScores, EndRefresh, WriteExecutables, WriteComparison,
                                 TakeExecutables, Turn, Checking, TypeOK, Refreshers, Commands
    <2> QED
      BY <1>3, <2>1 DEF Refresh, Lock, WriteScores, EndRefresh, WriteComparison, ChecksRunLast
  <1>4. CASE Interrupt
    BY <1>4 DEF Interrupt, ChecksRunLast, Checking, Refreshers
  <1>8. CASE StartCompare \/ \E r \in Commands : Kill(r)
    <2>1. Checking' => Checking
      BY <1>8, ConstantTypes DEF StartCompare, Kill, Turn, Checking, TypeOK, Refreshers, Commands
    <2> QED
      BY <1>8, <2>1 DEF StartCompare, Kill, ChecksRunLast
  <1>5. ASSUME NEW images, Start(images)
        PROVE  ChecksRunLast'
    BY <1>5 DEF Start, ChecksRunLast, Checking
  <1>6. ASSUME NEW s, Bank(s)
        PROVE  ChecksRunLast'
    BY <1>6, ConstantTypes DEF Bank, ChecksRunLast, Checking, TypeOK, Refreshers
  <1>7. CASE UNCHANGED vars
    BY <1>7 DEF vars, ChecksRunLast, Checking
  <1> QED
    BY <1>1, <1>2, <1>3, <1>4, <1>5, <1>6, <1>7, <1>8 DEF Next

-----------------------------------------------------------------------------
(* A fresh checkout, and the theorem.                                      *)

LEMMA BuildInit == Init => BuildInv
  <1> SUFFICES ASSUME Init PROVE BuildInv
    OBVIOUS
  <1>1. TypeOK
    BY TypeInit
  <1>2. EdgesAreDue
    BY EdgeNames DEF Init, EdgesAreDue, Compiled
  <1>3. PlanIsWhole /\ ChecksRunLast
    BY DEF Init, PlanIsWhole, ChecksRunLast, Checking, Refreshers
  <1> QED
    BY <1>1, <1>2, <1>3 DEF BuildInv

LEMMA BuildStep == BuildInv /\ [Next]_vars => BuildInv'
  BY TypeStep, DueStep, WholeStep, ChecksStep DEF BuildInv

\* What is not due is current, whatever was edited, built, interrupted or failed before:
\* the inductive invariant of the workbench (graph.emit, and ninja as it reads it).
THEOREM BuildInvariant == Spec => []BuildInv
  BY BuildInit, BuildStep, PTL DEF Spec

\* What ninja would not run again is right, once the generator has nothing to run for and
\* the toolchain is the graph's.
THEOREM CleanIsCurrent == Spec => []CleanMeansCurrent
  <1>1. BuildInv => CleanMeansCurrent
    <2> SUFFICES ASSUME BuildInv, Configure \notin dirty, toolId = tool
                 PROVE  /\ \A u \in Units : E("compile", u) \in dirty \/ obj[u] = CodeOf(u)
                        /\ \A i \in Images : E("delink", i) \in dirty \/ stamp[i] = ClaimsOf(i)
                        /\ E("report", None) \in dirty
                           \/ report = [tool |-> tool, target |-> stamp, code |-> [u \in Units |-> obj[u]]]
      BY DEF CleanMeansCurrent
    <2>1. \A u \in Units : CodeBy(u, toolId) = CodeOf(u)
      BY DEF CodeBy, CodeOf
    <2> QED
      BY <2>1 DEF BuildInv, EdgesAreDue
  <1> QED
    BY <1>1, BuildInvariant, PTL

-----------------------------------------------------------------------------
(* Banked scores.                                                          *)

\* A compiled object is newer than the report, or what it was.
LEMMA CompileAgrees ==
    ASSUME TypeOK, ReportAgrees, NEW u \in Units, EdgeCompile(u), ~Failed(E("compile", u))
    PROVE  ReportAgrees'
  <1>1. UNCHANGED <<project, report>>
    BY DEF EdgeCompile
  <1>2. obj'[u] = CodeOf(u) /\ \A w \in Units \ {u} : obj'[w] = obj[w]
    BY DEF EdgeCompile, TypeOK
  <1>3. u \in Compiled' /\ \A w \in Units \ {u} : w \in Compiled' <=> w \in Compiled
    BY <1>2, CodeIsObject, ConstantTypes DEF Compiled
  <1>4. newer \subseteq newer' /\ (obj' = obj \/ ImageOf[u] \in newer')
    BY DEF EdgeCompile
  <1>5. Compiled \subseteq Units
    BY DEF Compiled
  <1> QED
    BY <1>1, <1>2, <1>3, <1>4, <1>5 DEF ReportAgrees

\* What the report says of a unit stays what is on disk, unless its image has newer files.
LEMMA AgreeStep ==
    ASSUME TypeOK, ReportAgrees, [Next]_vars
    PROVE  ReportAgrees'
  <1> USE DEF tree, outputs
  <1>1. CASE UNCHANGED <<obj, project, report, newer>>
    BY <1>1 DEF ReportAgrees, Compiled
  <1>2. CASE Editor
    BY <1>1, <1>2 DEF Editor, EditSource, EditHeader, Stage, LinkExecutables, EndLink, ChangeTools
  <1>3. CASE NinjaStep
    <2>1. CASE EdgeProject
      BY <2>1 DEF EdgeProject, ReportAgrees, Compiled, TypeOK
    <2>2. CASE EdgeReport
      BY <2>2 DEF EdgeReport, ReportAgrees, Compiled
    <2>3. ASSUME NEW i \in Images, EdgeDelink(i)
          PROVE  ReportAgrees'
      BY <2>3 DEF EdgeDelink, ReportAgrees, Compiled
    <2>4. ASSUME NEW u \in Units, EdgeCompile(u)
          PROVE  ReportAgrees'
      <3>1. CASE Failed(E("compile", u))
        BY <1>1, <3>1 DEF Failed
      <3> QED
        BY <2>4, <3>1, CompileAgrees
    <2> QED
      BY <1>1, <1>3, <2>1, <2>2, <2>3, <2>4 DEF NinjaStep, Regenerate, Load, Finish, BeginCheck, EndCheck
  <1>4. CASE Refresh \/ Interrupt \/ UNCHANGED vars
    BY <1>1, <1>4 DEF Refresh, Lock, WriteScores, EndRefresh, WriteComparison, Interrupt, vars
  <1>7. CASE StartCompare \/ \E r \in Commands : Kill(r)
    BY <1>1, <1>7 DEF StartCompare, Kill
  <1>5. ASSUME NEW images, Start(images)
        PROVE  ReportAgrees'
    BY <1>1, <1>5 DEF Start
  <1>6. ASSUME NEW s, Bank(s)
        PROVE  ReportAgrees'
    BY <1>1, <1>6 DEF Bank
  <1> QED
    BY <1>2, <1>3, <1>4, <1>5, <1>6, <1>7 DEF Next

\* A bank that is accepted takes its scores from the objects on disk.
LEMMA AcceptedScores ==
    ASSUME ReportAgrees, NEW s, Accepted(s), NEW u \in Units, u \in Scored
    PROVE  report.code[u] = obj[u]
  <1>1. report # None /\ u \in DOMAIN report.code
    BY DEF Scored
  <1>2. u \in Compiled /\ (ImageOf[u] \in newer \/ report.code[u] = obj[u])
    BY <1>1 DEF ReportAgrees
  <1>3. ImageOf[u] \in Images /\ u \in UnitsOf(ImageOf[u]) /\ obj[u] # None
    BY <1>2, ConstantTypes DEF UnitsOf, Compiled
  <1>4. ImageOf[u] \notin newer
    BY <1>3 DEF Accepted, Failures, Stale
  <1> QED
    BY <1>2, <1>4

LEMMA BankStep ==
    ASSUME ReportAgrees, [Next]_vars, NEW u \in Units
    PROVE  ledger'[u] \in {ledger[u], None} \/ ledger'[u].pct = Percent[obj[u]]
  <1>1. CASE ledger' = ledger
    BY <1>1
  <1>2. ASSUME NEW s, Bank(s)
        PROVE  ledger'[u] \in {ledger[u], None} \/ ledger'[u].pct = Percent[obj[u]]
    <2>1. u \in Scored => BankRecord(u).pct = Percent[obj[u]]
      BY <1>2, AcceptedScores DEF Bank, BankRecord, Pct
    <2>2. s \subseteq Scored /\ ledger' = BankRows(s)
      BY <1>2 DEF Bank, Accepted
    <2> QED
      BY <2>1, <2>2 DEF BankRows
  <1>3. ASSUME Editor \/ NinjaStep
        PROVE  ledger' = ledger
    BY <1>3 DEF Editor, EditSource, EditHeader, Stage, LinkExecutables, EndLink, ChangeTools,
                NinjaStep, Regenerate, Load, EdgeProject, EdgeReport, Finish, EdgeDelink, BeginCheck,
                EndCheck, EdgeCompile, Failed, Ran
  <1>4. ASSUME Refresh \/ Interrupt \/ UNCHANGED vars
        PROVE  ledger' = ledger
    BY <1>4 DEF Refresh, Lock, WriteScores, EndRefresh, WriteComparison, Interrupt, vars
  <1>6. ASSUME StartCompare \/ \E r \in Commands : Kill(r)
        PROVE  ledger' = ledger
    BY <1>6 DEF StartCompare, Kill
  <1>5. ASSUME NEW images, Start(images)
        PROVE  ledger' = ledger
    BY <1>5 DEF Start
  <1> QED
    BY <1>1, <1>2, <1>3, <1>4, <1>5, <1>6 DEF Next

\* No bank records a score other than that of the object on disk, whatever build was
\* interrupted or failed before it, and whichever unit it was run for.
THEOREM BankIsOfObjects == Spec => BankMatchesObjects
  <1>1. Init => ReportAgrees
    BY DEF Init, ReportAgrees, Compiled
  <1>2. TypeOK /\ ReportAgrees /\ [Next]_vars => ReportAgrees'
    BY AgreeStep
  <1>3. ReportAgrees /\ [Next]_vars =>
          \A u \in Units : ledger'[u] \in {ledger[u], None} \/ ledger'[u].pct = Percent[obj[u]]
    BY BankStep
  <1>4. BuildInv => TypeOK
    BY DEF BuildInv
  <1> QED
    BY <1>1, <1>2, <1>3, <1>4, BuildInvariant, PTL DEF Spec, BankMatchesObjects

-----------------------------------------------------------------------------
(* The README.                                                             *)

LEMMA RefresherNames ==
    /\ Images \subseteq Refreshers /\ "bank" \in Refreshers /\ "compare" \in Refreshers
    /\ "bank" \notin Images /\ "compare" \notin Images /\ "bank" # "compare"
    /\ Commands = {"bank", "compare"}
    /\ \A r \in Refreshers : r \in Images \/ r = "bank" \/ r = "compare"
  BY ConstantTypes DEF Refreshers, Commands

\* Who turns to another state, and that nobody else does.
LEMMA Turned ==
    ASSUME TypeOK, NEW w \in Refreshers, NEW state, NEW taken, Turn(w, state, taken)
    PROVE  /\ refresher'[w] = state /\ snap'[w] = taken
           /\ \A r \in Refreshers : r # w => refresher'[r] = refresher[r] /\ snap'[r] = snap[r]
  BY DEF Turn, TypeOK

\* Checks do not come off the list in a step that is no check.
LEMMA StillFailed ==
    ASSUME \A e \in dirty : e.rule # "check" \/ e \in dirty'
    PROVE  Passed' => Passed
  BY EdgesDiffer DEF Passed

\* Steps of those who touch neither the README nor the executables.
LEMMA ReadmeUndisturbed ==
    ASSUME ReadmeInv, Passed' => Passed, UNCHANGED <<report, link, docs>>,
           edits' = edits \/ edits' = edits + 1
    PROVE  ReadmeInv'
  <1>1. VersionsAreNew'
    BY DEF ReadmeInv, VersionsAreNew, link, docs
  <1>2. ReadmeIsCurrent' /\ (Compared' <=> Compared)
    BY DEF ReadmeInv, ReadmeIsCurrent, Told, Compared, link, docs
  <1>3. UNCHANGED <<report, refresher, snap, readme, exe>>
    BY DEF link, docs
  <1> QED
    BY <1>1, <1>2, <1>3 DEF ReadmeInv

\* A check or a bank waits to rewrite it.
LEMMA AnotherWaits ==
    ASSUME TypeOK, ReadmeInv, Passed' => Passed, NEW w \in Images \cup {"bank"},
           refresher' = [refresher EXCEPT ![w] = "waiting"],
           UNCHANGED <<report, link, snap, readme, edits>>
    PROVE  ReadmeInv'
  <1>1. /\ w \in Refreshers /\ w # "compare" /\ refresher'[w] = "waiting"
        /\ \A r \in Refreshers : r # w => refresher'[r] = refresher[r]
    BY RefresherNames DEF TypeOK
  <1>2. refresher'["compare"] = refresher["compare"]
    BY <1>1, RefresherNames
  <1>3. VersionsAreNew'
    BY <1>2 DEF ReadmeInv, VersionsAreNew, link
  <1>4. ReadmeIsCurrent' /\ (Compared' <=> Compared)
    BY <1>2 DEF ReadmeInv, ReadmeIsCurrent, Told, Compared, link
  <1>5. \A r \in Refreshers : \/ refresher'[r] = "waiting" /\ r # "compare"
                              \/ refresher'[r] = refresher[r]
    BY <1>1
  <1>6. UNCHANGED <<report, snap, readme, exe>>
    BY DEF link
  <1> QED
    BY <1>2, <1>3, <1>4, <1>5, <1>6, RefresherNames DEF ReadmeInv, Holding

\* A removed executable is no longer shown by anything that must be right.
LEMMA LinkKeeps ==
    ASSUME ReadmeInv, LinkExecutables
    PROVE  ReadmeInv'
  <1>1. /\ exe' = 0 /\ compared' = 0 /\ edits' = edits + 1
        /\ UNCHANGED <<report, refresher, snap, readme>> /\ (Passed' => Passed)
    BY StillFailed DEF LinkExecutables, Edited, outputs, docs
  <1>2. VersionsAreNew' /\ ~Compared'
    BY <1>1 DEF ReadmeInv, VersionsAreNew, Compared
  <1> QED
    BY <1>1, <1>2 DEF ReadmeInv, ReadmeIsCurrent, Told

\* What a link leaves is no executable, or one that no comparison is of.
LEMMA EndLinkKeeps ==
    ASSUME ReadmeInv, EndLink
    PROVE  ReadmeInv'
  <1>1. /\ linking /\ ~linking' /\ exe' \in {0, edits} /\ UNCHANGED <<compared, edits>>
        /\ UNCHANGED <<report, refresher, snap, readme>> /\ (Passed' => Passed)
    BY DEF EndLink, outputs, docs, Passed
  <1>2. VersionsAreNew' /\ ~Compared'
    BY <1>1 DEF ReadmeInv, VersionsAreNew, Compared
  <1> QED
    BY <1>1, <1>2 DEF ReadmeInv, ReadmeIsCurrent, Told

\* A comparison reads the executable there is.
LEMMA StartCompareKeeps ==
    ASSUME TypeOK, ReadmeInv, StartCompare
    PROVE  ReadmeInv'
  <1>1. /\ refresher'["compare"] = "comparing" /\ snap'["compare"].exe = exe /\ exe # 0
        /\ \A r \in Refreshers : r # "compare" => refresher'[r] = refresher[r] /\ snap'[r] = snap[r]
    BY Turned, RefresherNames DEF StartCompare
  <1>2. UNCHANGED <<report, exe, linking, compared, readme, edits>> /\ (Passed' => Passed)
    BY DEF StartCompare, link, outputs, Passed
  <1>3. VersionsAreNew'
    BY <1>1, <1>2 DEF ReadmeInv, VersionsAreNew
  <1>4. ReadmeIsCurrent' /\ refresher'["compare"] \notin {"idle", "scored"}
    BY <1>1, <1>2 DEF ReadmeInv, ReadmeIsCurrent, Told
  <1>5. \A r \in Refreshers : refresher'[r] \in Holding => r # "compare" /\ refresher[r] \in Holding
    BY <1>1 DEF Holding
  <1> QED
    BY <1>1, <1>2, <1>3, <1>4, <1>5, RefresherNames DEF ReadmeInv

\* Until the comparison has refreshed it, nothing is promised of the executable it is of.
LEMMA WriteComparisonKeeps ==
    ASSUME TypeOK, ReadmeInv, WriteComparison
    PROVE  ReadmeInv'
  <1>1. /\ refresher["compare"] = "comparing" /\ refresher'["compare"] = "waiting"
        /\ compared' = snap["compare"].exe
        /\ \A r \in Refreshers : r # "compare" => refresher'[r] = refresher[r] /\ snap'[r] = snap[r]
    BY Turned, RefresherNames DEF WriteComparison
  <1>2. UNCHANGED <<report, exe, linking, readme, edits>> /\ (Passed' => Passed)
    BY DEF WriteComparison, outputs, Passed
  <1>3. VersionsAreNew'
    BY <1>1, <1>2 DEF ReadmeInv, VersionsAreNew
  <1>4. ReadmeIsCurrent' /\ refresher'["compare"] \notin {"idle", "scored"}
    BY <1>1, <1>2 DEF ReadmeInv, ReadmeIsCurrent, Told
  <1>5. \A r \in Refreshers : refresher'[r] \in Holding => r # "compare" /\ refresher[r] \in Holding
    BY <1>1 DEF Holding
  <1> QED
    BY <1>1, <1>2, <1>3, <1>4, <1>5, RefresherNames DEF ReadmeInv

\* What is taken of the executables is the one on disk when the comparison is of it.
LEMMA ShownWhenCompared == Compared => Shown = exe
  BY DEF Compared, Shown

\* The lock gives one process the scores, or the executables, of its time.
LEMMA LockKeeps ==
    ASSUME TypeOK, ReadmeInv, NEW w \in Refreshers, Lock(w)
    PROVE  ReadmeInv'
  <1>1. /\ refresher[w] = "waiting" /\ \A r \in Refreshers : refresher[r] \notin Holding
        /\ UNCHANGED <<report, exe, linking, compared, readme, edits>> /\ (Passed' => Passed)
    BY DEF Lock, Free, link, outputs, Passed
  <1>2. /\ refresher'[w] \in Holding
        /\ w = "compare" => refresher'[w] = "scored" /\ snap'[w].exe = Shown
        /\ w # "compare" => refresher'[w] = "locked" /\ snap'[w].scores = report
        /\ \A r \in Refreshers : r # w => refresher'[r] = refresher[r] /\ snap'[r] = snap[r]
    BY Turned DEF Lock, TakeExecutables, Holding
  <1>3. \A r \in Refreshers : refresher'[r] \in Holding => r = w
    BY <1>1, <1>2
  <1>4. VersionsAreNew' /\ ReadmeIsCurrent' /\ (Compared' <=> Compared)
    BY <1>1, <1>2, RefresherNames DEF ReadmeInv, VersionsAreNew, ReadmeIsCurrent, Told, Compared
  <1>5. \A r \in Refreshers : refresher'[r] = "scored" /\ Compared' => snap'[r].exe = exe'
    BY <1>1, <1>2, <1>3, <1>4, ShownWhenCompared DEF Holding
  <1> QED
    BY <1>1, <1>2, <1>3, <1>4, <1>5, RefresherNames DEF ReadmeInv, Holding

\* The scores are written under the lock, and the executables taken after them.
LEMMA ScoresKeep ==
    ASSUME TypeOK, ReadmeInv, NEW w \in Refreshers, w # "compare", WriteScores(w)
    PROVE  ReadmeInv'
  <1>1. /\ refresher[w] = "locked" /\ readme'.scores = snap[w].scores /\ readme'.exe = readme.exe
        /\ UNCHANGED <<report, exe, linking, compared, edits>> /\ (Passed' => Passed)
    BY DEF WriteScores, link, outputs, Passed
  <1>2. /\ refresher'[w] = "scored" /\ snap'[w].exe = Shown
        /\ \A r \in Refreshers : r # w => refresher'[r] = refresher[r] /\ snap'[r] = snap[r]
    BY Turned DEF WriteScores, TakeExecutables
  <1>3. \A r \in Refreshers : refresher'[r] \in Holding => r = w
    BY <1>1, <1>2 DEF ReadmeInv, Holding
  <1>4. refresher'["compare"] = refresher["compare"] /\ (Compared' <=> Compared)
    BY <1>1, <1>2, RefresherNames DEF Compared
  <1>5. Passed => snap[w].scores = report
    BY <1>1, RefresherNames DEF ReadmeInv
  <1>6. VersionsAreNew' /\ ReadmeIsCurrent'
    BY <1>1, <1>2, <1>4, <1>5, RefresherNames DEF ReadmeInv, VersionsAreNew, ReadmeIsCurrent, Told
  <1>7. \A r \in Refreshers : refresher'[r] = "scored" /\ Compared' => snap'[r].exe = exe'
    BY <1>1, <1>2, <1>3, <1>4, ShownWhenCompared DEF Holding
  <1>8. w \in Images => readme'.scores = report'
    BY <1>1 DEF ReadmeInv
  <1> QED
    BY <1>2, <1>3, <1>6, <1>7, <1>8, RefresherNames DEF ReadmeInv, Holding

\* Who writes the executables writes what holds, and nobody else is at it.
LEMMA WriteKeeps ==
    ASSUME TypeOK, ReadmeInv, NEW w \in Refreshers, WriteExecutables(w),
           UNCHANGED <<report, link, edits>>, w \in Images \/ (Passed' => Passed)
    PROVE  ReadmeInv'
  <1>1. /\ refresher[w] = "scored" /\ readme'.exe = snap[w].exe /\ readme'.scores = readme.scores
        /\ refresher'[w] = "idle"
        /\ \A r \in Refreshers : r # w => refresher'[r] = refresher[r] /\ snap'[r] = snap[r]
    BY Turned DEF WriteExecutables
  <1>2. \A r \in Refreshers : refresher'[r] \notin Holding
    BY <1>1 DEF ReadmeInv, Holding
  <1>3. UNCHANGED <<exe, linking, compared>> /\ (Compared' <=> Compared)
    BY DEF link, Compared
  <1>4. VersionsAreNew'
    BY <1>1, <1>3, RefresherNames DEF ReadmeInv, VersionsAreNew
  <1>5. Told' => readme'.exe = exe'
    BY <1>1, <1>3, RefresherNames DEF ReadmeInv, Told
  <1>6. Passed' => readme'.scores = report'
    BY <1>1 DEF ReadmeInv, ReadmeIsCurrent
  <1> QED
    BY <1>2, <1>4, <1>5, <1>6, RefresherNames DEF ReadmeInv, ReadmeIsCurrent, Holding

\* A killed comparison promises nothing; a killed bank leaves what the README shows.
LEMMA KillKeeps ==
    ASSUME TypeOK, ReadmeInv, NEW w \in Commands, Kill(w)
    PROVE  ReadmeInv'
  <1>1. w \in Refreshers
    BY RefresherNames
  <1>2. /\ refresher'[w] = IF w = "compare" THEN "cut" ELSE "idle"
        /\ \A r \in Refreshers : r # w => refresher'[r] = refresher[r] /\ snap'[r] = snap[r]
    BY <1>1, Turned DEF Kill
  <1>3. /\ UNCHANGED <<report, exe, linking, compared, readme, edits>> /\ (Passed' => Passed)
        /\ (Compared' <=> Compared)
    BY DEF Kill, link, outputs, Passed, Compared
  <1>4. refresher'["compare"] = "cut" \/ /\ refresher'["compare"] = refresher["compare"]
                                         /\ snap'["compare"] = snap["compare"]
    BY <1>2, RefresherNames
  <1>5. \A r \in Refreshers : refresher'[r] \in Holding => refresher'[r] = refresher[r] /\ snap'[r] = snap[r]
    BY <1>2 DEF Holding
  <1>6. VersionsAreNew' /\ ReadmeIsCurrent'
    BY <1>3, <1>4 DEF ReadmeInv, VersionsAreNew, ReadmeIsCurrent, Told
  <1> QED
    BY <1>3, <1>4, <1>5, <1>6, RefresherNames DEF ReadmeInv, Holding

\* Ctrl-C takes the checks away.
LEMMA InterruptKeeps ==
    ASSUME TypeOK, ReadmeInv, Interrupt
    PROVE  ReadmeInv'
  <1>1. /\ \A i \in Images : refresher'[i] = "idle"
        /\ \A r \in Commands : refresher'[r] = refresher[r] /\ snap'[r] = snap[r]
    BY RefresherNames DEF Interrupt
  <1>2. /\ UNCHANGED <<report, exe, linking, compared, readme, edits>> /\ (Passed' => Passed)
        /\ (Compared' <=> Compared)
    BY DEF Interrupt, link, outputs, Passed, Compared
  <1>3. \A r \in Refreshers : refresher'[r] \in Holding => refresher'[r] = refresher[r] /\ snap'[r] = snap[r]
    BY <1>1, RefresherNames DEF Holding
  <1>4. VersionsAreNew' /\ ReadmeIsCurrent'
    BY <1>1, <1>2, RefresherNames DEF ReadmeInv, VersionsAreNew, ReadmeIsCurrent, Told
  <1> QED
    BY <1>1, <1>2, <1>3, <1>4, RefresherNames DEF ReadmeInv, Holding

\* A new report is shown by no README and held by no check, and every check is due.
LEMMA ReportKeeps ==
    ASSUME TypeOK, ReadmeInv, ChecksRunLast, EdgeReport
    PROVE  ReadmeInv'
  <1>1. UNCHANGED <<link, docs, edits>>
    BY DEF EdgeReport, Ran
  <1>2. ~Passed'
    <2>1. Ran(E("report", None), {<<"report", None>>})
      BY DEF EdgeReport
    <2> QED
      BY <2>1, RanLists, OutputReaders DEF Passed
  <1>3. \A i \in Images : refresher'[i] = "idle"
    BY <1>1, EdgesBeforeChecks DEF EdgeReport, Checking, docs
  <1>4. VersionsAreNew' /\ ReadmeIsCurrent' /\ (Compared' <=> Compared)
    BY <1>1, <1>2 DEF ReadmeInv, VersionsAreNew, ReadmeIsCurrent, Told, Compared, link, docs
  <1>5. UNCHANGED <<refresher, snap, readme, exe>>
    BY <1>1 DEF link, docs
  <1> QED
    BY <1>2, <1>3, <1>4, <1>5 DEF ReadmeInv, Holding

\* Each step keeps the README the report's and the executables'.
LEMMA ReadmeStep ==
    ASSUME BuildInv, ReadmeInv, [Next]_vars
    PROVE  ReadmeInv'
  <1> USE DEF BuildInv, tree, outputs
  <1>1. CASE Editor
    <2>1. CASE \/ \E u \in Units, v \in Versions : EditSource(u, v)
               \/ EditHeader \/ Stage \/ \E t \in Tools : ChangeTools(t)
      <3>1. dirty \subseteq dirty' /\ (edits' = edits \/ edits' = edits + 1)
        BY <2>1 DEF EditSource, EditHeader, Stage, ChangeTools, Edited
      <3>2. UNCHANGED <<report, link, docs>>
        BY <2>1 DEF EditSource, EditHeader, Stage, ChangeTools
      <3> QED
        BY <3>1, <3>2, StillFailed, ReadmeUndisturbed
    <2> QED
      BY <1>1, <2>1, LinkKeeps, EndLinkKeeps DEF Editor
  <1>2. CASE NinjaStep
    <2>1. CASE Regenerate
      <3>1. Passed' => Passed
        BY <2>1, EmitLists, StillFailed, EdgesDiffer DEF Regenerate
      <3> QED
        BY <2>1, <3>1, ReadmeUndisturbed DEF Regenerate
    <2>2. CASE Load \/ Finish
      BY <2>2, StillFailed, ReadmeUndisturbed DEF Load, Finish
    <2>3. ASSUME NEW r, NEW o, NEW files, r # "check", Ran(E(r, o), files), report' = report
          PROVE  ReadmeInv'
      <3>1. Passed' => Passed
        BY <2>3, RanLists, StillFailed, EdgesDiffer
      <3> QED
        BY <2>3, <3>1, ReadmeUndisturbed DEF Ran
    <2>4. CASE EdgeProject
      BY <2>3, <2>4 DEF EdgeProject
    <2>5. CASE EdgeReport
      BY <2>5, ReportKeeps
    <2>6. ASSUME NEW i \in Images, EdgeDelink(i)
          PROVE  ReadmeInv'
      BY <2>3, <2>6 DEF EdgeDelink
    <2>7. ASSUME NEW i \in Images, BeginCheck(i)
          PROVE  ReadmeInv'
      BY <2>7, AnotherWaits, StillFailed DEF BeginCheck
    <2>8. ASSUME NEW i \in Images, EndCheck(i)
          PROVE  ReadmeInv'
      BY <2>8, WriteKeeps, RefresherNames DEF EndCheck
    <2>9. ASSUME NEW u \in Units, EdgeCompile(u)
          PROVE  ReadmeInv'
      <3>1. CASE Failed(E("compile", u))
        BY <3>1, StillFailed, ReadmeUndisturbed DEF Failed
      <3> QED
        BY <2>3, <2>9, <3>1 DEF EdgeCompile
    <2> QED
      BY <1>2, <2>1, <2>2, <2>4, <2>5, <2>6, <2>7, <2>8, <2>9 DEF NinjaStep
  <1>3. CASE Refresh
    <2>1. ASSUME NEW r \in Refreshers, WriteScores(r)
          PROVE  r # "compare"
      BY <2>1 DEF WriteScores, ReadmeInv
    <2>2. ASSUME NEW r \in Commands, EndRefresh(r)
          PROVE  ReadmeInv'
      BY <2>2, WriteKeeps, StillFailed, RefresherNames DEF EndRefresh
    <2> QED
      BY <1>3, <2>1, <2>2, LockKeeps, ScoresKeep, WriteComparisonKeeps DEF Refresh
  <1>4. CASE Interrupt \/ StartCompare \/ \E r \in Commands : Kill(r)
    BY <1>4, InterruptKeeps, StartCompareKeeps, KillKeeps
  <1>5. ASSUME NEW images, Start(images)
        PROVE  ReadmeInv'
    <2>1. Passed' => Passed
      BY <1>5, EmitLists, StillFailed, EdgesDiffer DEF Start
    <2> QED
      BY <1>5, <2>1, ReadmeUndisturbed DEF Start
  <1>6. ASSUME NEW s, Bank(s)
        PROVE  ReadmeInv'
    <2>1. Passed' => Passed
      BY <1>6, StillFailed DEF Bank
    <2> QED
      BY <1>6, <2>1, AnotherWaits DEF Bank
  <1>7. CASE UNCHANGED vars
    BY <1>7, StillFailed, ReadmeUndisturbed DEF vars
  <1> QED
    BY <1>1, <1>2, <1>3, <1>4, <1>5, <1>6, <1>7 DEF Next

LEMMA ReadmeInit == Init => ReadmeInv
  <1> SUFFICES ASSUME Init PROVE ReadmeInv
    OBVIOUS
  <1>1. ReadmeIsCurrent /\ VersionsAreNew
    BY RefresherNames DEF Init, ReadmeIsCurrent, VersionsAreNew, Told, Compared, Passed
  <1>2. \A r \in Refreshers : refresher[r] = "idle"
    BY DEF Init
  <1> QED
    BY <1>1, <1>2, RefresherNames DEF ReadmeInv, Holding

\* However checks, banks, comparisons and links interleave and whichever is killed, the README
\* shows the executable on disk once a comparison of it has run to its end, and the report's
\* scores once a check of it has passed (the lock of readme.refresh and refresh_executable).
THEOREM ReadmeShowsReport == Spec => []ReadmeIsCurrent
  <1>1. BuildInv /\ ReadmeInv /\ [Next]_vars => ReadmeInv'
    BY ReadmeStep
  <1>2. ReadmeInv => ReadmeIsCurrent
    BY DEF ReadmeInv
  <1> QED
    BY <1>1, <1>2, ReadmeInit, BuildInvariant, PTL DEF Spec

=============================================================================
