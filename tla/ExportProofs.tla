---------------------------- MODULE ExportProofs ----------------------------
(***************************************************************************)
(* Theorems about what the tools put out.  The publication of an export,   *)
(* for any names, texts and commits, any order of kills and any number of  *)
(* edits by people: what was made by hand stays, and a branch that names a *)
(* commit holds all of it.  Then the discs that carry rebuilt programs,    *)
(* for any disc, programs, lengths and sector size: every program is read  *)
(* back through the directory and nothing else has changed.                *)
(***************************************************************************)
EXTENDS Export, Disc, FiniteSetTheorems, SequenceTheorems, WellFoundedInduction, TLAPS

CONSTANTS Names, Contents, Commits, Ignored
VARIABLE workspace

\* No generated text is the one word that stands for what a person wrote.
Texts == Contents \ {Mine}
Projects == UNION {[names -> Texts] : names \in SUBSET Names}
Generations == [Commits \cup {0} -> {<<>>} \cup {<<files>> : files \in Projects}]

\* The names and texts of the projects, and those the model adds to them.
AllNames == Names \cup {<<"master", "c">>, <<"own", "c">>}
AllTexts == Contents \cup {Mine, OneWord("master")}
Files == UNION {[names -> AllTexts] : names \in SUBSET AllNames}
Directories == [there : BOOLEAN, marked : BOOLEAN, git : BOOLEAN, files : Files]
Tips == [there : BOOLEAN, files : Files, kf : BOOLEAN, root : BOOLEAN, source : Int]
Trees == [there : BOOLEAN, files : Files, index : Files]
Jobs == [commit : Int, files : Files, publish : BOOLEAN, tip : Tips, tracked : SUBSET AllNames, new : Tips]
Steps == {"idle", "remove", "rename", "verify", "done", "check", "collide", "retire", "write", "add", "commit", "update"}
Exits == {"none", "refused", "failed", "killed", "written", "published"}
Heads == {c \in Commits \cap Nat : c > 0}
Workspaces ==
  [head : Heads, generated : Generations, out : Directories, tip : Tips, tree : Trees, step : Steps,
   job : Jobs, exit : Exits, mine : [out : Directories, tip : Tips, names : SUBSET AllNames], edits : Nat]

(***************************************************************************)
(* A repository with any projects, in which the branch is missing, a       *)
(* person's, or an earlier export, and has a clean worktree or none.       *)
(***************************************************************************)
Checkout(tip) == [there |-> TRUE, files |-> tip.files, index |-> tip.files]
Init ==
  \E generated \in Generations, tip \in Tips : \E tree \in {NoTree, Checkout(tip)} :
    /\ 1 \in Commits
    /\ tip.there \/ tip = NoTip
    /\ tree.there => tip.there
    /\ tip.kf => /\ tip.source \in Commits /\ tip.source > 0
                 /\ generated[tip.source] = <<tip.files>>
    /\ workspace = Workspace(generated, tip, tree, NoDirectory)
Next == workspace' \in ExportSteps(workspace, Names, Ignored)
Spec == Init /\ [][Next]_workspace

-----------------------------------------------------------------------------
(* The values a workspace is made of.                                      *)

\* The files without one, with one more, and the files of a set of names are files.
LEMMA FilesAreFiles ==
  /\ Empty \in Files
  /\ \A f \in Files : DOMAIN f \subseteq AllNames /\ f \in [DOMAIN f -> AllTexts]
  /\ \A N \in SUBSET AllNames : \A f \in [N -> AllTexts] : f \in Files
  <1>1. \A N \in SUBSET AllNames : \A f \in [N -> AllTexts] : f \in Files
    BY DEF Files
  <1>2. Empty \in [{} -> AllTexts]
    BY DEF Empty
  <1>3. \A f \in Files : DOMAIN f \subseteq AllNames /\ f \in [DOMAIN f -> AllTexts]
    BY DEF Files
  <1> QED
    BY <1>1, <1>2, <1>3

LEMMA ProjectsAreFiles ==
  /\ Projects \subseteq Files
  /\ \A f \in Projects : \A n \in DOMAIN f : f[n] # Mine
  <1>1. ASSUME NEW N \in SUBSET Names, NEW f \in [N -> Texts]
        PROVE  f \in Files /\ \A n \in DOMAIN f : f[n] # Mine
    <2>1. N \in SUBSET AllNames /\ f \in [N -> AllTexts]
      BY DEF AllNames, AllTexts, Texts
    <2> QED
      BY <2>1, FilesAreFiles DEF Texts
  <1> QED
    BY <1>1 DEF Projects

\* What a run publishes is a project.
LEMMA GeneratedIsProject ==
  ASSUME NEW b \in Workspaces, NEW commit, NEW files, IsGenerated(b, commit, files)
  PROVE  files \in Projects /\ files \in Generated(b)
  <1>1. b.generated \in Generations
    BY DEF Workspaces
  <1>2. commit \in DOMAIN b.generated /\ b.generated[commit] # <<>> /\ files = b.generated[commit][1]
    BY DEF IsGenerated
  <1>3. PICK project \in Projects : b.generated[commit] = <<project>>
    BY <1>1, <1>2 DEF Generations
  <1>4. files = project
    BY <1>2, <1>3
  <1> QED
    BY <1>2, <1>3, <1>4 DEF Generated

LEMMA Constants ==
  /\ NoDirectory \in Directories /\ NoTip \in Tips /\ NoTree \in Trees /\ NoJob \in Jobs
  /\ ~NoTip.there /\ ~NoTip.kf /\ ~NoTree.there /\ NoTree.files = Empty /\ NoTree.index = Empty
  /\ ~NoDirectory.there /\ ~NoDirectory.marked /\ NoDirectory.files = Empty /\ DOMAIN Empty = {}
  <1>1. Empty \in Files /\ DOMAIN Empty = {}
    BY FilesAreFiles DEF Empty
  <1>2. Commit(Empty, FALSE, FALSE, -1) \in Tips /\ ~Commit(Empty, FALSE, FALSE, -1).kf
    BY <1>1 DEF Commit, Tips
  <1>3. NoTip \in Tips /\ ~NoTip.there /\ ~NoTip.kf
    BY <1>2 DEF NoTip, Tips
  <1>4. NoJob \in Jobs
    BY <1>1, <1>3 DEF NoJob, Jobs
  <1> QED
    BY <1>1, <1>2, <1>3, <1>4 DEF NoDirectory, Directories, NoTree, Trees

LEMMA SourceCommitIsTip ==
  ASSUME NEW commit \in Int
  PROVE  /\ SourceCommit(commit) \in Tips
         /\ SourceCommit(commit).source = commit /\ ~SourceCommit(commit).kf /\ SourceCommit(commit).there
  <1>1. [n \in {<<"master", "c">>} |-> OneWord("master")] \in Files
    BY FilesAreFiles DEF AllNames, AllTexts
  <1> QED
    BY <1>1 DEF SourceCommit, Commit, Tips

\* A file more.
LEMMA FileWritten ==
  ASSUME NEW f \in Files, NEW n \in AllNames, NEW text \in AllTexts
  PROVE  /\ With(f, n, text) \in Files
         /\ DOMAIN With(f, n, text) = DOMAIN f \cup {n}
         /\ With(f, n, text)[n] = text
         /\ \A m \in DOMAIN f : m # n => With(f, n, text)[m] = f[m]
  <1>1. DOMAIN f \subseteq AllNames /\ f \in [DOMAIN f -> AllTexts]
    BY FilesAreFiles
  <1>2. With(f, n, text) \in [DOMAIN f \cup {n} -> AllTexts]
    BY <1>1 DEF With
  <1> QED
    BY <1>1, <1>2, FilesAreFiles DEF With

\* A file less.
LEMMA FileRemoved ==
  ASSUME NEW f \in Files, NEW n
  PROVE  /\ Without(f, n) \in Files /\ DOMAIN Without(f, n) = DOMAIN f \ {n}
         /\ \A m \in DOMAIN f : m # n => Without(f, n)[m] = f[m]
  <1>1. DOMAIN f \subseteq AllNames /\ f \in [DOMAIN f -> AllTexts]
    BY FilesAreFiles
  <1>2. Without(f, n) \in [DOMAIN f \ {n} -> AllTexts]
    BY <1>1 DEF Without
  <1> QED
    BY <1>1, <1>2, FilesAreFiles DEF Without

-----------------------------------------------------------------------------
(* A run.                                                                  *)

Sound(b) == b \in Workspaces /\ ExportInv(b)
\* The output, the branch and what is known of people are as they were.
SameAround(b, c) ==
  /\ c.head = b.head /\ c.generated = b.generated /\ c.mine = b.mine /\ c.edits = b.edits
SameOut(b, c) == c.out = b.out
SameTip(b, c) == c.tip = b.tip
SameTree(b, c) == c.tree = b.tree
SameJob(b, c) == c.job = b.job

\* A run that ends without a result ends soundly wherever it is.
LEMMA EndsSound ==
  ASSUME NEW b, Sound(b), NEW exit \in {"refused", "failed", "killed"}
  PROVE  Sound(Ends(b, exit))
  <1> DEFINE c == Ends(b, exit)
  <1>1. /\ c \in Workspaces /\ c.step = "idle" /\ c.exit = exit
        /\ SameAround(b, c) /\ SameOut(b, c) /\ SameTip(b, c) /\ SameTree(b, c) /\ SameJob(b, c)
    BY DEF Sound, Ends, Workspaces, Steps, Exits, SameAround, SameOut, SameTip, SameTree, SameJob
  <1> HIDE DEF c
  <1>2. JobIsGenerated(c)
    BY <1>1 DEF JobIsGenerated, Settled
  <1>3. OutputIsKept(c)
    BY <1>1 DEF Sound, ExportInv, OutputIsKept, Settled, Generated, SameAround, SameOut
  <1>4. BranchIsKept(c)
    BY <1>1 DEF Sound, ExportInv, BranchIsKept, Working, IsGenerated, SameAround, SameTip, SameTree
  <1>5. EditsAreKept(c)
    BY <1>1 DEF Sound, ExportInv, EditsAreKept, Working, Writing, SameAround, SameTree
  <1>6. TreeFollows(c)
    BY <1>1 DEF TreeFollows
  <1> QED
    BY <1>1, <1>2, <1>3, <1>4, <1>5, <1>6 DEF Sound, ExportInv, c

LEMMA StartSound ==
  ASSUME NEW b, Sound(b), NEW c \in Start(b)
  PROVE  Sound(c)
  <1>1. b.step = "idle"
    BY DEF Start
  <1>2. PICK r \in Requests(b) : 
          c = IF b.generated[r.commit] = <<>> \/ ~Replaceable(b.out) THEN Ends(b, "refused") ELSE Started(b, r)
    BY <1>1 DEF Start
  <1>3. CASE b.generated[r.commit] = <<>> \/ ~Replaceable(b.out)
    BY <1>2, <1>3, EndsSound
  <1>4. CASE b.generated[r.commit] # <<>> /\ Replaceable(b.out)
    <2>1. /\ b \in Workspaces /\ b.generated \in Generations /\ b.head \in Commits \cap Nat /\ b.head > 0
          /\ ExportInv(b) /\ b.head \in Int
      BY DEF Sound, Workspaces, Heads
    <2>2. /\ r.commit \in Int /\ r.commit \in DOMAIN b.generated /\ r.publish \in BOOLEAN
          /\ r.publish => r.commit > 0
      <3>1. CASE r \in [commit : {b.head}, publish : BOOLEAN]
        BY <2>1, <3>1 DEF Generations
      <3>2. CASE r \in [commit : {0}, publish : {FALSE}]
        <4>1. r.commit = 0 /\ r.publish = FALSE
          BY <3>2
        <4>2. r.commit \in Int /\ r.commit \in DOMAIN b.generated
          BY <2>1, <4>1 DEF Generations
        <4>3. r.publish \in BOOLEAN /\ (r.publish => r.commit > 0)
          BY <4>1, Zenon
        <4> QED
          BY <4>2, <4>3, Zenon
      <3> QED
        BY <3>1, <3>2 DEF Requests
    <2>3. /\ IsGenerated(b, r.commit, b.generated[r.commit][1])
          /\ b.generated[r.commit][1] \in Files
      BY <1>4, <2>1, <2>2, GeneratedIsProject, ProjectsAreFiles DEF IsGenerated
    <2>4. /\ c \in Workspaces /\ c.step \in {"remove", "rename"} /\ c.exit = "none"
          /\ c.job.commit = r.commit /\ c.job.files = b.generated[r.commit][1] /\ c.job.publish = r.publish
          /\ SameAround(b, c) /\ SameOut(b, c) /\ SameTip(b, c) /\ SameTree(b, c)
      <3>1. c = Started(b, r)
        BY <1>2, <1>4
      <3> DEFINE job == [NoJob EXCEPT !.commit = r.commit, !.files = b.generated[r.commit][1], !.publish = r.publish]
      <3>2. job \in Jobs /\ job.commit = r.commit /\ job.files = b.generated[r.commit][1] /\ job.publish = r.publish
        BY <2>2, <2>3, Constants DEF Jobs
      <3> HIDE DEF job
      <3>3. c = [b EXCEPT !.step = IF b.out.there THEN "remove" ELSE "rename", !.exit = "none", !.job = job]
        BY <3>1 DEF Started, job
      <3> QED
        BY <2>1, <3>2, <3>3 DEF Workspaces, Steps, Exits, SameAround, SameOut, SameTip, SameTree
    <2>5. JobIsGenerated(c)
      BY <2>2, <2>3, <2>4 DEF JobIsGenerated, Settled, IsGenerated, SameAround
    <2>6. OutputIsKept(c)
      BY <1>4, <2>1, <2>4 DEF ExportInv, OutputIsKept, Settled, Generated, SameAround, SameOut
    <2>7. BranchIsKept(c)
      BY <2>1, <2>4 DEF ExportInv, BranchIsKept, Working, IsGenerated, SameAround, SameTip, SameTree
    <2>8. EditsAreKept(c)
      BY <2>1, <2>4 DEF ExportInv, EditsAreKept, Working, Writing, SameAround, SameTree
    <2>9. TreeFollows(c)
      BY <2>4 DEF TreeFollows
    <2> QED
      BY <2>4, <2>5, <2>6, <2>7, <2>8, <2>9 DEF Sound, ExportInv
  <1> QED
    BY <1>3, <1>4

\* Taking the old output apart leaves a part of a project, or nothing.
LEMMA RemoveEntrySound ==
  ASSUME NEW b, Sound(b), NEW c \in RemoveEntry(b)
  PROVE  Sound(c)
  <1>1. b.step = "remove" /\ b \in Workspaces /\ b.out \in Directories /\ b.out.files \in Files /\ ExportInv(b)
    BY DEF RemoveEntry, Sound, Workspaces, Directories
  <1>2. /\ c \in Workspaces /\ c.step \in {"remove", "rename"} /\ c.exit = b.exit
        /\ SameAround(b, c) /\ SameTip(b, c) /\ SameTree(b, c) /\ SameJob(b, c)
        /\ c.out.there => b.out.there
        /\ c.out.there => \A n \in DOMAIN c.out.files : n \in DOMAIN b.out.files /\ c.out.files[n] = b.out.files[n]
    <2>1. \/ \E name \in DOMAIN b.out.files : c = [b EXCEPT !.out.files = Without(@, name)]
          \/ c = [b EXCEPT !.out.marked = FALSE]
          \/ c = At([b EXCEPT !.out = NoDirectory], "rename")
      BY <1>1 DEF RemoveEntry
    <2>2. ASSUME NEW name \in DOMAIN b.out.files, c = [b EXCEPT !.out.files = Without(@, name)]
          PROVE  <1>2!:
      <3>1. /\ name \in AllNames /\ Without(b.out.files, name) \in Files
            /\ DOMAIN Without(b.out.files, name) = DOMAIN b.out.files \ {name}
            /\ \A m \in DOMAIN b.out.files : m # name => Without(b.out.files, name)[m] = b.out.files[m]
        BY <1>1, FileRemoved, FilesAreFiles
      <3> DEFINE out == [b.out EXCEPT !.files = Without(b.out.files, name)]
      <3>2. out \in Directories /\ out.there = b.out.there /\ out.files = Without(b.out.files, name)
        BY <1>1, <3>1 DEF Directories
      <3>3. c = [b EXCEPT !.out = out]
        BY <1>1, <2>2 DEF Workspaces, Directories
      <3> HIDE DEF out
      <3>4. /\ c \in Workspaces /\ c.step = b.step /\ c.exit = b.exit /\ c.out = out
            /\ SameAround(b, c) /\ SameTip(b, c) /\ SameTree(b, c) /\ SameJob(b, c)
        BY <1>1, <3>2, <3>3 DEF Workspaces, SameAround, SameTip, SameTree, SameJob
      <3> QED
        BY <1>1, <3>1, <3>2, <3>4
    <2>3. CASE c = [b EXCEPT !.out.marked = FALSE]
      BY <1>1, <2>3 DEF Workspaces, Directories, SameAround, SameTip, SameTree, SameJob
    <2>4. CASE c = At([b EXCEPT !.out = NoDirectory], "rename")
      BY <1>1, <2>4, Constants DEF At, Workspaces, Steps, SameAround, SameTip, SameTree, SameJob
    <2> QED
      BY <2>1, <2>2, <2>3, <2>4
  <1>3. JobIsGenerated(c)
    BY <1>1, <1>2 DEF ExportInv, JobIsGenerated, Settled, IsGenerated, SameAround, SameJob
  <1>4. OutputIsKept(c)
    BY <1>1, <1>2 DEF ExportInv, OutputIsKept, JobIsGenerated, Settled, Generated, PartOf, SameAround
  <1>5. BranchIsKept(c)
    BY <1>1, <1>2 DEF ExportInv, BranchIsKept, Working, IsGenerated, SameAround, SameTip, SameTree
  <1>6. EditsAreKept(c)
    BY <1>1, <1>2 DEF ExportInv, EditsAreKept, Working, Writing, SameAround, SameTree
  <1>7. TreeFollows(c)
    BY <1>1, <1>2 DEF ExportInv, JobIsGenerated, TreeFollows
  <1> QED
    BY <1>2, <1>3, <1>4, <1>5, <1>6, <1>7 DEF Sound, ExportInv

\* The project is in place: it is all of what was generated.
LEMMA RenameOutputSound ==
  ASSUME NEW b, Sound(b), NEW c \in RenameOutput(b)
  PROVE  Sound(c)
  <1>1. b.step = "rename" /\ b \in Workspaces /\ b.job \in Jobs /\ b.job.files \in Files /\ ExportInv(b)
    BY DEF RenameOutput, Sound, Workspaces, Jobs
  <1>2. /\ c \in Workspaces /\ c.step = (IF b.job.publish THEN "verify" ELSE "done") /\ c.exit = b.exit
        /\ SameAround(b, c) /\ SameTip(b, c) /\ SameTree(b, c) /\ SameJob(b, c)
        /\ c.out = Placed(b.job)
    <2>1. c = At([b EXCEPT !.out = Placed(b.job)], IF b.job.publish THEN "verify" ELSE "done")
      BY <1>1 DEF RenameOutput
    <2>2. Placed(b.job) \in Directories
      BY <1>1 DEF Placed, Directories
    <2> QED
      BY <1>1, <2>1, <2>2 DEF At, Workspaces, Steps, SameAround, SameTip, SameTree, SameJob
  <1>3. JobIsGenerated(c)
    BY <1>1, <1>2 DEF ExportInv, JobIsGenerated, Settled, IsGenerated, SameAround, SameJob
  <1>4. OutputIsKept(c)
    <2>1. b.job.files \in Generated(b)
      BY <1>1, GeneratedIsProject DEF ExportInv, JobIsGenerated
    <2>2. b.job.files \in Generated(c) /\ PartOf(b.job.files, b.job.files) /\ c.out.files = b.job.files
      BY <1>2, <2>1 DEF Generated, PartOf, SameAround, Placed
    <2> QED
      BY <1>1, <1>2, <2>2 DEF ExportInv, OutputIsKept, SameAround, SameJob
  <1>5. BranchIsKept(c)
    BY <1>1, <1>2 DEF ExportInv, BranchIsKept, Working, IsGenerated, SameAround, SameTip, SameTree
  <1>6. EditsAreKept(c)
    BY <1>1, <1>2 DEF ExportInv, EditsAreKept, Working, Writing, SameAround, SameTree
  <1>7. TreeFollows(c)
    BY <1>1, <1>2 DEF ExportInv, JobIsGenerated, TreeFollows
  <1> QED
    BY <1>2, <1>3, <1>4, <1>5, <1>6, <1>7 DEF Sound, ExportInv

\* Without a publication the run is over, with one it goes on to the branch.
LEMMA VerifySound ==
  ASSUME NEW b, Sound(b), NEW c \in Verify(b)
  PROVE  Sound(c)
  <1>1. /\ b \in Workspaces /\ ExportInv(b)
        /\ \/ b.step = "done" /\ c = Ends(b, "written")
           \/ b.step = "verify" /\ c = Ends(b, "failed")
           \/ b.step = "verify" /\ c = At(b, "check")
    BY DEF Verify, Sound
  <1>2. CASE c = Ends(b, "failed")
    BY <1>2, EndsSound
  <1>3. CASE \/ b.step = "done" /\ c = Ends(b, "written")
             \/ b.step = "verify" /\ c = At(b, "check")
    <2>1. /\ c \in Workspaces
          /\ \/ b.step = "done" /\ c.step = "idle" /\ c.exit = "written"
             \/ b.step = "verify" /\ c.step = "check" /\ c.exit = b.exit
          /\ SameAround(b, c) /\ SameOut(b, c) /\ SameTip(b, c) /\ SameTree(b, c) /\ SameJob(b, c)
      BY <1>1, <1>3 DEF Ends, At, Workspaces, Steps, Exits, SameAround, SameOut, SameTip, SameTree, SameJob
    <2>2. JobIsGenerated(c)
      BY <1>1, <2>1 DEF ExportInv, JobIsGenerated, Settled, IsGenerated, SameAround, SameJob
    <2>3. OutputIsKept(c)
      BY <1>1, <2>1 DEF ExportInv, OutputIsKept, Settled, Generated, SameAround, SameOut, SameJob
    <2>4. BranchIsKept(c)
      BY <1>1, <2>1 DEF ExportInv, BranchIsKept, Working, IsGenerated, SameAround, SameTip, SameTree
    <2>5. EditsAreKept(c)
      BY <1>1, <2>1 DEF ExportInv, EditsAreKept, Working, Writing, SameAround, SameTree
    <2>6. TreeFollows(c)
      BY <1>1, <2>1 DEF ExportInv, JobIsGenerated, TreeFollows
    <2> QED
      BY <2>1, <2>2, <2>3, <2>4, <2>5, <2>6 DEF Sound, ExportInv
  <1> QED
    BY <1>1, <1>2, <1>3

\* The tip that is read is an earlier export or none, and the worktree is clean or new.
LEMMA CheckBranchSound ==
  ASSUME NEW b, Sound(b), NEW c \in CheckBranch(b, Ignored)
  PROVE  Sound(c)
  <1> DEFINE base == IF b.tip.there THEN b.tip ELSE SourceCommit(b.job.commit)
  <1>1. /\ b.step = "check" /\ b \in Workspaces /\ b.tip \in Tips /\ b.job \in Jobs /\ b.job.commit \in Int
        /\ b.tree \in Trees /\ ExportInv(b)
    BY DEF CheckBranch, Sound, Workspaces, Jobs
  <1>2. \/ c = Ends(b, "refused")
        \/ /\ b.tip.there => b.tip.kf
           /\ b.tree.there /\ ~Dirty(b, Ignored)
           /\ c = At([b EXCEPT !.job.tip = b.tip], "collide")
        \/ /\ b.tip.there => b.tip.kf
           /\ ~b.tree.there
           /\ c = At([b EXCEPT !.job.tip = b.tip, !.tip = base, 
                               !.tree = [there |-> TRUE, files |-> base.files, index |-> base.files]], "collide")
    BY <1>1 DEF CheckBranch
  <1>3. CASE c = Ends(b, "refused")
    BY <1>3, EndsSound
  <1>4. base \in Tips /\ base.there /\ (base.kf => b.tip.there /\ base = b.tip)
    BY <1>1, SourceCommitIsTip
  <1> HIDE DEF base
  <1>5. CASE c # Ends(b, "refused")
    <2>1. b.tip.there => b.tip.kf
      BY <1>2, <1>5
    <2>2. /\ c \in Workspaces /\ c.step = "collide" /\ c.exit = b.exit
          /\ SameAround(b, c) /\ SameOut(b, c)
          /\ c.job.tip = b.tip /\ c.job.files = b.job.files /\ c.job.commit = b.job.commit /\ c.job.publish = b.job.publish
          /\ \/ b.tree.there /\ ~Dirty(b, Ignored) /\ SameTree(b, c) /\ SameTip(b, c)
             \/ ~b.tree.there /\ c.tip = base /\ c.tree = [there |-> TRUE, files |-> base.files, index |-> base.files]
      <3>1. base.files \in Files
        BY <1>4 DEF Tips
      <3>2. [there |-> TRUE, files |-> base.files, index |-> base.files] \in Trees
        BY <3>1 DEF Trees
      <3> DEFINE job == [b.job EXCEPT !.tip = b.tip]
      <3>3. job \in Jobs /\ job.tip = b.tip /\ job.files = b.job.files /\ job.commit = b.job.commit /\ job.publish = b.job.publish
        BY <1>1 DEF Jobs
      <3>4. [b EXCEPT !.job.tip = b.tip] = [b EXCEPT !.job = job]
        BY <1>1 DEF Workspaces
      <3> HIDE DEF job
      <3>5. CASE b.tree.there /\ ~Dirty(b, Ignored) /\ c = At([b EXCEPT !.job.tip = b.tip], "collide")
        BY <1>1, <3>3, <3>4, <3>5 DEF At, Workspaces, Steps, SameAround, SameOut, SameTree, SameTip
      <3>6. CASE /\ ~b.tree.there
                 /\ c = At([b EXCEPT !.job.tip = b.tip, !.tip = base, 
                                     !.tree = [there |-> TRUE, files |-> base.files, index |-> base.files]], "collide")
        <4>1. [b EXCEPT !.job.tip = b.tip, !.tip = base, 
                        !.tree = [there |-> TRUE, files |-> base.files, index |-> base.files]]
              = [b EXCEPT !.job = job, !.tip = base, 
                          !.tree = [there |-> TRUE, files |-> base.files, index |-> base.files]]
          BY <3>4
        <4> QED
          BY <1>1, <1>4, <3>2, <3>3, <3>6, <4>1 DEF At, Workspaces, Steps, SameAround, SameOut
      <3> QED
        BY <1>2, <1>5, <3>5, <3>6
    <2>3. JobIsGenerated(c)
      BY <1>1, <2>2 DEF ExportInv, JobIsGenerated, Settled, IsGenerated, SameAround
    <2>4. OutputIsKept(c)
      BY <1>1, <2>2 DEF ExportInv, OutputIsKept, Settled, Generated, Placed, SameAround, SameOut
    <2>5. BranchIsKept(c)
      <3>1. BranchIsKept(b)
        BY <1>1 DEF ExportInv
      <3>2. CASE b.tree.there /\ ~Dirty(b, Ignored) /\ SameTree(b, c) /\ SameTip(b, c)
        BY <2>1, <2>2, <3>1, <3>2 DEF BranchIsKept, Working, IsGenerated, Dirty, SameAround, SameTip, SameTree
      <3>3. CASE ~b.tree.there /\ c.tip = base /\ c.tree = [there |-> TRUE, files |-> base.files, index |-> base.files]
        BY <1>4, <2>1, <2>2, <3>1, <3>3 DEF BranchIsKept, Working, IsGenerated, SameAround
      <3> QED
        BY <2>2, <3>2, <3>3
    <2>6. EditsAreKept(c)
      <3>1. CASE b.tree.there /\ ~Dirty(b, Ignored) /\ SameTree(b, c) /\ SameTip(b, c)
        <4>1. b.tip.files \in Projects /\ b.tree.index = b.tip.files
          BY <1>1, <2>1, <3>1, GeneratedIsProject DEF ExportInv, BranchIsKept, Dirty
        <4>2. \A n \in DOMAIN b.tree.index : b.tree.files[n] = b.tree.index[n] /\ b.tree.index[n] # Mine
          BY <3>1, <4>1, ProjectsAreFiles DEF Dirty
        <4> QED
          BY <1>1, <2>2, <3>1, <4>2 DEF ExportInv, EditsAreKept, Working, Writing, SameAround, SameTree
      <3>2. CASE ~b.tree.there
        <4>1. c.mine.names = {}
          BY <1>1, <2>2, <3>2 DEF ExportInv, BranchIsKept, SameAround
        <4> QED
          BY <4>1 DEF EditsAreKept
      <3> QED
        BY <2>2, <3>1, <3>2
    <2>7. TreeFollows(c)
      BY <1>1, <2>2 DEF ExportInv, JobIsGenerated, TreeFollows
    <2> QED
      BY <2>2, <2>3, <2>4, <2>5, <2>6, <2>7 DEF Sound, ExportInv
  <1> QED
    BY <1>3, <1>5

\* The export is there already, or nothing of it meets a file that git does not track.
LEMMA CheckFilesSound ==
  ASSUME NEW b, Sound(b), NEW c \in CheckFiles(b)
  PROVE  Sound(c)
  <1>1. b.step = "collide" /\ b \in Workspaces /\ b.tree \in Trees /\ b.job \in Jobs /\ b.tip \in Tips /\ ExportInv(b)
    BY DEF CheckFiles, Sound, Workspaces
  <1>2. \/ c = Ends(b, "refused")
        \/ Same(b) /\ c = Ends(b, "published")
        \/ ~Collides(b) /\ c = At([b EXCEPT !.job.tracked = DOMAIN b.tree.index \ DOMAIN b.job.files], "retire")
    BY <1>1 DEF CheckFiles
  <1>3. CASE c = Ends(b, "refused")
    BY <1>3, EndsSound
  <1>4. CASE Same(b) /\ c = Ends(b, "published")
    <2>1. /\ c \in Workspaces /\ c.step = "idle" /\ c.exit = "published"
          /\ SameAround(b, c) /\ SameOut(b, c) /\ SameTip(b, c) /\ SameTree(b, c) /\ SameJob(b, c)
      BY <1>1, <1>4 DEF Ends, Workspaces, Steps, Exits, SameAround, SameOut, SameTip, SameTree, SameJob
    <2>2. JobIsGenerated(c)
      BY <2>1 DEF JobIsGenerated, Settled
    <2>3. OutputIsKept(c)
      BY <1>1, <2>1 DEF ExportInv, OutputIsKept, Settled, Generated, SameAround, SameOut, SameJob
    <2>4. BranchIsKept(c)
      BY <1>1, <2>1 DEF ExportInv, BranchIsKept, Working, IsGenerated, SameAround, SameTip, SameTree
    <2>5. EditsAreKept(c)
      BY <1>1, <2>1 DEF ExportInv, EditsAreKept, Working, Writing, SameAround, SameTree
    <2>6. TreeFollows(c)
      <3>1. /\ b.tip.kf /\ b.tip.source = b.job.commit /\ b.job.tip.there /\ b.job.tip.root
            /\ DOMAIN b.tree.index = DOMAIN b.job.files
            /\ \A n \in DOMAIN b.job.files : n \in DOMAIN b.tree.files /\ b.tree.files[n] = b.job.files[n]
        BY <1>4 DEF Same
      <3>2. b.tip = b.job.tip /\ b.tree.index = b.tip.files /\ b.tip.files = b.job.files
        BY <1>1, <3>1 DEF ExportInv, BranchIsKept, JobIsGenerated, IsGenerated
      <3>3. b.tip = Commit(b.job.files, TRUE, TRUE, b.job.commit)
        <4>1. b.tip.there = TRUE /\ b.tip.kf = TRUE /\ b.tip.root = TRUE
          BY <1>1, <3>1, <3>2, Zenon DEF Tips
        <4> QED
          BY <1>1, <3>1, <3>2, <4>1 DEF Commit, Tips
      <3> QED
        BY <2>1, <3>1, <3>2, <3>3 DEF TreeFollows, PartOf, SameTip, SameTree, SameJob
    <2> QED
      BY <2>1, <2>2, <2>3, <2>4, <2>5, <2>6 DEF Sound, ExportInv
  <1>5. CASE ~Collides(b) /\ c = At([b EXCEPT !.job.tracked = DOMAIN b.tree.index \ DOMAIN b.job.files], "retire")
    <2>1. /\ c \in Workspaces /\ c.step = "retire" /\ c.exit = b.exit
          /\ SameAround(b, c) /\ SameOut(b, c) /\ SameTip(b, c) /\ SameTree(b, c)
          /\ c.job.tracked = DOMAIN b.tree.index \ DOMAIN b.job.files
          /\ c.job.tip = b.job.tip /\ c.job.files = b.job.files /\ c.job.commit = b.job.commit /\ c.job.publish = b.job.publish
      <3>1. DOMAIN b.tree.index \ DOMAIN b.job.files \subseteq AllNames
        BY <1>1, FilesAreFiles DEF Trees
      <3> QED
        BY <1>1, <1>5, <3>1 DEF At, Workspaces, Jobs, Steps, SameAround, SameOut, SameTip, SameTree
    <2>2. JobIsGenerated(c)
      BY <1>1, <2>1 DEF ExportInv, JobIsGenerated, Settled, IsGenerated, SameAround
    <2>3. OutputIsKept(c)
      BY <1>1, <2>1 DEF ExportInv, OutputIsKept, Settled, Generated, Placed, SameAround, SameOut
    <2>4. BranchIsKept(c)
      BY <1>1, <2>1 DEF ExportInv, BranchIsKept, Working, IsGenerated, SameAround, SameTip, SameTree
    <2>5. EditsAreKept(c)
      BY <1>1, <1>5, <2>1 DEF ExportInv, EditsAreKept, Collides, Working, Writing, SameAround, SameTree
    <2>6. TreeFollows(c)
      BY <1>1, <2>1 DEF ExportInv, JobIsGenerated, TreeFollows, SameTree
    <2> QED
      BY <2>1, <2>2, <2>3, <2>4, <2>5, <2>6 DEF Sound, ExportInv
  <1> QED
    BY <1>2, <1>3, <1>4, <1>5

\* Only what is in the index is removed.
LEMMA RetireSound ==
  ASSUME NEW b, Sound(b), NEW c \in Retire(b)
  PROVE  Sound(c)
  <1> DEFINE name == CHOOSE n \in b.job.tracked : TRUE
             clean == name \in DOMAIN b.tree.index /\ name \in DOMAIN b.tip.files /\ b.tip.files[name] = b.tree.index[name]
  <1>1. /\ b.step = "retire" /\ b \in Workspaces /\ b.tree \in Trees /\ b.job \in Jobs
        /\ b.tree.files \in Files /\ b.tree.index \in Files /\ b.job.files \in Files /\ ExportInv(b)
    BY DEF Retire, Sound, Workspaces, Trees, Jobs
  <1>2. \/ c = Ends(b, "failed")
        \/ b.job.tracked = {} /\ c = At([b EXCEPT !.job.tracked = DOMAIN b.job.files], "write")
        \/ /\ b.job.tracked # {} /\ name \in DOMAIN b.tree.index
           /\ c = [b EXCEPT !.tree.files = Without(@, name), !.tree.index = Without(@, name), !.job.tracked = @ \ {name}]
    BY <1>1 DEF Retire
  <1> HIDE DEF name, clean
  <1>3. CASE c = Ends(b, "failed")
    BY <1>3, EndsSound
  <1>4. CASE b.job.tracked = {} /\ c = At([b EXCEPT !.job.tracked = DOMAIN b.job.files], "write")
    <2>1. /\ c \in Workspaces /\ c.step = "write" /\ c.exit = b.exit
          /\ SameAround(b, c) /\ SameOut(b, c) /\ SameTip(b, c) /\ SameTree(b, c)
          /\ c.job.tracked = DOMAIN b.job.files
          /\ c.job.tip = b.job.tip /\ c.job.files = b.job.files /\ c.job.commit = b.job.commit /\ c.job.publish = b.job.publish
      <3>1. DOMAIN b.job.files \subseteq AllNames
        BY <1>1, FilesAreFiles
      <3> QED
        BY <1>1, <1>4, <3>1 DEF At, Workspaces, Jobs, Steps, SameAround, SameOut, SameTip, SameTree
    <2>2. JobIsGenerated(c)
      BY <1>1, <2>1 DEF ExportInv, JobIsGenerated, Settled, IsGenerated, SameAround
    <2>3. OutputIsKept(c)
      BY <1>1, <2>1 DEF ExportInv, OutputIsKept, Settled, Generated, Placed, SameAround, SameOut
    <2>4. BranchIsKept(c)
      BY <1>1, <2>1 DEF ExportInv, BranchIsKept, Working, IsGenerated, SameAround, SameTip, SameTree
    <2>5. EditsAreKept(c)
      BY <1>1, <2>1 DEF ExportInv, EditsAreKept, Working, Writing, SameAround, SameTree
    <2>6. TreeFollows(c)
      BY <1>1, <1>4, <2>1 DEF ExportInv, JobIsGenerated, TreeFollows, SameTree
    <2> QED
      BY <2>1, <2>2, <2>3, <2>4, <2>5, <2>6 DEF Sound, ExportInv
  <1>5. CASE /\ b.job.tracked # {} /\ name \in DOMAIN b.tree.index
             /\ c = [b EXCEPT !.tree.files = Without(@, name), !.tree.index = Without(@, name), !.job.tracked = @ \ {name}]
    <2>1. /\ name \in AllNames
          /\ Without(b.tree.files, name) \in Files /\ Without(b.tree.index, name) \in Files
          /\ DOMAIN Without(b.tree.files, name) = DOMAIN b.tree.files \ {name}
          /\ DOMAIN Without(b.tree.index, name) = DOMAIN b.tree.index \ {name}
          /\ \A m \in DOMAIN b.tree.files : m # name => Without(b.tree.files, name)[m] = b.tree.files[m]
      BY <1>1, <1>5, FileRemoved, FilesAreFiles
    <2>2. /\ c \in Workspaces /\ c.step = "retire" /\ c.exit = b.exit
          /\ SameAround(b, c) /\ SameOut(b, c) /\ SameTip(b, c)
          /\ c.tree.files = Without(b.tree.files, name) /\ c.tree.index = Without(b.tree.index, name)
          /\ c.tree.there = b.tree.there /\ c.job.tracked = b.job.tracked \ {name}
          /\ c.job.tip = b.job.tip /\ c.job.files = b.job.files /\ c.job.commit = b.job.commit /\ c.job.publish = b.job.publish
      <3> DEFINE tree == [b.tree EXCEPT !.files = Without(@, name), !.index = Without(@, name)]
                 job == [b.job EXCEPT !.tracked = @ \ {name}]
      <3>1. /\ tree \in Trees /\ tree.there = b.tree.there
            /\ tree.files = Without(b.tree.files, name) /\ tree.index = Without(b.tree.index, name)
        BY <1>1, <2>1 DEF Trees
      <3>2. /\ job \in Jobs /\ job.tracked = b.job.tracked \ {name} /\ job.tip = b.job.tip
            /\ job.files = b.job.files /\ job.commit = b.job.commit /\ job.publish = b.job.publish
        BY <1>1 DEF Jobs
      <3>3. c = [b EXCEPT !.tree = tree, !.job = job]
        BY <1>1, <1>5 DEF Workspaces, Trees, Jobs
      <3> HIDE DEF tree, job
      <3> QED
        BY <1>1, <3>1, <3>2, <3>3 DEF Workspaces, SameAround, SameOut, SameTip
    <2>3. JobIsGenerated(c)
      BY <1>1, <2>2 DEF ExportInv, JobIsGenerated, Settled, IsGenerated, SameAround
    <2>4. OutputIsKept(c)
      BY <1>1, <2>2 DEF ExportInv, OutputIsKept, Settled, Generated, Placed, SameAround, SameOut
    <2>5. BranchIsKept(c)
      BY <1>1, <2>2 DEF ExportInv, BranchIsKept, Working, IsGenerated, SameAround, SameTip
    <2>6. EditsAreKept(c)
      BY <1>1, <1>5, <2>1, <2>2 DEF ExportInv, EditsAreKept, Working, Writing, SameAround
    <2>7. TreeFollows(c)
      BY <1>1, <2>1, <2>2 DEF ExportInv, JobIsGenerated, TreeFollows
    <2> QED
      BY <2>2, <2>3, <2>4, <2>5, <2>6, <2>7 DEF Sound, ExportInv
  <1> QED
    BY <1>2, <1>3, <1>4, <1>5

\* What is written is of the project, so nobody's edit.
LEMMA WriteFileSound ==
  ASSUME NEW b, Sound(b), NEW c \in WriteFile(b)
  PROVE  Sound(c)
  <1> DEFINE name == CHOOSE n \in b.job.tracked : TRUE
             text == b.job.files[name]
  <1>1. /\ b.step = "write" /\ b \in Workspaces /\ b.tree \in Trees /\ b.job \in Jobs
        /\ b.tree.files \in Files /\ b.job.files \in Files /\ b.job.tracked \subseteq AllNames /\ ExportInv(b)
    BY DEF WriteFile, Sound, Workspaces, Trees, Jobs
  <1>2. \/ b.job.tracked = {} /\ c = At(b, "add")
        \/ /\ b.job.tracked # {} /\ name \in b.job.tracked
           /\ c = [b EXCEPT !.tree.files = With(@, name, text), !.job.tracked = @ \ {name}]
    BY <1>1 DEF WriteFile
  <1> HIDE DEF name
  <1>3. CASE b.job.tracked = {} /\ c = At(b, "add")
    <2>1. /\ c \in Workspaces /\ c.step = "add" /\ c.exit = b.exit
          /\ SameAround(b, c) /\ SameOut(b, c) /\ SameTip(b, c) /\ SameTree(b, c) /\ SameJob(b, c)
      BY <1>1, <1>3 DEF At, Workspaces, Steps, SameAround, SameOut, SameTip, SameTree, SameJob
    <2>2. JobIsGenerated(c)
      BY <1>1, <2>1 DEF ExportInv, JobIsGenerated, Settled, IsGenerated, SameAround, SameJob
    <2>3. OutputIsKept(c)
      BY <1>1, <2>1 DEF ExportInv, OutputIsKept, Settled, Generated, SameAround, SameOut, SameJob
    <2>4. BranchIsKept(c)
      BY <1>1, <2>1 DEF ExportInv, BranchIsKept, Working, IsGenerated, SameAround, SameTip, SameTree, SameJob
    <2>5. EditsAreKept(c)
      BY <1>1, <2>1 DEF ExportInv, EditsAreKept, Working, Writing, SameAround, SameTree, SameJob
    <2>6. TreeFollows(c)
      BY <1>1, <1>3, <2>1 DEF ExportInv, JobIsGenerated, TreeFollows, PartOf, SameTree, SameJob
    <2> QED
      BY <2>1, <2>2, <2>3, <2>4, <2>5, <2>6 DEF Sound, ExportInv
  <1>4. CASE /\ b.job.tracked # {} /\ name \in b.job.tracked
             /\ c = [b EXCEPT !.tree.files = With(@, name, text), !.job.tracked = @ \ {name}]
    <2>1. name \in DOMAIN b.job.files /\ name \in AllNames /\ text \in AllTexts
      <3>1. b.job.tracked \subseteq DOMAIN b.job.files
        BY <1>1 DEF ExportInv, TreeFollows
      <3> QED
        BY <1>1, <1>4, <3>1, FilesAreFiles
    <2> HIDE DEF text
    <2>2. /\ With(b.tree.files, name, text) \in Files
          /\ DOMAIN With(b.tree.files, name, text) = DOMAIN b.tree.files \cup {name}
          /\ With(b.tree.files, name, text)[name] = text
          /\ \A m \in DOMAIN b.tree.files : m # name => With(b.tree.files, name, text)[m] = b.tree.files[m]
      BY <1>1, <2>1, FileWritten
    <2>3. /\ c \in Workspaces /\ c.step = "write" /\ c.exit = b.exit
          /\ SameAround(b, c) /\ SameOut(b, c) /\ SameTip(b, c)
          /\ c.tree.files = With(b.tree.files, name, text) /\ c.tree.index = b.tree.index
          /\ c.tree.there = b.tree.there /\ c.job.tracked = b.job.tracked \ {name}
          /\ c.job.tip = b.job.tip /\ c.job.files = b.job.files /\ c.job.commit = b.job.commit /\ c.job.publish = b.job.publish
      <3> DEFINE tree == [b.tree EXCEPT !.files = With(@, name, text)]
                 job == [b.job EXCEPT !.tracked = @ \ {name}]
      <3>1. tree \in Trees /\ tree.there = b.tree.there /\ tree.files = With(b.tree.files, name, text) /\ tree.index = b.tree.index
        BY <1>1, <2>2 DEF Trees
      <3>2. /\ job \in Jobs /\ job.tracked = b.job.tracked \ {name} /\ job.tip = b.job.tip
            /\ job.files = b.job.files /\ job.commit = b.job.commit /\ job.publish = b.job.publish
        BY <1>1 DEF Jobs
      <3>3. c = [b EXCEPT !.tree = tree, !.job = job]
        BY <1>1, <1>4 DEF Workspaces, Trees, Jobs
      <3> HIDE DEF tree, job
      <3> QED
        BY <1>1, <3>1, <3>2, <3>3 DEF Workspaces, SameAround, SameOut, SameTip
    <2>4. JobIsGenerated(c)
      BY <1>1, <2>3 DEF ExportInv, JobIsGenerated, Settled, IsGenerated, SameAround
    <2>5. OutputIsKept(c)
      BY <1>1, <2>3 DEF ExportInv, OutputIsKept, Settled, Generated, Placed, SameAround, SameOut
    <2>6. BranchIsKept(c)
      BY <1>1, <2>3 DEF ExportInv, BranchIsKept, Working, IsGenerated, SameAround, SameTip
    <2>7. EditsAreKept(c)
      <3>1. name \notin b.mine.names
        BY <1>1, <2>1 DEF ExportInv, EditsAreKept, Writing, Working
      <3> QED
        BY <1>1, <2>2, <2>3, <3>1 DEF ExportInv, EditsAreKept, Working, Writing, SameAround
    <2>8. TreeFollows(c)
      <3>1. /\ DOMAIN b.tree.index \subseteq DOMAIN b.job.files /\ b.job.tracked \subseteq DOMAIN b.job.files /\ b.exit = "none"
            /\ \A n \in DOMAIN b.job.files \ b.job.tracked : n \in DOMAIN b.tree.files /\ b.tree.files[n] = b.job.files[n]
        BY <1>1 DEF ExportInv, JobIsGenerated, TreeFollows
      <3>2. ASSUME NEW n \in DOMAIN c.job.files \ c.job.tracked
            PROVE  n \in DOMAIN c.tree.files /\ c.tree.files[n] = c.job.files[n]
        <4>1. CASE n = name
          BY <2>2, <2>3, <4>1 DEF text
        <4>2. CASE n # name
          BY <2>2, <2>3, <3>1, <4>2
        <4> QED
          BY <4>1, <4>2
      <3> QED
        BY <2>3, <3>1, <3>2 DEF TreeFollows
    <2> QED
      BY <2>3, <2>4, <2>5, <2>6, <2>7, <2>8 DEF Sound, ExportInv
  <1> QED
    BY <1>2, <1>3, <1>4

\* What is staged is the project.
LEMMA AddSound ==
  ASSUME NEW b, Sound(b), NEW c \in Add(b)
  PROVE  Sound(c)
  <1>1. /\ b.step = "add" /\ b \in Workspaces /\ b.tree \in Trees /\ b.job.files \in Files /\ b.tree.files \in Files /\ ExportInv(b)
        /\ c = At([b EXCEPT !.tree.index = Staged(b)], "commit")
    BY DEF Add, Sound, Workspaces, Trees, Jobs
  <1>2. Staged(b) = b.job.files
    <2>1. /\ DOMAIN b.tree.index \subseteq DOMAIN b.job.files
          /\ \A n \in DOMAIN b.job.files : n \in DOMAIN b.tree.files /\ b.tree.files[n] = b.job.files[n]
      BY <1>1 DEF ExportInv, TreeFollows, PartOf
    <2>2. DOMAIN b.tree.index \cup DOMAIN b.job.files = DOMAIN b.job.files
      BY <2>1
    <2>3. b.job.files = [n \in DOMAIN b.job.files |-> b.job.files[n]]
      BY <1>1, FilesAreFiles
    <2>4. Staged(b) = [n \in DOMAIN b.job.files |-> b.tree.files[n]]
      BY <2>2 DEF Staged
    <2> QED
      BY <2>1, <2>3, <2>4
  <1>3. /\ c \in Workspaces /\ c.step = "commit" /\ c.exit = b.exit
        /\ SameAround(b, c) /\ SameOut(b, c) /\ SameTip(b, c) /\ SameJob(b, c)
        /\ c.tree.files = b.tree.files /\ c.tree.there = b.tree.there /\ c.tree.index = b.job.files
    BY <1>1, <1>2 DEF At, Workspaces, Trees, Steps, SameAround, SameOut, SameTip, SameJob
  <1>4. JobIsGenerated(c)
    BY <1>1, <1>3 DEF ExportInv, JobIsGenerated, Settled, IsGenerated, SameAround, SameJob
  <1>5. OutputIsKept(c)
    BY <1>1, <1>3 DEF ExportInv, OutputIsKept, Settled, Generated, SameAround, SameOut, SameJob
  <1>6. BranchIsKept(c)
    BY <1>1, <1>3 DEF ExportInv, BranchIsKept, Working, IsGenerated, SameAround, SameTip, SameJob
  <1>7. EditsAreKept(c)
    BY <1>1, <1>3 DEF ExportInv, EditsAreKept, Working, Writing, SameAround, SameJob
  <1>8. TreeFollows(c)
    BY <1>1, <1>3 DEF ExportInv, JobIsGenerated, TreeFollows, PartOf, SameJob
  <1> QED
    BY <1>3, <1>4, <1>5, <1>6, <1>7, <1>8 DEF Sound, ExportInv

LEMMA CommitTreeSound ==
  ASSUME NEW b, Sound(b), NEW c \in CommitTree(b)
  PROVE  Sound(c)
  <1> DEFINE new == Commit(b.tree.index, TRUE, TRUE, b.job.commit)
  <1>1. /\ b.step = "commit" /\ b \in Workspaces /\ b.job \in Jobs /\ b.job.commit \in Int /\ b.tree.index \in Files /\ ExportInv(b)
        /\ c = At([b EXCEPT !.job.new = new], "update")
    BY DEF CommitTree, Sound, Workspaces, Trees, Jobs
  <1>2. new \in Tips
    BY <1>1 DEF Commit, Tips
  <1>3. b.tree.index = b.job.files
    BY <1>1 DEF ExportInv, TreeFollows
  <1>4. new = Commit(b.job.files, TRUE, TRUE, b.job.commit)
    BY <1>3
  <1> HIDE DEF new
  <1>5. /\ c \in Workspaces /\ c.step = "update" /\ c.exit = b.exit
        /\ SameAround(b, c) /\ SameOut(b, c) /\ SameTip(b, c) /\ SameTree(b, c)
        /\ c.job.new = new /\ c.job.tracked = b.job.tracked /\ c.job.tip = b.job.tip 
        /\ c.job.files = b.job.files /\ c.job.commit = b.job.commit /\ c.job.publish = b.job.publish
    BY <1>1, <1>2 DEF At, Workspaces, Jobs, Steps, SameAround, SameOut, SameTip, SameTree
  <1>6. JobIsGenerated(c)
    BY <1>1, <1>5 DEF ExportInv, JobIsGenerated, Settled, IsGenerated, SameAround
  <1>7. OutputIsKept(c)
    BY <1>1, <1>5 DEF ExportInv, OutputIsKept, Settled, Generated, Placed, SameAround, SameOut
  <1>8. BranchIsKept(c)
    BY <1>1, <1>5 DEF ExportInv, BranchIsKept, Working, IsGenerated, SameAround, SameTip, SameTree
  <1>9. EditsAreKept(c)
    BY <1>1, <1>5 DEF ExportInv, EditsAreKept, Working, Writing, SameAround, SameTree
  <1>10. TreeFollows(c)
    BY <1>1, <1>4, <1>5 DEF ExportInv, JobIsGenerated, TreeFollows, SameTree
  <1> QED
    BY <1>5, <1>6, <1>7, <1>8, <1>9, <1>10 DEF Sound, ExportInv

\* The expected tip is nobody's commit, so nothing made by hand is replaced.
LEMMA UpdateRefSound ==
  ASSUME NEW b, Sound(b), NEW c \in UpdateRef(b)
  PROVE  Sound(c)
  <1>1. /\ b.step = "update" /\ b \in Workspaces /\ b.job \in Jobs /\ b.job.new \in Tips /\ b.job.commit \in Int /\ ExportInv(b)
        /\ c = IF b.tip = Expected(b) THEN Ends([b EXCEPT !.tip = b.job.new], "published") ELSE Ends(b, "failed")
    BY DEF UpdateRef, Sound, Workspaces, Jobs
  <1>2. CASE b.tip # Expected(b)
    BY <1>1, <1>2, EndsSound
  <1>3. CASE b.tip = Expected(b)
    <2>1. /\ c \in Workspaces /\ c.step = "idle" /\ c.exit = "published"
          /\ SameAround(b, c) /\ SameOut(b, c) /\ SameTree(b, c) /\ SameJob(b, c)
          /\ c.tip = b.job.new
      BY <1>1, <1>3 DEF Ends, Workspaces, Steps, Exits, SameAround, SameOut, SameTree, SameJob
    <2>2. c.tip = Commit(b.job.files, TRUE, TRUE, b.job.commit)
      BY <1>1, <2>1 DEF ExportInv, TreeFollows
    <2>3. c.tip.there /\ c.tip.kf /\ c.tip.source = b.job.commit /\ c.tip.files = b.job.files
      BY <2>2 DEF Commit
    <2>4. b.job.commit > 0 /\ IsGenerated(b, b.job.commit, b.job.files)
      BY <1>1 DEF ExportInv, JobIsGenerated, Settled
    <2>5. ~b.mine.tip.there
      <3>1. CASE b.job.tip.there
        BY <1>1, <1>3, <3>1 DEF Expected, ExportInv, BranchIsKept, Working
      <3>2. CASE ~b.job.tip.there
        <4>1. b.tip.source = b.job.commit
          BY <1>1, <1>3, <3>2, SourceCommitIsTip DEF Expected
        <4> QED
          BY <1>1, <2>4, <3>2, <4>1 DEF ExportInv, BranchIsKept, Working
      <3> QED
        BY <3>1, <3>2
    <2>6. JobIsGenerated(c)
      BY <2>1 DEF JobIsGenerated, Settled
    <2>7. OutputIsKept(c)
      BY <1>1, <2>1 DEF ExportInv, OutputIsKept, Settled, Generated, SameAround, SameOut, SameJob
    <2>8. BranchIsKept(c)
      BY <1>1, <2>1, <2>3, <2>4, <2>5 DEF ExportInv, BranchIsKept, Working, IsGenerated, SameAround, SameTree
    <2>9. EditsAreKept(c)
      BY <1>1, <2>1 DEF ExportInv, EditsAreKept, Working, Writing, SameAround, SameTree
    <2>10. TreeFollows(c)
      <3>1. b.tree.index = b.job.files /\ PartOf(b.job.files, b.tree.files)
        BY <1>1 DEF ExportInv, TreeFollows
      <3> QED
        BY <2>1, <2>2, <2>3, <3>1 DEF TreeFollows, SameTree, SameJob
    <2> QED
      BY <2>1, <2>6, <2>7, <2>8, <2>9, <2>10 DEF Sound, ExportInv
  <1> QED
    BY <1>2, <1>3

LEMMA RunSound ==
  ASSUME NEW b, Sound(b), NEW c \in Run(b, Ignored)
  PROVE  Sound(c)
  <1>1. CASE c \in Kill(b)
    BY <1>1, EndsSound DEF Kill
  <1> QED
    BY <1>1, StartSound, RemoveEntrySound, RenameOutputSound, VerifySound, CheckBranchSound, CheckFilesSound,
       RetireSound, WriteFileSound, AddSound, CommitTreeSound, UpdateRefSound DEF Run

-----------------------------------------------------------------------------
(* People.                                                                 *)

LEMMA ByHandIsWorkspace ==
  ASSUME NEW b \in Workspaces
  PROVE  /\ ByHand(b) \in Workspaces /\ ByHand(b).exit = "none" /\ ByHand(b).step = b.step
         /\ SameOut(b, ByHand(b)) /\ SameTip(b, ByHand(b)) /\ SameTree(b, ByHand(b)) /\ SameJob(b, ByHand(b))
         /\ ByHand(b).head = b.head /\ ByHand(b).generated = b.generated /\ ByHand(b).mine = b.mine
  <1>1. b.edits + 1 \in Nat
    BY DEF Workspaces
  <1> DEFINE edits == b.edits + 1
  <1>2. ByHand(b) = [b EXCEPT !.edits = edits, !.exit = "none"]
    BY DEF ByHand
  <1> HIDE DEF edits
  <1> QED
    BY <1>1, <1>2 DEF edits, Workspaces, Exits, SameOut, SameTip, SameTree, SameJob

\* What a person commits is no export, and its name is no commit of the reconstruction.
LEMMA CommitByHandSound ==
  ASSUME NEW b, Sound(b), NEW c \in CommitByHand(b)
  PROVE  Sound(c)
  <1> DEFINE index == [n \in DOMAIN b.tree.index \cap DOMAIN b.tree.files |-> b.tree.files[n]]
             tip == Commit(index, FALSE, FALSE, -2 - b.edits)
  <1>1. /\ b \in Workspaces /\ b.tree \in Trees /\ b.tree.files \in Files /\ b.tree.index \in Files /\ b.edits \in Nat /\ ExportInv(b)
        /\ b.tree.there
        /\ c = [ByHand(b) EXCEPT !.tree.index = index, !.tip = tip, !.mine.tip = tip, !.mine.names = @ \ DOMAIN index]
    BY DEF CommitByHand, Sound, Workspaces, Trees
  <1>2. /\ index \in Files /\ DOMAIN index = DOMAIN b.tree.index \cap DOMAIN b.tree.files
        /\ \A n \in DOMAIN index : index[n] = b.tree.files[n]
    <2>1. index \in [DOMAIN b.tree.index \cap DOMAIN b.tree.files -> AllTexts]
      BY <1>1, FilesAreFiles
    <2> QED
      BY <1>1, <2>1, FilesAreFiles
  <1> HIDE DEF index
  <1>3. tip \in Tips /\ tip.there /\ ~tip.kf /\ tip.source < 0 /\ tip.files = index
    BY <1>1, <1>2 DEF Commit, Tips
  <1> HIDE DEF tip
  <1>4. /\ c \in Workspaces /\ c.step = b.step /\ c.exit = "none"
        /\ c.head = b.head /\ c.generated = b.generated /\ SameOut(b, c) /\ SameJob(b, c)
        /\ c.mine.out = b.mine.out /\ c.mine.tip = tip /\ c.mine.names = b.mine.names \ DOMAIN index
        /\ c.tip = tip /\ c.tree.files = b.tree.files /\ c.tree.index = index /\ c.tree.there = b.tree.there
    <2> DEFINE tree == [b.tree EXCEPT !.index = index]
               mine == [b.mine EXCEPT !.tip = tip, !.names = @ \ DOMAIN index]
    <2>1. tree \in Trees /\ tree.files = b.tree.files /\ tree.index = index /\ tree.there = b.tree.there
      BY <1>1, <1>2 DEF Trees
    <2>2. /\ mine \in [out : Directories, tip : Tips, names : SUBSET AllNames]
          /\ mine.out = b.mine.out /\ mine.tip = tip /\ mine.names = b.mine.names \ DOMAIN index
      BY <1>1, <1>3 DEF Workspaces
    <2>3. c = [ByHand(b) EXCEPT !.tree = tree, !.tip = tip, !.mine = mine]
      BY <1>1, ByHandIsWorkspace DEF Workspaces, SameTree
    <2> HIDE DEF tree, mine
    <2> DEFINE h == ByHand(b)
    <2>4. /\ h \in Workspaces /\ h.exit = "none" /\ h.step = b.step /\ h.out = b.out /\ h.job = b.job
          /\ h.head = b.head /\ h.generated = b.generated /\ c = [h EXCEPT !.tree = tree, !.tip = tip, !.mine = mine]
      BY <1>1, <2>3, ByHandIsWorkspace DEF SameOut, SameJob
    <2> HIDE DEF h
    <2>5. /\ c \in Workspaces /\ c.step = h.step /\ c.exit = h.exit /\ c.out = h.out /\ c.job = h.job
          /\ c.head = h.head /\ c.generated = h.generated /\ c.tip = tip /\ c.tree = tree /\ c.mine = mine
      BY <1>3, <2>1, <2>2, <2>4 DEF Workspaces
    <2> QED
      BY <2>1, <2>2, <2>4, <2>5 DEF SameOut, SameJob
  <1>5. JobIsGenerated(c)
    BY <1>1, <1>4 DEF ExportInv, JobIsGenerated, Settled, IsGenerated, SameJob
  <1>6. OutputIsKept(c)
    BY <1>1, <1>4 DEF ExportInv, OutputIsKept, Settled, Generated, SameOut, SameJob
  <1>7. BranchIsKept(c)
    BY <1>1, <1>3, <1>4 DEF ExportInv, BranchIsKept, Working, SameJob
  <1>8. EditsAreKept(c)
    BY <1>1, <1>2, <1>4 DEF ExportInv, EditsAreKept, Working, Writing, SameJob
  <1>9. TreeFollows(c)
    <2>1. b.step \in {"commit", "update"} => index = b.job.files
      <3>1. SUFFICES ASSUME b.step \in {"commit", "update"} PROVE index = b.job.files
        OBVIOUS
      <3>2. b.tree.index = b.job.files /\ PartOf(b.job.files, b.tree.files)
        BY <1>1, <3>1 DEF ExportInv, TreeFollows
      <3>3. DOMAIN index = DOMAIN b.job.files /\ \A n \in DOMAIN index : index[n] = b.job.files[n]
        BY <1>2, <3>2 DEF PartOf
      <3>4. b.job.files \in Files
        BY <1>1, <3>2
      <3> QED
        BY <1>2, <3>3, <3>4, FilesAreFiles
    <2>2. TreeFollows(b) /\ DOMAIN index \subseteq DOMAIN b.tree.index
      BY <1>1, <1>2 DEF ExportInv
    <2>3. PartOf(c.job.files, c.tree.files) <=> PartOf(b.job.files, b.tree.files)
      BY <1>4 DEF SameJob
    <2> QED
      BY <1>4, <2>1, <2>2, <2>3 DEF TreeFollows, SameJob
  <1> QED
    BY <1>4, <1>5, <1>6, <1>7, <1>8, <1>9 DEF Sound, ExportInv

LEMMA NewCommitSound ==
  ASSUME NEW b, Sound(b), NEW c \in NewCommit(b)
  PROVE  Sound(c)
  <1>1. /\ b \in Workspaces /\ b.generated \in Generations /\ b.head \in Nat /\ b.head > 0 /\ ExportInv(b)
        /\ b.head + 1 \in DOMAIN b.generated /\ c = [ByHand(b) EXCEPT !.head = b.head + 1]
    <2>1. b.head + 1 \in DOMAIN b.generated /\ c = [ByHand(b) EXCEPT !.head = @ + 1] /\ b \in Workspaces
      BY DEF NewCommit, Sound
    <2> QED
      BY <2>1, ByHandIsWorkspace DEF Sound, Workspaces, Heads
  <1>2. b.head + 1 \in Heads
    BY <1>1 DEF Generations, Heads
  <1>3. /\ c \in Workspaces /\ c.step = b.step /\ c.exit = "none" /\ c.generated = b.generated /\ c.mine = b.mine
        /\ SameOut(b, c) /\ SameTip(b, c) /\ SameTree(b, c) /\ SameJob(b, c)
    BY <1>1, <1>2, ByHandIsWorkspace DEF Workspaces, SameOut, SameTip, SameTree, SameJob
  <1>4. JobIsGenerated(c)
    BY <1>1, <1>3 DEF ExportInv, JobIsGenerated, Settled, IsGenerated, SameJob
  <1>5. OutputIsKept(c)
    BY <1>1, <1>3 DEF ExportInv, OutputIsKept, Settled, Generated, SameOut, SameJob
  <1>6. BranchIsKept(c)
    BY <1>1, <1>3 DEF ExportInv, BranchIsKept, Working, IsGenerated, SameTip, SameTree, SameJob
  <1>7. EditsAreKept(c)
    BY <1>1, <1>3 DEF ExportInv, EditsAreKept, Working, Writing, SameTree, SameJob
  <1>8. TreeFollows(c)
    BY <1>1, <1>3 DEF ExportInv, TreeFollows, SameTree, SameJob
  <1> QED
    BY <1>3, <1>4, <1>5, <1>6, <1>7, <1>8 DEF Sound, ExportInv

\* Between runs only output, branch and edits are at stake.
LEMMA IdleSound ==
  ASSUME NEW c \in Workspaces, c.step = "idle", c.exit = "none", OutputIsKept(c), BranchIsKept(c), EditsAreKept(c)
  PROVE  Sound(c)
  BY DEF Sound, ExportInv, JobIsGenerated, TreeFollows, Settled

LEMMA EditFileSound ==
  ASSUME NEW b, Sound(b), b.step = "idle", NEW c \in EditFile(b, Names)
  PROVE  Sound(c)
  <1>1. b \in Workspaces /\ b.tree \in Trees /\ b.tree.files \in Files /\ b.tree.there /\ ExportInv(b)
    BY DEF EditFile, Sound, Workspaces, Trees
  <1>2. PICK n \in Names : c = [ByHand(b) EXCEPT !.tree.files = With(@, n, Mine), !.mine.names = @ \cup {n}]
    BY <1>1 DEF EditFile
  <1>3. n \in AllNames /\ Mine \in AllTexts
    BY DEF AllNames, AllTexts
  <1> DEFINE files == With(b.tree.files, n, Mine)
             tree == [b.tree EXCEPT !.files = files]
             mine == [b.mine EXCEPT !.names = @ \cup {n}]
             h == ByHand(b)
  <1>4. /\ files \in Files /\ DOMAIN files = DOMAIN b.tree.files \cup {n} /\ files[n] = Mine
        /\ \A m \in DOMAIN b.tree.files : m # n => files[m] = b.tree.files[m]
    BY <1>1, <1>3, FileWritten
  <1> HIDE DEF files
  <1>5. tree \in Trees /\ tree.files = files /\ tree.index = b.tree.index /\ tree.there = b.tree.there
    BY <1>1, <1>4 DEF Trees
  <1>6. /\ mine \in [out : Directories, tip : Tips, names : SUBSET AllNames]
        /\ mine.out = b.mine.out /\ mine.tip = b.mine.tip /\ mine.names = b.mine.names \cup {n}
    BY <1>1, <1>3 DEF Workspaces
  <1>7. /\ h \in Workspaces /\ h.exit = "none" /\ h.step = b.step /\ h.out = b.out /\ h.job = b.job /\ h.tip = b.tip
        /\ h.head = b.head /\ h.generated = b.generated /\ c = [h EXCEPT !.tree = tree, !.mine = mine]
    <2>1. h \in Workspaces /\ h.tree = b.tree /\ h.mine = b.mine
      BY <1>1, ByHandIsWorkspace DEF SameTree
    <2>2. c = [h EXCEPT !.tree.files = With(@, n, Mine), !.mine.names = @ \cup {n}]
      BY <1>2
    <2>3. c = [h EXCEPT !.tree = tree, !.mine = mine]
      BY <2>1, <2>2 DEF Workspaces, files
    <2> QED
      BY <1>1, <2>3, ByHandIsWorkspace DEF SameOut, SameJob, SameTip
  <1> HIDE DEF tree, mine, h
  <1>8. /\ c \in Workspaces /\ c.step = h.step /\ c.exit = h.exit /\ c.out = h.out /\ c.job = h.job /\ c.tip = h.tip
        /\ c.head = h.head /\ c.generated = h.generated /\ c.tree = tree /\ c.mine = mine
    BY <1>5, <1>6, <1>7 DEF Workspaces
  <1>9. OutputIsKept(c)
    BY <1>1, <1>6, <1>7, <1>8 DEF ExportInv, OutputIsKept, Generated, Settled
  <1>10. BranchIsKept(c)
    BY <1>1, <1>5, <1>6, <1>7, <1>8 DEF ExportInv, BranchIsKept, IsGenerated, Working
  <1>11. EditsAreKept(c)
    BY <1>1, <1>4, <1>5, <1>6, <1>7, <1>8 DEF ExportInv, EditsAreKept, Working, Writing
  <1> QED
    BY <1>7, <1>8, <1>9, <1>10, <1>11, IdleSound

\* Files beside those of the branch stay.
LEMMA ResetHardSound ==
  ASSUME NEW b, Sound(b), b.step = "idle", NEW c \in ResetHard(b)
  PROVE  Sound(c)
  <1> DEFINE untracked == DOMAIN b.tree.files \ DOMAIN b.tree.index
             files == [n \in untracked \cup DOMAIN b.tip.files |-> IF n \in DOMAIN b.tip.files THEN b.tip.files[n] ELSE b.tree.files[n]]
             names == (b.mine.names \cap untracked) \ DOMAIN b.tip.files
             tree == [b.tree EXCEPT !.index = b.tip.files, !.files = files]
             mine == [b.mine EXCEPT !.names = names]
             h == ByHand(b)
  <1>1. /\ b \in Workspaces /\ b.tree \in Trees /\ b.tree.there /\ b.tree.files \in Files
        /\ b.tip.files \in Files /\ b.mine.names \subseteq AllNames /\ ExportInv(b)
    BY DEF ResetHard, Sound, Workspaces, Trees, Tips
  <1>2. c = [ByHand(b) EXCEPT !.tree.index = b.tip.files, !.tree.files = files, !.mine.names = (@ \cap untracked) \ DOMAIN b.tip.files]
    BY <1>1 DEF ResetHard
  <1>3. /\ files \in Files /\ DOMAIN files = untracked \cup DOMAIN b.tip.files
        /\ \A n \in untracked \ DOMAIN b.tip.files : files[n] = b.tree.files[n]
    <2>1. files \in [untracked \cup DOMAIN b.tip.files -> AllTexts] /\ untracked \cup DOMAIN b.tip.files \subseteq AllNames
      BY <1>1, FilesAreFiles
    <2> QED
      BY <2>1, FilesAreFiles
  <1>4. names \subseteq AllNames /\ names \subseteq b.mine.names /\ names \subseteq untracked \ DOMAIN b.tip.files
    BY <1>1
  <1> HIDE DEF files, untracked
  <1>5. tree \in Trees /\ tree.files = files /\ tree.index = b.tip.files /\ tree.there = b.tree.there
    BY <1>1, <1>3 DEF Trees
  <1>6. /\ mine \in [out : Directories, tip : Tips, names : SUBSET AllNames]
        /\ mine.out = b.mine.out /\ mine.tip = b.mine.tip /\ mine.names = names
    BY <1>1, <1>4 DEF Workspaces
  <1>7. /\ h \in Workspaces /\ h.exit = "none" /\ h.step = b.step /\ h.out = b.out /\ h.job = b.job /\ h.tip = b.tip
        /\ h.head = b.head /\ h.generated = b.generated /\ c = [h EXCEPT !.tree = tree, !.mine = mine]
    <2>1. h \in Workspaces /\ h.tree = b.tree /\ h.mine = b.mine
      BY <1>1, ByHandIsWorkspace DEF SameTree
    <2>2. c = [h EXCEPT !.tree.index = b.tip.files, !.tree.files = files, !.mine.names = (@ \cap untracked) \ DOMAIN b.tip.files]
      BY <1>2
    <2>3. c = [h EXCEPT !.tree = tree, !.mine = mine]
      BY <2>1, <2>2 DEF Workspaces
    <2> QED
      BY <1>1, <2>3, ByHandIsWorkspace DEF SameOut, SameJob, SameTip
  <1> HIDE DEF mine, h, names, tree
  <1>8. /\ c \in Workspaces /\ c.step = h.step /\ c.exit = h.exit /\ c.out = h.out /\ c.job = h.job /\ c.tip = h.tip
        /\ c.head = h.head /\ c.generated = h.generated /\ c.tree = tree /\ c.mine = mine
    BY <1>5, <1>6, <1>7 DEF Workspaces
  <1>9. OutputIsKept(c)
    BY <1>1, <1>6, <1>7, <1>8 DEF ExportInv, OutputIsKept, Generated, Settled
  <1>10. BranchIsKept(c)
    BY <1>1, <1>5, <1>6, <1>7, <1>8 DEF ExportInv, BranchIsKept, IsGenerated, Working
  <1>11. EditsAreKept(c)
    BY <1>1, <1>3, <1>4, <1>5, <1>6, <1>7, <1>8 DEF ExportInv, EditsAreKept, Working, Writing
  <1> QED
    BY <1>7, <1>8, <1>9, <1>10, <1>11, IdleSound

LEMMA DropBranchSound ==
  ASSUME NEW b, Sound(b), b.step = "idle", NEW c \in DropBranch(b)
  PROVE  Sound(c)
  <1> DEFINE mine == [b.mine EXCEPT !.tip = NoTip, !.names = {}]
             h == ByHand(b)
  <1>1. b \in Workspaces /\ ExportInv(b) /\ c = [h EXCEPT !.tip = NoTip, !.tree = NoTree, !.mine.tip = NoTip, !.mine.names = {}]
    BY DEF DropBranch, Sound
  <1>2. /\ mine \in [out : Directories, tip : Tips, names : SUBSET AllNames]
        /\ mine.out = b.mine.out /\ mine.tip = NoTip /\ mine.names = {}
    BY <1>1, Constants DEF Workspaces
  <1>3. /\ h \in Workspaces /\ h.exit = "none" /\ h.step = b.step /\ h.out = b.out /\ h.job = b.job /\ h.mine = b.mine
        /\ h.head = b.head /\ h.generated = b.generated
    BY <1>1, ByHandIsWorkspace DEF SameOut, SameJob
  <1> HIDE DEF h
  <1>4. c = [h EXCEPT !.tip = NoTip, !.tree = NoTree, !.mine = mine]
    BY <1>1, <1>3 DEF Workspaces
  <1> HIDE DEF mine
  <1>5. /\ c \in Workspaces /\ c.step = h.step /\ c.exit = h.exit /\ c.out = h.out /\ c.job = h.job /\ c.tip = NoTip
        /\ c.head = h.head /\ c.generated = h.generated /\ c.tree = NoTree /\ c.mine = mine
    BY <1>2, <1>3, <1>4, Constants DEF Workspaces
  <1>6. OutputIsKept(c)
    BY <1>1, <1>2, <1>3, <1>5 DEF ExportInv, OutputIsKept, Generated, Settled
  <1>7. BranchIsKept(c)
    BY <1>2, <1>3, <1>5, Constants DEF BranchIsKept, Working
  <1>8. EditsAreKept(c)
    BY <1>2, <1>3, <1>5 DEF EditsAreKept, Working, Writing
  <1> QED
    BY <1>3, <1>5, <1>6, <1>7, <1>8, IdleSound

\* A directory of one's own is never one that a run may replace.
LEMMA OwnOutputSound ==
  ASSUME NEW b, Sound(b), b.step = "idle", NEW c \in OwnOutput(b)
  PROVE  Sound(c)
  <1> DEFINE own == IF b.out.there THEN [b.out EXCEPT !.git = TRUE]
                    ELSE [NoDirectory EXCEPT !.there = TRUE, !.files = [n \in {<<"own", "c">>} |-> Mine]]
             mine == [b.mine EXCEPT !.out = own]
             h == ByHand(b)
  <1>1. b \in Workspaces /\ b.out \in Directories /\ ExportInv(b) /\ c = [h EXCEPT !.out = own, !.mine.out = own]
    BY DEF OwnOutput, Sound, Workspaces
  <1>2. own \in Directories /\ own.there /\ ~Replaceable(own)
    <2>1. CASE b.out.there
      BY <1>1, <2>1 DEF Directories, Replaceable
    <2>2. CASE ~b.out.there
      <3>1. [n \in {<<"own", "c">>} |-> Mine] \in Files
        BY FilesAreFiles DEF AllNames, AllTexts
      <3> QED
        BY <2>2, <3>1, Constants DEF Directories, Replaceable
    <2> QED
      BY <2>1, <2>2
  <1> HIDE DEF own
  <1>3. /\ mine \in [out : Directories, tip : Tips, names : SUBSET AllNames]
        /\ mine.out = own /\ mine.tip = b.mine.tip /\ mine.names = b.mine.names
    BY <1>1, <1>2 DEF Workspaces
  <1>4. /\ h \in Workspaces /\ h.exit = "none" /\ h.step = b.step /\ h.tip = b.tip /\ h.tree = b.tree /\ h.job = b.job
        /\ h.mine = b.mine /\ h.head = b.head /\ h.generated = b.generated
    BY <1>1, ByHandIsWorkspace DEF SameTip, SameTree, SameJob
  <1> HIDE DEF h
  <1>5. c = [h EXCEPT !.out = own, !.mine = mine]
    BY <1>1, <1>4 DEF Workspaces
  <1> HIDE DEF mine
  <1>6. /\ c \in Workspaces /\ c.step = h.step /\ c.exit = h.exit /\ c.out = own /\ c.job = h.job /\ c.tip = h.tip
        /\ c.head = h.head /\ c.generated = h.generated /\ c.tree = h.tree /\ c.mine = mine
    BY <1>2, <1>3, <1>4, <1>5 DEF Workspaces
  <1>7. OutputIsKept(c)
    BY <1>2, <1>3, <1>4, <1>6 DEF OutputIsKept, Settled
  <1>8. BranchIsKept(c)
    BY <1>1, <1>3, <1>4, <1>6 DEF ExportInv, BranchIsKept, IsGenerated, Working
  <1>9. EditsAreKept(c)
    BY <1>1, <1>3, <1>4, <1>6 DEF ExportInv, EditsAreKept, Working, Writing
  <1> QED
    BY <1>4, <1>6, <1>7, <1>8, <1>9, IdleSound

LEMMA DropOutputSound ==
  ASSUME NEW b, Sound(b), b.step = "idle", NEW c \in DropOutput(b)
  PROVE  Sound(c)
  <1> DEFINE mine == [b.mine EXCEPT !.out = NoDirectory]
             h == ByHand(b)
  <1>1. b \in Workspaces /\ ExportInv(b) /\ c = [h EXCEPT !.out = NoDirectory, !.mine.out = NoDirectory]
    BY DEF DropOutput, Sound
  <1>2. /\ mine \in [out : Directories, tip : Tips, names : SUBSET AllNames]
        /\ mine.out = NoDirectory /\ mine.tip = b.mine.tip /\ mine.names = b.mine.names
    BY <1>1, Constants DEF Workspaces
  <1>3. /\ h \in Workspaces /\ h.exit = "none" /\ h.step = b.step /\ h.tip = b.tip /\ h.tree = b.tree /\ h.job = b.job
        /\ h.mine = b.mine /\ h.head = b.head /\ h.generated = b.generated
    BY <1>1, ByHandIsWorkspace DEF SameTip, SameTree, SameJob
  <1> HIDE DEF h
  <1>4. c = [h EXCEPT !.out = NoDirectory, !.mine = mine]
    BY <1>1, <1>3 DEF Workspaces
  <1> HIDE DEF mine
  <1>5. /\ c \in Workspaces /\ c.step = h.step /\ c.exit = h.exit /\ c.out = NoDirectory /\ c.job = h.job /\ c.tip = h.tip
        /\ c.head = h.head /\ c.generated = h.generated /\ c.tree = h.tree /\ c.mine = mine
    BY <1>2, <1>3, <1>4, Constants DEF Workspaces
  <1>6. OutputIsKept(c)
    BY <1>2, <1>3, <1>5, Constants DEF OutputIsKept, Settled
  <1>7. BranchIsKept(c)
    BY <1>1, <1>2, <1>3, <1>5 DEF ExportInv, BranchIsKept, IsGenerated, Working
  <1>8. EditsAreKept(c)
    BY <1>1, <1>2, <1>3, <1>5 DEF ExportInv, EditsAreKept, Working, Writing
  <1> QED
    BY <1>3, <1>5, <1>6, <1>7, <1>8, IdleSound

LEMMA PeopleSound ==
  ASSUME NEW b, Sound(b), NEW c \in People(b, Names)
  PROVE  Sound(c)
  <1>1. CASE c \in CommitByHand(b) \cup NewCommit(b)
    BY <1>1, CommitByHandSound, NewCommitSound
  <1>2. CASE b.step = "idle" /\ c \in EditFile(b, Names) \cup ResetHard(b) \cup DropBranch(b) \cup OwnOutput(b) \cup DropOutput(b)
    BY <1>2, EditFileSound, ResetHardSound, DropBranchSound, OwnOutputSound, DropOutputSound
  <1> QED
    BY <1>1, <1>2 DEF People

-----------------------------------------------------------------------------
(* The theorems.                                                           *)

LEMMA BeginsSound == Init => Sound(workspace)
  <1> SUFFICES ASSUME Init PROVE Sound(workspace)
    OBVIOUS
  <1> DEFINE Began(generated, tip, tree) ==
               /\ 1 \in Commits
               /\ tip.there \/ tip = NoTip
               /\ tree.there => tip.there
               /\ tip.kf => /\ tip.source \in Commits /\ tip.source > 0
                            /\ generated[tip.source] = <<tip.files>>
               /\ workspace = Workspace(generated, tip, tree, NoDirectory)
  <1>1. PICK generated \in Generations, tip \in Tips : \E tree \in {NoTree, Checkout(tip)} : Began(generated, tip, tree)
    BY DEF Init
  <1>2. PICK tree \in {NoTree, Checkout(tip)} : Began(generated, tip, tree)
    BY <1>1
  <1> DEFINE own == IF tip.there /\ ~tip.kf THEN tip ELSE NoTip
             mine == [out |-> NoDirectory, tip |-> own, names |-> {}]
             c == workspace
  <1>3. tree \in Trees /\ tip.files \in Files
    <2>1. tip.files \in Files
      BY DEF Tips
    <2>2. Checkout(tip) \in Trees
      BY <2>1 DEF Checkout, Trees
    <2>3. tree = NoTree \/ tree = Checkout(tip)
      BY <1>2
    <2> QED
      BY <2>1, <2>2, <2>3, Constants
  <1>4. own \in Tips /\ mine \in [out : Directories, tip : Tips, names : SUBSET AllNames]
    BY Constants
  <1> HIDE DEF own
  <1>5. /\ c.out = NoDirectory /\ c.tip = tip /\ c.tree = tree /\ c.step = "idle" /\ c.exit = "none"
        /\ c.generated = generated /\ c.mine = mine
    BY <1>2 DEF Workspace, own
  <1>6. c \in Workspaces
    <2>1. workspace = [head |-> 1, generated |-> generated, out |-> NoDirectory, tip |-> tip, tree |-> tree, step |-> "idle",
                       job |-> NoJob, exit |-> "none", mine |-> mine, edits |-> 0]
      BY <1>2 DEF Workspace, own
    <2>2. 1 \in Heads
      BY <1>2 DEF Heads
    <2> HIDE DEF mine
    <2> QED
      BY <1>3, <1>4, <2>1, <2>2, Constants DEF Workspaces, Steps, Exits
  <1>7. OutputIsKept(c)
    BY <1>5, Constants DEF OutputIsKept, Settled
  <1>8. BranchIsKept(c)
    <2>1. tip.kf => IsGenerated(c, tip.source, tip.files)
      BY <1>2, <1>5 DEF IsGenerated, Generations
    <2>2. own.there => own = tip /\ ~tip.kf
      BY Constants DEF own
    <2>3. IF tree.there THEN tip.there ELSE tree = NoTree
      BY <1>2, Constants DEF Checkout
    <2> QED
      BY <1>2, <1>5, <2>1, <2>2, <2>3 DEF BranchIsKept, Working
  <1>9. EditsAreKept(c)
    BY <1>5 DEF EditsAreKept, Working, Writing
  <1> QED
    BY <1>5, <1>6, <1>7, <1>8, <1>9, IdleSound

\* What each run and each person's step keeps: the inductive invariant of the publication
\* (clean.py's write_output and publish), for any order of kills, commits and edits.
THEOREM PublicationInvariant == Spec => []ExportInv(workspace)
  <1>1. Sound(workspace) /\ [Next]_workspace => Sound(workspace)'
    <2> SUFFICES ASSUME Sound(workspace), [Next]_workspace PROVE Sound(workspace)'
      OBVIOUS
    <2>1. CASE workspace' = workspace
      BY <2>1 DEF Sound
    <2>2. CASE Next
      BY <2>2, RunSound, PeopleSound DEF Next, ExportSteps, Sound
    <2> QED
      BY <2>1, <2>2
  <1>2. Sound(workspace) => ExportInv(workspace)
    BY DEF Sound
  <1> QED
    BY <1>1, <1>2, BeginsSound, PTL DEF Spec

\* No commit, edit or directory made by hand is lost to an export, the output is a part of a
\* project or all of it, and a branch that names a commit holds the whole export of it, whenever
\* runs are killed and whatever is committed beside them (clean.py).
THEOREM ExportsAreWhole == Spec => []ExportIsWhole(workspace)
  <1>1. ExportInv(workspace) => ExportIsWhole(workspace)
    BY DEF ExportInv, ExportIsWhole, OutputIsKept, BranchIsKept, EditsAreKept, TreeFollows, IsGenerated
  <1> QED
    BY <1>1, PublicationInvariant, PTL
-----------------------------------------------------------------------------
(***************************************************************************)
(* Discs.  The sectors that a rebuild writes, what iso_files finds in the  *)
(* directory, then program by program: what has been placed so far has its *)
(* sectors, its entry names them, and everything else is as it was.        *)
(***************************************************************************)

\* A set of numbers has a least one; one that is closed up to a bound holds all of them.
LEMMA LeastNumber ==
  ASSUME NEW S \in SUBSET Nat, S # {}
  PROVE  \E m \in S : \A n \in S : m <= n
  <1>1. PICK m \in S : \A n \in S : ~(<<n, m>> \in OpToRel(<, Nat))
    BY NatLessThanWellFounded, WFMin
  <1>2. \A n \in S : ~(n < m)
    BY <1>1 DEF OpToRel
  <1> QED
    BY <1>2
LEMMA UpTo ==
  ASSUME NEW N \in Nat, NEW S, 0 \in S, \A n \in 0 .. N - 1 : n \in S => n + 1 \in S
  PROVE  \A n \in 0 .. N : n \in S
  <1> DEFINE Missing == {n \in 0 .. N : n \notin S}
  <1>1. SUFFICES ASSUME Missing # {} PROVE FALSE
    OBVIOUS
  <1>2. PICK m \in Missing : \A n \in Missing : m <= n
    <2>1. Missing \in SUBSET Nat
      OBVIOUS
    <2> HIDE DEF Missing
    <2> QED
      BY <1>1, <2>1, LeastNumber
  <1>3. m - 1 \in 0 .. N - 1 /\ m - 1 \notin Missing
    BY <1>2
  <1> QED
    BY <1>2, <1>3

\* Sectors of a size.
LEMMA QuotientOf ==
  ASSUME NEW n \in Nat, n > 0, NEW a \in Int
  PROVE  a \div n \in Int /\ a % n \in 0 .. n - 1 /\ a = (a \div n) * n + (a % n)
  OBVIOUS
LEMMA QuotientIs ==
  ASSUME NEW n \in Nat, n > 0, NEW q \in Int, NEW r \in 0 .. n - 1, NEW a, a = q * n + r
  PROVE  a \div n = q /\ a % n = r
  OBVIOUS

\* A size in whole sectors.
LEMMA SectorsHold ==
  ASSUME PayloadSize \in Nat \ {0}, NEW size \in Nat
  PROVE  /\ SectorsOf(size) \in Nat
         /\ size <= SectorsOf(size) * PayloadSize /\ SectorsOf(size) * PayloadSize < size + PayloadSize
         /\ size > 0 => SectorsOf(size) > 0
         /\ \A k \in 1 .. size : (k - 1) \div PayloadSize \in 0 .. SectorsOf(size) - 1
         /\ \A k \in 1 .. size : (k - 1) % PayloadSize \in 0 .. PayloadSize - 1
         /\ \A k \in 1 .. size : ((k - 1) \div PayloadSize) * PayloadSize + ((k - 1) % PayloadSize) + 1 = k
  <1> DEFINE P == PayloadSize
             s == SectorsOf(size)
             a == size + P - 1
  <1>1. P \in Nat /\ P > 0 /\ a \in Int /\ s = a \div P
    BY DEF SectorsOf
  <1>2. s \in Int /\ a % P \in 0 .. P - 1 /\ a = s * P + (a % P)
    <2> HIDE DEF a, P
    <2> QED
      BY <1>1, QuotientOf
  <1>3. s * P \in Int /\ size <= s * P /\ s * P < size + P
    <2>1. s * P \in Int
      <3> HIDE DEF s, P
      <3> QED
        BY <1>1, <1>2
    <2> DEFINE m == s * P
               r == a % P
    <2>2. r \in 0 .. P - 1 /\ a = m + r /\ m \in Int
      BY <1>2, <2>1
    <2> HIDE DEF m, r, s
    <2>3. size <= m /\ m < size + P
      BY <1>1, <2>2 DEF a
    <2> QED
      BY <2>2, <2>3 DEF m
  <1>4. s \in Nat /\ (size > 0 => s > 0)
    <2> HIDE DEF s, P
    <2> QED
      BY <1>1, <1>2, <1>3
  <1>5. ASSUME NEW k \in 1 .. size
        PROVE  /\ (k - 1) \div P \in 0 .. s - 1 /\ (k - 1) % P \in 0 .. P - 1
               /\ ((k - 1) \div P) * P + ((k - 1) % P) + 1 = k
    <2> DEFINE j == k - 1
               q == j \div P
               t == j % P
               m == q * P
    <2> HIDE DEF s, P
    <2>1. j \in Int /\ j >= 0 /\ j < size
      BY <1>5
    <2> HIDE DEF j
    <2>2. q \in Int /\ t \in 0 .. P - 1 /\ j = q * P + t
      BY <1>1, <2>1, QuotientOf
    <2> HIDE DEF q, t
    <2>3. m \in Int
      BY <1>1, <2>2
    <2>4. m + t = j
      BY <2>2
    <2>5. m < s * P /\ m > - P
      <3> DEFINE M == s * P
      <3> HIDE DEF m, M
      <3>1. M \in Int /\ size <= M
        BY <1>3 DEF M
      <3>2. m < M /\ m > - P
        BY <1>1, <2>1, <2>2, <2>3, <2>4, <3>1
      <3> QED
        BY <3>2 DEF M
    <2>6. q < s
      BY <1>1, <1>4, <2>2, <2>5
    <2>7. q >= 0
      BY <1>1, <2>2, <2>5
    <2>8. m + t + 1 = k
      BY <2>2, <2>3, <2>4 DEF j
    <2> QED
      BY <1>4, <2>2, <2>6, <2>7, <2>8 DEF q, t, j
  <1> QED
    BY <1>3, <1>4, <1>5
\* Whole sectors take just as many.
LEMMA WholeSectors ==
  ASSUME PayloadSize \in Nat \ {0}, NEW count \in Nat
  PROVE  SectorsOf(count * PayloadSize) = count /\ count * PayloadSize \in Nat
  <1>1. count * PayloadSize \in Nat
    OBVIOUS
  <1>2. count * PayloadSize + PayloadSize - 1 = count * PayloadSize + (PayloadSize - 1)
    BY <1>1
  <1> DEFINE a == count * PayloadSize + PayloadSize - 1
  <1>3. a = count * PayloadSize + (PayloadSize - 1) /\ PayloadSize - 1 \in 0 .. PayloadSize - 1
    BY <1>2
  <1> HIDE DEF a
  <1>4. a \div PayloadSize = count
    BY <1>3, QuotientIs
  <1> QED
    BY <1>1, <1>4 DEF a, SectorsOf
\* A program with its zeros, and what a sector holds of it.
Holds(raw, lba, count, program) ==
  \A n \in 0 .. count - 1 :
    raw[lba + n].cells = Chunk(Padded(program, count * PayloadSize), n)
FitsIn(program, count) == Len(program) <= count * PayloadSize
LEMMA PaddedIs ==
  ASSUME NEW Values, NEW program \in Seq(Values), NEW capacity \in Nat, Len(program) <= capacity
  PROVE  /\ Padded(program, capacity) \in Seq(Values \cup {0}) /\ Len(Padded(program, capacity)) = capacity
         /\ \A k \in 1 .. capacity : Padded(program, capacity)[k] = IF k <= Len(program) THEN program[k] ELSE 0
  <1> DEFINE n == capacity - Len(program)
             zeros == [k \in 1 .. n |-> 0]
  <1>1. Len(program) \in Nat /\ n \in Nat
    BY LenProperties
  <1>2. zeros \in Seq(Values \cup {0}) /\ Len(zeros) = n /\ \A k \in 1 .. n : zeros[k] = 0
    BY <1>1
  <1>3. program \in Seq(Values \cup {0})
    OBVIOUS
  <1>4. /\ program \o zeros \in Seq(Values \cup {0}) /\ Len(program \o zeros) = Len(program) + n
        /\ \A k \in 1 .. Len(program) + n :
             (program \o zeros)[k] = IF k <= Len(program) THEN program[k] ELSE zeros[k - Len(program)]
    <2> HIDE DEF zeros, n
    <2> QED
      BY <1>2, <1>3, ConcatProperties
  <1>5. Padded(program, capacity) = program \o zeros
    BY DEF Padded
  <1>6. Len(program) + n = capacity
    BY <1>1
  <1> HIDE DEF zeros
  <1>7. ASSUME NEW k \in 1 .. capacity PROVE (program \o zeros)[k] = IF k <= Len(program) THEN program[k] ELSE 0
    <2>1. CASE k <= Len(program)
      BY <1>1, <1>4, <1>6, <2>1
    <2>2. CASE ~(k <= Len(program))
      <3>1. k - Len(program) \in 1 .. n
        BY <1>1, <2>2
      <3> HIDE DEF n
      <3> QED
        BY <1>1, <1>2, <1>4, <1>6, <2>2, <3>1
    <2> QED
      BY <2>1, <2>2, Zenon
  <1> QED
    BY <1>4, <1>5, <1>6, <1>7
\* The payload of a sector of it.
LEMMA ChunkIs ==
  ASSUME PayloadSize \in Nat \ {0}, NEW Values, NEW cells \in Seq(Values), NEW count \in Nat, Len(cells) = count * PayloadSize,
         NEW n \in 0 .. count - 1
  PROVE  \A i \in 0 .. PayloadSize - 1 :
           Chunk(cells, n)[i + 1] = cells[n * PayloadSize + i + 1]
  <1> DEFINE P == PayloadSize
             a == n * P
             b == (n + 1) * P
             c == count * P
  <1>1. P \in Nat /\ P > 0 /\ a \in Nat /\ b \in Nat /\ c \in Nat
    OBVIOUS
  <1>2. b = a + P /\ b <= c
    OBVIOUS
  <1> HIDE DEF a, b, c, P
  <1>3. \A i \in a + 1 .. b : cells[i] \in Values
    BY <1>1, <1>2 DEF c, P
  <1>4. \A i \in 1 .. b - (a + 1) + 1 : SubSeq(cells, a + 1, b)[i] = cells[a + 1 + i - 1]
    BY <1>1, <1>3, SubSeqProperties
  <1>5. ASSUME NEW i \in 0 .. P - 1 PROVE SubSeq(cells, a + 1, b)[i + 1] = cells[a + i + 1]
    <2>1. i + 1 \in 1 .. b - (a + 1) + 1 /\ a + 1 + (i + 1) - 1 = a + i + 1
      BY <1>1, <1>2
    <2> DEFINE chunk == SubSeq(cells, a + 1, b)
    <2>2. \A k \in 1 .. b - (a + 1) + 1 : chunk[k] = cells[a + 1 + k - 1]
      BY <1>4
    <2> HIDE DEF chunk
    <2>3. chunk[i + 1] = cells[a + i + 1]
      BY <2>1, <2>2
    <2> QED
      BY <2>3 DEF chunk
  <1> QED
    BY <1>5 DEF a, b, P, Chunk
\* What the console reads where a program is held.
LEMMA ReadsAs ==
  ASSUME PayloadSize \in Nat \ {0}, NEW Values, NEW program \in Seq(Values), NEW file, file.size \in Nat,
         Len(program) <= file.size, NEW raw, Holds(raw, file.lba, SectorsOf(file.size), program)
  PROVE  ReadFile(raw, file) = Padded(program, file.size)
  <1> DEFINE size == file.size
             P == PayloadSize
             count == SectorsOf(size)
             whole == Padded(program, count * P)
             part == Padded(program, size)
  <1>1. /\ count \in Nat /\ size \in Nat /\ size <= count * P
        /\ \A k \in 1 .. size : (k - 1) \div P \in 0 .. count - 1 /\ (k - 1) % P \in 0 .. P - 1
        /\ \A k \in 1 .. size : ((k - 1) \div P) * P + ((k - 1) % P) + 1 = k
    BY SectorsHold
  <1>2. count * P \in Nat
    BY <1>1, WholeSectors
  <1>3. Len(program) \in Nat
    BY LenProperties
  <1> DEFINE c == count * P
  <1>4. c \in Nat /\ size <= c /\ Len(program) <= c
    <2>1. c \in Nat /\ size <= c
      BY <1>1, <1>2
    <2> HIDE DEF c
    <2> QED
      BY <1>1, <1>3, <2>1
  <1>5. whole \in Seq(Values \cup {0}) /\ Len(whole) = c
        /\ \A k \in 1 .. c : whole[k] = IF k <= Len(program) THEN program[k] ELSE 0
    <2> HIDE DEF c
    <2>1. /\ Padded(program, c) \in Seq(Values \cup {0}) /\ Len(Padded(program, c)) = c
          /\ \A k \in 1 .. c : Padded(program, c)[k] = IF k <= Len(program) THEN program[k] ELSE 0
      BY <1>4, PaddedIs
    <2> QED
      BY <2>1 DEF c
  <1>6. part \in Seq(Values \cup {0}) /\ Len(part) = size
        /\ \A k \in 1 .. size : part[k] = IF k <= Len(program) THEN program[k] ELSE 0
    BY <1>1, PaddedIs
  <1>7. ASSUME NEW k \in 1 .. size PROVE raw[file.lba + ((k - 1) \div P)].cells[((k - 1) % P) + 1] = part[k]
    <2> DEFINE q == (k - 1) \div P
               r == (k - 1) % P
    <2>1. q \in 0 .. count - 1 /\ r \in 0 .. P - 1 /\ q * P + r + 1 = k
      BY <1>1
    <2>2. raw[file.lba + q].cells = Chunk(whole, q)
      BY <2>1 DEF Holds
    <2> HIDE DEF q, r, whole, count
    <2>3. Chunk(whole, q)[r + 1] = whole[q * P + r + 1]
      BY <1>1, <1>5, <2>1, ChunkIs
    <2>4. k \in 1 .. c
      <3> HIDE DEF c
      <3> QED
        BY <1>1, <1>4
    <2>5. whole[k] = part[k]
      BY <1>5, <1>6, <2>4
    <2>6. raw[file.lba + q].cells[r + 1] = part[k]
      BY <2>1, <2>2, <2>3, <2>5
    <2> QED
      BY <2>6 DEF q, r
  <1>8. part = [k \in 1 .. size |-> part[k]]
    BY <1>6
  <1> HIDE DEF part
  <1>9. ReadFile(raw, file) = [k \in 1 .. size |-> part[k]]
    BY <1>7 DEF ReadFile
  <1> QED
    BY <1>8, <1>9 DEF part
-----------------------------------------------------------------------------
(* What the steps of a rebuild do to the sectors. *)

Numbered(raw) == IsFiniteSet(DOMAIN raw) /\ DOMAIN raw = 0 .. SectorCount(raw) - 1
IsSector(sector) ==
  sector = [cells |-> sector.cells, check |-> sector.check, form |-> sector.form, address |-> sector.address]
Addressed(raw) == \A n \in DOMAIN raw : IsSector(raw[n]) /\ raw[n].address = n
LEMMA NumberedIs ==
  ASSUME NEW raw, NEW count \in Nat, DOMAIN raw = 0 .. count - 1
  PROVE  Numbered(raw) /\ SectorCount(raw) = count
  BY FS_Interval DEF Numbered, SectorCount
LEMMA CountIs ==
  ASSUME NEW raw, Numbered(raw)
  PROVE  SectorCount(raw) \in Nat /\ DOMAIN raw = 0 .. SectorCount(raw) - 1
  BY FS_CardinalityType DEF Numbered, SectorCount

LEMMA EnlargedIs ==
  ASSUME NEW raw, Numbered(raw), Addressed(raw), NEW count \in Nat
  PROVE  /\ Numbered(Enlarged(raw, count)) /\ SectorCount(Enlarged(raw, count)) = SectorCount(raw) + count
         /\ Addressed(Enlarged(raw, count)) /\ DOMAIN raw \subseteq DOMAIN Enlarged(raw, count)
         /\ \A n \in DOMAIN raw : Enlarged(raw, count)[n] = raw[n]
  <1>1. SectorCount(raw) \in Nat /\ DOMAIN raw = 0 .. SectorCount(raw) - 1
    BY CountIs
  <1>2. DOMAIN Enlarged(raw, count) = 0 .. SectorCount(raw) + count - 1
    BY DEF Enlarged
  <1>3. Numbered(Enlarged(raw, count)) /\ SectorCount(Enlarged(raw, count)) = SectorCount(raw) + count
    <2> DEFINE big == Enlarged(raw, count)
               all == SectorCount(raw) + count
    <2>1. all \in Nat /\ DOMAIN big = 0 .. all - 1
      BY <1>1, <1>2
    <2> HIDE DEF big, all
    <2>2. Numbered(big) /\ SectorCount(big) = all
      BY <2>1, NumberedIs
    <2> QED
      BY <2>2 DEF big, all
  <1>4. \A n \in DOMAIN raw : n \in DOMAIN Enlarged(raw, count) /\ Enlarged(raw, count)[n] = raw[n]
    BY <1>1, <1>2 DEF Enlarged
  <1>5. ASSUME NEW n \in DOMAIN Enlarged(raw, count), n \notin DOMAIN raw PROVE Enlarged(raw, count)[n] = Blank(n)
    BY <1>2, <1>5 DEF Enlarged
  <1>6. \A n : IsSector(Blank(n)) /\ Blank(n).address = n
    BY DEF Blank, IsSector
  <1>7. Addressed(Enlarged(raw, count))
    BY <1>4, <1>5, <1>6 DEF Addressed
  <1> QED
    BY <1>3, <1>4, <1>7

\* new is raw but for the sector and size that entry i of sector n names.
Renames(raw, new, n, i, lba, size) ==
  /\ DOMAIN new = DOMAIN raw /\ Addressed(new)
  /\ \A m \in DOMAIN raw \ {n} : new[m] = raw[m]
  /\ new[n].check = raw[n].check /\ new[n].form = raw[n].form
  /\ new[n].cells \in Seq(Entries) /\ DOMAIN new[n].cells = DOMAIN raw[n].cells
  /\ \A j \in DOMAIN raw[n].cells \ {i} : new[n].cells[j] = raw[n].cells[j]
  /\ new[n].cells[i] = [raw[n].cells[i] EXCEPT !.lba = lba, !.size = size]
LEMMA NamedIs ==
  ASSUME NEW raw, Addressed(raw), NEW n \in DOMAIN raw, raw[n].cells \in Seq(Entries), NEW i \in DOMAIN raw[n].cells,
         NEW lba \in Nat, NEW size \in Nat
  PROVE  Renames(raw, Named(raw, <<n, i>>, lba, size), n, i, lba, size)
  <1> DEFINE new == Named(raw, <<n, i>>, lba, size)
             entry == [raw[n].cells[i] EXCEPT !.lba = lba, !.size = size]
             cells == [raw[n].cells EXCEPT ![i] = entry]
  <1>1. new = [raw EXCEPT ![n] = [raw[n] EXCEPT !.cells = cells]]
    BY DEF Named
  <1>2. raw[n] = [cells |-> raw[n].cells, check |-> raw[n].check, form |-> raw[n].form, address |-> raw[n].address]
        /\ raw[n].address = n
    BY DEF Addressed, IsSector
  <1>3. entry \in Entries
    <2>1. raw[n].cells[i] \in Entries
      OBVIOUS
    <2> QED
      BY <2>1 DEF Entries
  <1>4. cells \in Seq(Entries) /\ DOMAIN cells = DOMAIN raw[n].cells /\ cells[i] = entry
        /\ \A j \in DOMAIN raw[n].cells \ {i} : cells[j] = raw[n].cells[j]
    <2> HIDE DEF entry
    <2> QED
      BY <1>3
  <1> HIDE DEF new, cells
  <1>5. [raw[n] EXCEPT !.cells = cells] = [cells |-> cells, check |-> raw[n].check, form |-> raw[n].form, address |-> n]
    BY <1>2
  <1>6. DOMAIN new = DOMAIN raw /\ \A m \in DOMAIN raw \ {n} : new[m] = raw[m]
    BY <1>1
  <1>7. new[n] = [cells |-> cells, check |-> raw[n].check, form |-> raw[n].form, address |-> n]
    BY <1>1, <1>5
  <1>8. Addressed(new)
    BY <1>6, <1>7 DEF Addressed, IsSector
  <1>9. /\ new[n].check = raw[n].check /\ new[n].form = raw[n].form /\ new[n].cells = cells
    BY <1>7
  <1> QED
    BY <1>4, <1>6, <1>8, <1>9 DEF new, Renames

LEMMA WrittenIs ==
  ASSUME PayloadSize \in Nat \ {0}, NEW Values, NEW program \in Seq(Values), NEW lba \in Nat, NEW count \in Nat,
         FitsIn(program, count), NEW raw, Numbered(raw), Addressed(raw), lba + count <= SectorCount(raw)
  PROVE  LET new == WritePayload(raw, lba, Padded(program, count * PayloadSize))
         IN /\ DOMAIN new = DOMAIN raw /\ Addressed(new) /\ Holds(new, lba, count, program)
            /\ \A n \in DOMAIN raw \ (lba .. lba + count - 1) : new[n] = raw[n]
            /\ \A n \in DOMAIN raw : new[n].form = raw[n].form
  <1> DEFINE cells == Padded(program, count * PayloadSize)
             new == WritePayload(raw, lba, cells)
  <1>1. SectorCount(raw) \in Nat /\ DOMAIN raw = 0 .. SectorCount(raw) - 1
    BY CountIs
  <1>2. count * PayloadSize \in Nat /\ SectorsOf(count * PayloadSize) = count
    BY WholeSectors
  <1>3. Len(cells) = count * PayloadSize
    BY <1>2, PaddedIs DEF FitsIn
  <1>4. SectorsOf(Len(cells)) = count
    BY <1>2, <1>3
  <1> HIDE DEF cells
  <1>5. DOMAIN new = DOMAIN raw
    BY DEF WritePayload
  <1>6. ASSUME NEW n \in DOMAIN raw \ (lba .. lba + count - 1) PROVE new[n] = raw[n]
    BY <1>1, <1>4, <1>6 DEF WritePayload
  <1>7. ASSUME NEW n \in lba .. lba + count - 1
        PROVE  n \in DOMAIN raw /\ new[n] = [raw[n] EXCEPT !.cells = Chunk(cells, n - lba)]
    <2>1. n \in DOMAIN raw
      BY <1>1, <1>7
    <2>2. lba <= n /\ n < lba + count
      BY <1>7
    <2> QED
      BY <1>4, <2>1, <2>2 DEF WritePayload
  <1>8. ASSUME NEW n \in lba .. lba + count - 1
        PROVE  IsSector(new[n]) /\ new[n].address = n /\ new[n].form = raw[n].form /\ new[n].cells = Chunk(cells, n - lba)
    <2> HIDE DEF new
    <2>1. n \in DOMAIN raw /\ new[n] = [raw[n] EXCEPT !.cells = Chunk(cells, n - lba)]
      BY <1>7
    <2>2. raw[n] = [cells |-> raw[n].cells, check |-> raw[n].check, form |-> raw[n].form, address |-> raw[n].address]
          /\ raw[n].address = n
      BY <2>1 DEF Addressed, IsSector
    <2>3. new[n] = [cells |-> Chunk(cells, n - lba), check |-> raw[n].check, form |-> raw[n].form, address |-> n]
      BY <2>1, <2>2
    <2> QED
      BY <2>3 DEF IsSector
  <1> HIDE DEF new
  <1>9. Holds(new, lba, count, program)
    <2> SUFFICES ASSUME NEW n \in 0 .. count - 1 PROVE new[lba + n].cells = Chunk(cells, n)
      BY DEF Holds, cells
    <2>1. lba + n \in lba .. lba + count - 1 /\ (lba + n) - lba = n
      OBVIOUS
    <2> QED
      BY <1>8, <2>1
  <1>10. Addressed(new)
    <2> SUFFICES ASSUME NEW n \in DOMAIN raw PROVE IsSector(new[n]) /\ new[n].address = n
      BY <1>5 DEF Addressed
    <2>1. CASE n \in lba .. lba + count - 1
      BY <1>8, <2>1
    <2>2. CASE n \notin lba .. lba + count - 1
      BY <1>6, <2>2 DEF Addressed
    <2> QED
      BY <2>1, <2>2
  <1>11. \A n \in DOMAIN raw : new[n].form = raw[n].form
    <2>1. \A n \in lba .. lba + count - 1 : new[n].form = raw[n].form
      BY <1>8
    <2> QED
      BY <1>6, <2>1
  <1> QED
    BY <1>5, <1>6, <1>9, <1>10, <1>11 DEF new, cells
-----------------------------------------------------------------------------
(* What iso_files reads in a directory. *)

EntryAt(raw, at) == raw[at[1]].cells[at[2]]
\* The entry is read: no gap before it, and a file's.
IsFileAt(raw, n, i) ==
  /\ n \in Directory(raw) /\ i \in DOMAIN raw[n].cells
  /\ \A j \in 1 .. i : raw[n].cells[j] # Gap
  /\ ~raw[n].cells[i].directory
FileOf(raw, n, i) == [lba |-> raw[n].cells[i].lba, size |-> raw[n].cells[i].size, at |-> <<n, i>>]
LEMMA RootFileIs ==
  ASSUME NEW raw
  PROVE  /\ \A n, i : IsFileAt(raw, n, i) => [record |-> raw[n].cells[i], at |-> <<n, i>>] \in RootFiles(raw)
         /\ \A r \in RootFiles(raw) : \E n, i : IsFileAt(raw, n, i) /\ r = [record |-> raw[n].cells[i], at |-> <<n, i>>]
  <1>1. ASSUME NEW n, NEW i, IsFileAt(raw, n, i)
        PROVE  [record |-> raw[n].cells[i], at |-> <<n, i>>] \in RootFiles(raw)
    <2> DEFINE r == [record |-> raw[n].cells[i], at |-> <<n, i>>]
    <2>1. n \in Directory(raw) /\ r \in RecordsIn(raw, n) /\ ~r.record.directory
      BY <1>1 DEF IsFileAt, RecordsIn
    <2> HIDE DEF r
    <2>2. r \in UNION {RecordsIn(raw, m) : m \in Directory(raw)}
      BY <2>1
    <2>3. r \in RootFiles(raw)
      BY <2>1, <2>2 DEF RootFiles
    <2> QED
      BY <2>3 DEF r
  <1>2. ASSUME NEW r \in RootFiles(raw)
        PROVE  \E n, i : IsFileAt(raw, n, i) /\ r = [record |-> raw[n].cells[i], at |-> <<n, i>>]
    <2>1. r \in UNION {RecordsIn(raw, m) : m \in Directory(raw)} /\ ~r.record.directory
      BY DEF RootFiles
    <2>2. PICK n \in Directory(raw) : r \in RecordsIn(raw, n)
      BY <2>1
    <2>3. PICK i \in DOMAIN raw[n].cells :
            (\A j \in 1 .. i : raw[n].cells[j] # Gap) /\ r = [record |-> raw[n].cells[i], at |-> <<n, i>>]
      BY <2>2 DEF RecordsIn
    <2>4. r.record = raw[n].cells[i]
      BY <2>3
    <2>5. IsFileAt(raw, n, i)
      BY <2>1, <2>3, <2>4 DEF IsFileAt
    <2> QED
      BY <2>3, <2>5
  <1> QED
    BY <1>1, <1>2
\* A name stands for one entry.
LEMMA IsoFileIs ==
  ASSUME NEW raw, Listable(raw)
  PROVE  /\ \A n, i : IsFileAt(raw, n, i) =>
              /\ raw[n].cells[i].name \in DOMAIN IsoFiles(raw)
              /\ IsoFiles(raw)[raw[n].cells[i].name] = FileOf(raw, n, i)
         /\ \A name \in DOMAIN IsoFiles(raw) : \E n, i :
              IsFileAt(raw, n, i) /\ raw[n].cells[i].name = name
  <1> DEFINE files == RootFiles(raw)
             Found(name) == CHOOSE r \in files : r.record.name = name
  <1>1. \A r, s \in files : r.record.name = s.record.name => r = s
    BY DEF Listable
  <1>2. DOMAIN IsoFiles(raw) = {r.record.name : r \in files}
    BY DEF IsoFiles
  <1>3. ASSUME NEW r \in files
        PROVE  /\ r.record.name \in DOMAIN IsoFiles(raw)
               /\ IsoFiles(raw)[r.record.name] = [lba |-> r.record.lba, size |-> r.record.size, at |-> r.at]
    <2>1. Found(r.record.name) = r
      BY <1>1, <1>3
    <2>2. r.record.name \in DOMAIN IsoFiles(raw)
      BY <1>2
    <2> QED
      BY <2>1, <2>2 DEF IsoFiles
  <1>4. ASSUME NEW n, NEW i, IsFileAt(raw, n, i)
        PROVE  /\ raw[n].cells[i].name \in DOMAIN IsoFiles(raw)
               /\ IsoFiles(raw)[raw[n].cells[i].name] = FileOf(raw, n, i)
    <2> DEFINE r == [record |-> raw[n].cells[i], at |-> <<n, i>>]
    <2>1. r \in files
      BY <1>4, RootFileIs
    <2>2. r.record = raw[n].cells[i] /\ r.at = <<n, i>>
      OBVIOUS
    <2> HIDE DEF r, files
    <2> QED
      BY <1>3, <2>1, <2>2 DEF FileOf
  <1>5. ASSUME NEW name \in DOMAIN IsoFiles(raw) PROVE \E n, i : IsFileAt(raw, n, i) /\ raw[n].cells[i].name = name
    <2>1. PICK r \in files : name = r.record.name
      BY <1>2
    <2>2. PICK n, i : IsFileAt(raw, n, i) /\ r = [record |-> raw[n].cells[i], at |-> <<n, i>>]
      BY RootFileIs
    <2>3. raw[n].cells[i].name = name
      BY <2>1, <2>2
    <2> QED
      BY <2>2, <2>3
  <1> QED
    BY <1>4, <1>5
LEMMA FoundAt ==
  ASSUME NEW raw, Listable(raw), NEW n, NEW i, IsFileAt(raw, n, i)
  PROVE  /\ raw[n].cells[i].name \in DOMAIN IsoFiles(raw)
         /\ IsoFiles(raw)[raw[n].cells[i].name] = FileOf(raw, n, i)
  <1>1. \A m, j : IsFileAt(raw, m, j) =>
          /\ raw[m].cells[j].name \in DOMAIN IsoFiles(raw)
          /\ IsoFiles(raw)[raw[m].cells[j].name] = FileOf(raw, m, j)
    BY IsoFileIs
  <1> QED
    BY <1>1, Zenon
-----------------------------------------------------------------------------
(* The retail disc and its files. *)

LEMMA MasteredIs ==
  ASSUME PayloadSize \in Nat \ {0}, NEW retail, Mastered(retail)
  PROVE  /\ Numbered(retail) /\ Addressed(retail) /\ SectorCount(retail) \in Nat
         /\ \A n \in DOMAIN retail : retail[n].check = retail[n].cells
         /\ \A n \in Directory(retail) : n \in DOMAIN retail /\ n \in Nat /\ n < SectorCount(retail)
         /\ Descriptor \in DOMAIN retail /\ Descriptor \notin Directory(retail)
         /\ Volume(retail) \in [root : Nat, sectors : Nat, total : Nat]
  <1>1. Numbered(retail)
    BY DEF Mastered, Numbered
  <1>2. SectorCount(retail) \in Nat /\ DOMAIN retail = 0 .. SectorCount(retail) - 1
    BY <1>1, CountIs
  <1>3. ASSUME NEW n \in DOMAIN retail
        PROVE  IsSector(retail[n]) /\ retail[n].address = n /\ retail[n].check = retail[n].cells
    <2>1. retail[n] = [cells |-> retail[n].cells, check |-> retail[n].cells, form |-> retail[n].form, address |-> n]
      BY DEF Mastered
    <2> QED
      BY <2>1 DEF IsSector
  <1>4. Volume(retail) \in [root : Nat, sectors : Nat, total : Nat]
    BY DEF Mastered, Volume
  <1>5. ASSUME NEW n \in Directory(retail) PROVE n \in DOMAIN retail /\ n \in Nat /\ n < SectorCount(retail)
    <2> DEFINE root == Volume(retail).root
               sectors == Volume(retail).sectors
    <2>1. root \in Nat /\ sectors \in Nat
      BY <1>4
    <2>2. Fits(retail, root, sectors * PayloadSize) /\ n \in root .. root + sectors - 1
      BY DEF Mastered, Listable, Directory
    <2> HIDE DEF root, sectors
    <2>3. SectorsOf(sectors * PayloadSize) = sectors
      BY <2>1, WholeSectors
    <2>4. root + sectors <= SectorCount(retail)
      BY <2>2, <2>3 DEF Fits
    <2> QED
      BY <1>2, <2>1, <2>2, <2>4
  <1> QED
    BY <1>1, <1>2, <1>3, <1>4, <1>5 DEF Addressed, Mastered
LEMMA RetailFile ==
  ASSUME PayloadSize \in Nat \ {0}, NEW retail, Mastered(retail), NEW name \in DOMAIN IsoFiles(retail)
  PROVE  \E n, i :
           /\ IsFileAt(retail, n, i) /\ retail[n].cells \in Seq(Entries)
           /\ IsoFiles(retail)[name] = FileOf(retail, n, i)
           /\ retail[n].cells[i].name = name
           /\ retail[n].cells[i].lba \in Nat /\ retail[n].cells[i].size \in Nat
  <1>0. Listable(retail)
    BY DEF Mastered
  <1>1. PICK n, i : IsFileAt(retail, n, i) /\ retail[n].cells[i].name = name
    BY <1>0, IsoFileIs
  <1>2. n \in Directory(retail) /\ i \in DOMAIN retail[n].cells
    BY <1>1 DEF IsFileAt
  <1>3. retail[n].cells \in Seq(Entries)
    BY <1>2 DEF Mastered
  <1>4. retail[n].cells[i] \in Entries
    BY <1>2, <1>3
  <1>5. retail[n].cells[i].lba \in Nat /\ retail[n].cells[i].size \in Nat
    BY <1>4 DEF Entries
  <1>6. IsoFiles(retail)[name] = FileOf(retail, n, i)
    <2>1. IsoFiles(retail)[retail[n].cells[i].name] =
            FileOf(retail, n, i)
      BY <1>0, <1>1, FoundAt
    <2> QED
      BY <1>1, <2>1
  <1> QED
    BY <1>1, <1>2, <1>3, <1>5, <1>6
\* Where a file is: its extent, its entry, and no other's.
LEMMA FileIs ==
  ASSUME PayloadSize \in Nat \ {0}, NEW retail, Mastered(retail), NEW name \in DOMAIN IsoFiles(retail)
  PROVE  LET file == IsoFiles(retail)[name]
             entry == EntryAt(retail, file.at)
         IN /\ file.lba \in Nat /\ file.size \in Nat /\ SectorsOf(file.size) \in Nat
            /\ file.lba + SectorsOf(file.size) <= SectorCount(retail)
            /\ file.at = <<file.at[1], file.at[2]>> /\ IsFileAt(retail, file.at[1], file.at[2])
            /\ retail[file.at[1]].cells \in Seq(Entries)
            /\ entry \in Entries /\ entry.name = name /\ entry.lba = file.lba /\ entry.size = file.size /\ ~entry.directory
  <1> DEFINE file == IsoFiles(retail)[name]
             entry == EntryAt(retail, file.at)
  <1>1. PICK n, i :
           /\ IsFileAt(retail, n, i) /\ retail[n].cells \in Seq(Entries)
           /\ file = FileOf(retail, n, i)
           /\ retail[n].cells[i].name = name
           /\ retail[n].cells[i].lba \in Nat /\ retail[n].cells[i].size \in Nat
    BY RetailFile
  <1>2. file.at = <<n, i>> /\ file.lba = retail[n].cells[i].lba /\ file.size = retail[n].cells[i].size
    BY <1>1 DEF FileOf
  <1>3. file.at[1] = n /\ file.at[2] = i
    BY <1>2
  <1>4. entry = retail[n].cells[i]
    BY <1>3 DEF EntryAt
  <1>5. Fits(retail, file.lba, file.size)
    BY DEF Mastered
  <1>6. retail[n].cells[i] \in Entries
    BY <1>1 DEF IsFileAt
  <1> HIDE DEF file, entry
  <1>7. file.size \in Nat /\ SectorsOf(file.size) \in Nat
    BY <1>1, <1>2, SectorsHold
  <1>8. ~entry.directory
    BY <1>1, <1>4 DEF IsFileAt
  <1>9. /\ file.lba \in Nat /\ file.lba + SectorsOf(file.size) <= SectorCount(retail)
        /\ file.at = <<file.at[1], file.at[2]>> /\ IsFileAt(retail, file.at[1], file.at[2])
        /\ retail[file.at[1]].cells \in Seq(Entries)
        /\ entry \in Entries /\ entry.name = name /\ entry.lba = file.lba /\ entry.size = file.size
    BY <1>1, <1>2, <1>3, <1>4, <1>5, <1>6 DEF Fits
  <1> QED
    BY <1>7, <1>8, <1>9 DEF file, entry
\* Two files have two entries.
LEMMA EntriesApart ==
  ASSUME PayloadSize \in Nat \ {0}, NEW retail, Mastered(retail),
         NEW name \in DOMAIN IsoFiles(retail), NEW other \in DOMAIN IsoFiles(retail),
         IsoFiles(retail)[name].at = IsoFiles(retail)[other].at
  PROVE  name = other
  BY FileIs
-----------------------------------------------------------------------------
(* The programs placed so far. *)

Given(retail, programs, Values) ==
  /\ PayloadSize \in Nat \ {0} /\ AddressEnd \in Int
  /\ Mastered(retail) /\ programs \in [Programs -> Seq(Values)]
  /\ \A name \in Programs :
       /\ name \in DOMAIN IsoFiles(retail) /\ IsoFiles(retail)[name].size % PayloadSize = 0
       /\ Len(programs[name]) > 0
Grows(retail, programs, name) == Len(programs[name]) > IsoFiles(retail)[name].size
SizeNow(retail, programs, name) ==
  IF Grows(retail, programs, name) THEN Len(programs[name]) ELSE IsoFiles(retail)[name].size
EntryNow(raw, retail, name) == EntryAt(raw, IsoFiles(retail)[name].at)
Place(raw, retail, programs, name) ==
  EntryNow(raw, retail, name).lba .. EntryNow(raw, retail, name).lba + SectorsOf(SizeNow(retail, programs, name)) - 1
\* A program has its sectors, and its entry names them.
HasPlace(raw, retail, programs, name) ==
  LET lba == EntryNow(raw, retail, name).lba
      count == SectorsOf(SizeNow(retail, programs, name))
  IN /\ lba \in Nat /\ lba + count <= SectorCount(raw)
     /\ IF Grows(retail, programs, name) THEN lba >= SectorCount(retail) ELSE lba = IsoFiles(retail)[name].lba
     /\ EntryNow(raw, retail, name) = [EntryNow(retail, retail, name) EXCEPT !.lba = lba, !.size = SizeNow(retail, programs, name)]
     /\ Holds(raw, lba, count, programs[name])
PlacedSoFar(disc, retail, programs, S) ==
  /\ disc = [original |-> retail, raw |-> disc.raw, changed |-> disc.changed, failed |-> disc.failed]
  /\ Numbered(disc.raw) /\ Addressed(disc.raw) /\ SectorCount(retail) <= SectorCount(disc.raw)
  /\ disc.failed \/ SectorCount(disc.raw) = SectorCount(retail) \/ SectorCount(disc.raw) <= AddressEnd
  /\ disc.changed \subseteq DOMAIN disc.raw
  /\ \A n \in DOMAIN disc.raw \ disc.changed : n \in DOMAIN retail /\ disc.raw[n] = retail[n]
  /\ \A n \in DOMAIN retail \ Directory(retail) :
       (\A name \in S : n \notin Place(disc.raw, retail, programs, name)) => disc.raw[n] = retail[n]
  /\ \A n \in Directory(retail) :
       /\ disc.raw[n].cells \in Seq(Entries) /\ DOMAIN disc.raw[n].cells = DOMAIN retail[n].cells
       /\ \A i \in DOMAIN retail[n].cells :
            disc.raw[n].cells[i] = retail[n].cells[i] \/ \E name \in S : IsoFiles(retail)[name].at = <<n, i>>
  /\ \A name \in S : HasPlace(disc.raw, retail, programs, name)
  /\ \A name, other \in S :
       name # other => \A n \in Place(disc.raw, retail, programs, name) : n \notin Place(disc.raw, retail, programs, other)

LEMMA GivenIs ==
  ASSUME NEW Values, NEW retail, NEW programs, Given(retail, programs, Values), NEW name \in Programs
  PROVE  /\ name \in DOMAIN IsoFiles(retail) /\ programs[name] \in Seq(Values) /\ Len(programs[name]) \in Nat
         /\ SizeNow(retail, programs, name) \in Nat /\ SectorsOf(SizeNow(retail, programs, name)) \in Nat
         /\ Len(programs[name]) <= SizeNow(retail, programs, name) /\ SizeNow(retail, programs, name) > 0
         /\ FitsIn(programs[name], SectorsOf(SizeNow(retail, programs, name)))
  <1>1. name \in DOMAIN IsoFiles(retail) /\ programs[name] \in Seq(Values) /\ Len(programs[name]) \in Nat
        /\ Len(programs[name]) > 0 /\ PayloadSize \in Nat \ {0} /\ Mastered(retail)
    BY LenProperties DEF Given
  <1>2. IsoFiles(retail)[name].size \in Nat
    BY <1>1, FileIs
  <1>3. SizeNow(retail, programs, name) \in Nat /\ SizeNow(retail, programs, name) > 0
        /\ Len(programs[name]) <= SizeNow(retail, programs, name)
    BY <1>1, <1>2 DEF SizeNow, Grows
  <1>4. SectorsOf(SizeNow(retail, programs, name)) \in Nat
        /\ SizeNow(retail, programs, name) <= SectorsOf(SizeNow(retail, programs, name)) * PayloadSize
    BY <1>1, <1>3, SectorsHold
  <1>5. FitsIn(programs[name], SectorsOf(SizeNow(retail, programs, name)))
    <2> DEFINE c == SectorsOf(SizeNow(retail, programs, name)) * PayloadSize
    <2>1. c \in Nat
      BY <1>1, <1>4, WholeSectors
    <2>2. SizeNow(retail, programs, name) <= c
      BY <1>4
    <2> HIDE DEF c
    <2>3. Len(programs[name]) <= c
      BY <1>1, <1>3, <2>1, <2>2
    <2> QED
      BY <2>3 DEF c, FitsIn
  <1> QED
    BY <1>1, <1>3, <1>4, <1>5
\* A program stays placed while its entry and its sectors stay.
LEMMA PlaceStays ==
  ASSUME NEW Values, NEW retail, NEW programs, Given(retail, programs, Values), NEW name \in Programs,
         NEW raw, HasPlace(raw, retail, programs, name), SectorCount(raw) \in Nat,
         NEW new, SectorCount(new) \in Nat, SectorCount(raw) <= SectorCount(new),
         EntryNow(new, retail, name) = EntryNow(raw, retail, name),
         \A n \in Place(raw, retail, programs, name) : new[n].cells = raw[n].cells
  PROVE  HasPlace(new, retail, programs, name) /\ Place(new, retail, programs, name) = Place(raw, retail, programs, name)
  <1> DEFINE lba == EntryNow(raw, retail, name).lba
             count == SectorsOf(SizeNow(retail, programs, name))
  <1>1. count \in Nat
    BY GivenIs
  <1>2. lba \in Nat /\ lba + count <= SectorCount(raw) /\ Holds(raw, lba, count, programs[name])
    BY DEF HasPlace
  <1>3. \A n \in 0 .. count - 1 : new[lba + n].cells = raw[lba + n].cells
    <2>1. Place(raw, retail, programs, name) = lba .. lba + count - 1
      BY DEF Place
    <2> HIDE DEF lba, count
    <2> QED
      BY <1>1, <1>2, <2>1
  <1>4. Holds(new, lba, count, programs[name])
    BY <1>2, <1>3 DEF Holds
  <1>5. lba + count <= SectorCount(new)
    <2> HIDE DEF lba, count
    <2> QED
      BY <1>1, <1>2
  <1>6. EntryNow(new, retail, name).lba = lba
    OBVIOUS
  <1> QED
    BY <1>2, <1>4, <1>5, <1>6 DEF HasPlace, Place
\* Off the directory; on the retail disc only where the program was.
LEMMA PlaceIs ==
  ASSUME NEW Values, NEW retail, NEW programs, Given(retail, programs, Values), NEW name \in Programs,
         NEW raw, HasPlace(raw, retail, programs, name), SectorCount(raw) \in Nat
  PROVE  \A n \in Place(raw, retail, programs, name) :
           /\ n \in Nat /\ n < SectorCount(raw) /\ n \notin Directory(retail) /\ n # Descriptor
           /\ n < SectorCount(retail) => ~Grows(retail, programs, name) /\ n \in Extent(IsoFiles(retail)[name])
           /\ n >= SectorCount(retail) => Grows(retail, programs, name)
  <1> DEFINE lba == EntryNow(raw, retail, name).lba
             count == SectorsOf(SizeNow(retail, programs, name))
             file == IsoFiles(retail)[name]
  <1>1. count \in Nat /\ name \in DOMAIN IsoFiles(retail)
    BY GivenIs
  <1>2. lba \in Nat /\ lba + count <= SectorCount(raw)
        /\ IF Grows(retail, programs, name) THEN lba >= SectorCount(retail) ELSE lba = file.lba
    BY DEF HasPlace
  <1>3. PayloadSize \in Nat \ {0} /\ Mastered(retail)
    BY DEF Given
  <1>4. SectorCount(retail) \in Nat /\ Descriptor \in DOMAIN retail
        /\ \A n \in Directory(retail) : n \in Nat /\ n < SectorCount(retail)
    BY <1>3, MasteredIs
  <1>5. Descriptor \in Nat /\ Descriptor < SectorCount(retail)
    <2>1. DOMAIN retail = 0 .. SectorCount(retail) - 1
      BY <1>3 DEF Mastered
    <2> QED
      BY <1>4, <2>1
  <1>6. \A n \in Extent(file) : n \notin Directory(retail) /\ n # Descriptor
    BY <1>1, <1>3 DEF Mastered
  <1>7. file.lba \in Nat /\ SectorsOf(file.size) \in Nat /\ file.lba + SectorsOf(file.size) <= SectorCount(retail)
    BY <1>1, <1>3, FileIs
  <1>8. ~Grows(retail, programs, name) => lba .. lba + count - 1 = Extent(file)
    BY <1>2 DEF SizeNow, Extent
  <1>9. \A n \in Extent(file) : n \in Nat /\ n < SectorCount(retail)
    <2> HIDE DEF file
    <2> QED
      BY <1>4, <1>7 DEF Extent
  <1>10. Place(raw, retail, programs, name) = lba .. lba + count - 1
    BY DEF Place
  <1> HIDE DEF lba, count, file
  <1> SUFFICES ASSUME NEW n \in lba .. lba + count - 1
               PROVE  /\ n \in Nat /\ n < SectorCount(raw) /\ n \notin Directory(retail) /\ n # Descriptor
                      /\ n < SectorCount(retail) => ~Grows(retail, programs, name) /\ n \in Extent(file)
                      /\ n >= SectorCount(retail) => Grows(retail, programs, name)
    BY <1>10 DEF file
  <1>11. n \in Nat /\ n >= lba /\ n < SectorCount(raw)
    BY <1>1, <1>2
  <1>12. CASE Grows(retail, programs, name)
    <2>1. n >= SectorCount(retail)
      BY <1>2, <1>4, <1>11, <1>12
    <2>2. n \notin Directory(retail) /\ n # Descriptor
      BY <1>4, <1>5, <1>11, <2>1
    <2> QED
      BY <1>4, <1>11, <1>12, <2>1, <2>2
  <1>13. CASE ~Grows(retail, programs, name)
    <2>1. n \in Extent(file)
      BY <1>8, <1>13
    <2>2. ~(n >= SectorCount(retail))
      BY <1>4, <1>9, <2>1
    <2> QED
      BY <1>6, <1>11, <1>13, <2>1, <2>2
  <1> QED
    BY <1>12, <1>13
\* A program no longer than the one it stands for goes to its sectors.
LEMMA PlacedWhereItWas ==
  ASSUME NEW Values, NEW retail, NEW programs, Given(retail, programs, Values), NEW name \in Programs,
         ~Grows(retail, programs, name), NEW disc, disc.original = retail
  PROVE  PlaceProgram(disc, name, programs[name]) =
           Written(disc, disc.raw, IsoFiles(retail)[name].lba, SectorsOf(IsoFiles(retail)[name].size), programs[name])
  <1> DEFINE file == IsoFiles(retail)[name]
             count == file.size \div PayloadSize
  <1>1. PayloadSize \in Nat \ {0} /\ Mastered(retail) /\ name \in DOMAIN IsoFiles(retail) /\ file.size % PayloadSize = 0
    BY DEF Given
  <1>2. file.size \in Nat
    BY <1>1, FileIs
  <1>3. SectorsOf(file.size) = count
    <2> HIDE DEF file, count
    <2>1. (file.size \div PayloadSize) \in Int
          /\ file.size = (file.size \div PayloadSize) * PayloadSize + (file.size % PayloadSize)
      BY <1>1, <1>2, QuotientOf
    <2>2. count \in Int /\ file.size = count * PayloadSize
      BY <1>1, <2>1 DEF count
    <2>3. count \in Nat
      BY <1>1, <1>2, <2>2
    <2> QED
      BY <1>1, <2>2, <2>3, WholeSectors
  <1>4. ~(Len(programs[name]) > file.size)
    BY DEF Grows
  <1> HIDE DEF count
  <1>5. PlaceProgram(disc, name, programs[name]) = Written(disc, disc.raw, file.lba, count, programs[name])
    BY <1>4 DEF PlaceProgram, PlaceFile, count
  <1> QED
    BY <1>3, <1>5
LEMMA FittingKeeps ==
  ASSUME NEW Values, NEW retail, NEW programs, Given(retail, programs, Values),
         NEW S \in SUBSET Programs, NEW name \in Programs \ S, ~Grows(retail, programs, name),
         NEW disc, PlacedSoFar(disc, retail, programs, S)
  PROVE  PlacedSoFar(PlaceProgram(disc, name, programs[name]), retail, programs, S \cup {name})
  <1> DEFINE file == IsoFiles(retail)[name]
             program == programs[name]
             raw == disc.raw
             lba == file.lba
             count == SectorsOf(file.size)
             span == lba .. lba + count - 1
             next == WritePayload(raw, lba, Padded(program, count * PayloadSize))
             new == PlaceProgram(disc, name, programs[name])
  <1>1. PayloadSize \in Nat \ {0} /\ Mastered(retail) /\ name \in DOMAIN IsoFiles(retail)
    BY DEF Given
  <1>2. /\ lba \in Nat /\ count \in Nat /\ lba + count <= SectorCount(retail)
        /\ IsFileAt(retail, file.at[1], file.at[2]) /\ file.at = <<file.at[1], file.at[2]>>
        /\ EntryNow(retail, retail, name) \in Entries
        /\ EntryNow(retail, retail, name).lba = lba /\ EntryNow(retail, retail, name).size = file.size
    BY <1>1, FileIs DEF EntryNow
  <1>3. SizeNow(retail, programs, name) = file.size
    BY DEF SizeNow
  <1>4. program \in Seq(Values) /\ FitsIn(program, count)
    BY <1>3, GivenIs
  <1>5. /\ disc = [original |-> retail, raw |-> raw, changed |-> disc.changed, failed |-> disc.failed]
        /\ Numbered(raw) /\ Addressed(raw) /\ SectorCount(retail) <= SectorCount(raw)
    BY DEF PlacedSoFar
  <1>6. /\ SectorCount(raw) \in Nat /\ SectorCount(retail) \in Nat
        /\ DOMAIN raw = 0 .. SectorCount(raw) - 1 /\ DOMAIN retail = 0 .. SectorCount(retail) - 1
    BY <1>1, <1>5, CountIs, MasteredIs
  <1>7. lba + count <= SectorCount(raw)
    <2> HIDE DEF lba, count, raw
    <2> QED
      BY <1>2, <1>5, <1>6
  <1>8. /\ DOMAIN next = DOMAIN raw /\ Addressed(next) /\ Holds(next, lba, count, program)
        /\ \A n \in DOMAIN raw \ span : next[n] = raw[n]
    <2> HIDE DEF lba, count, raw, program
    <2> QED
      BY <1>1, <1>2, <1>4, <1>5, <1>7, WrittenIs
  <1>9. new = [original |-> retail, raw |-> next, changed |-> disc.changed \cup span, failed |-> disc.failed]
    <2>1. new = Written(disc, raw, lba, count, program)
      <3>1. disc.original = retail
        BY <1>5
      <3> QED
        BY <3>1, PlacedWhereItWas
    <2> HIDE DEF new, raw, lba, count, program
    <2>2. new = [disc EXCEPT !.raw = next, !.changed = @ \cup span]
      BY <2>1 DEF Written
    <2> HIDE DEF next, span
    <2> DEFINE changed == disc.changed
               failed == disc.failed
    <2>3. disc = [original |-> retail, raw |-> raw, changed |-> changed, failed |-> failed]
      BY <1>5
    <2>4. new = [[disc EXCEPT !.raw = next] EXCEPT !.changed = changed \cup span]
      BY <2>2
    <2> HIDE DEF changed, failed
    <2>5. [disc EXCEPT !.raw = next] = [original |-> retail, raw |-> next, changed |-> changed, failed |-> failed]
      BY <2>3
    <2>6. new = [original |-> retail, raw |-> next, changed |-> changed \cup span, failed |-> failed]
      BY <2>4, <2>5
    <2> QED
      BY <2>6 DEF changed, failed
  <1>10. new.raw = next /\ new.changed = disc.changed \cup span /\ new.failed = disc.failed
    <2> HIDE DEF new, next, span
    <2> QED
      BY <1>9
  <1>11. SectorCount(next) = SectorCount(raw) /\ Numbered(next)
    <2> HIDE DEF next
    <2> QED
      BY <1>5, <1>8 DEF SectorCount, Numbered
  <1>12. span = Extent(file) /\ \A n \in span : n \in DOMAIN raw /\ n \notin Directory(retail) /\ n \in Nat /\ n < SectorCount(retail)
    <2>1. span = Extent(file)
      BY DEF Extent
    <2>2. \A n \in Extent(file) : n \notin Directory(retail)
      BY <1>1 DEF Mastered
    <2>3. \A n \in span : n \in DOMAIN raw /\ n \in Nat /\ n < SectorCount(retail)
      <3> HIDE DEF lba, count, raw
      <3> QED
        BY <1>2, <1>6, <1>7
    <2> QED
      BY <2>1, <2>2, <2>3
  <1>13. \A n \in Directory(retail) : n \in DOMAIN raw /\ next[n] = raw[n]
    <2>1. \A n \in Directory(retail) : n \in Nat /\ n < SectorCount(retail)
      BY <1>1, MasteredIs
    <2>2. \A n \in Directory(retail) : n \in DOMAIN raw /\ n \notin span
      <3> HIDE DEF raw, span
      <3> QED
        BY <1>5, <1>6, <1>12, <2>1
    <2> QED
      BY <1>8, <2>2
  <1>14. \A other \in Programs : EntryNow(next, retail, other) = EntryNow(raw, retail, other)
    <2>1. \A other \in Programs : IsoFiles(retail)[other].at[1] \in Directory(retail)
      <3> TAKE other \in Programs
      <3>1. other \in DOMAIN IsoFiles(retail)
        BY DEF Given
      <3> QED
        BY <1>1, <3>1, FileIs DEF IsFileAt
    <2> HIDE DEF next, raw
    <2> QED
      BY <1>13, <2>1 DEF EntryNow, EntryAt
  <1>15. EntryNow(raw, retail, name) = EntryNow(retail, retail, name)
    <2>1. file.at[1] \in Directory(retail) /\ file.at[2] \in DOMAIN retail[file.at[1]].cells
      BY <1>2 DEF IsFileAt
    <2>2. raw[file.at[1]].cells[file.at[2]] = retail[file.at[1]].cells[file.at[2]]
          \/ \E other \in S : IsoFiles(retail)[other].at = <<file.at[1], file.at[2]>>
      BY <2>1 DEF PlacedSoFar
    <2>3. ASSUME NEW other \in S, IsoFiles(retail)[other].at = <<file.at[1], file.at[2]>> PROVE FALSE
      <3>1. other \in DOMAIN IsoFiles(retail) /\ other # name
        BY DEF Given
      <3>2. IsoFiles(retail)[other].at = IsoFiles(retail)[name].at
        BY <1>2, <2>3
      <3> QED
        BY <1>1, <3>1, <3>2, EntriesApart
    <2> QED
      BY <2>2, <2>3 DEF EntryNow, EntryAt
  <1>16. HasPlace(next, retail, programs, name) /\ Place(next, retail, programs, name) = span
    <2> DEFINE entry == EntryNow(retail, retail, name)
    <2>1. EntryNow(next, retail, name) = entry
      BY <1>14, <1>15
    <2>2. entry \in [name : STRING, lba : Nat, size : Nat, directory : BOOLEAN] /\ entry.lba = lba /\ entry.size = file.size
      BY <1>2 DEF Entries
    <2> HIDE DEF entry, next, lba, count, program, raw
    <2>3. entry = [entry EXCEPT !.lba = lba, !.size = file.size]
      BY <2>2
    <2>4. EntryNow(next, retail, name).lba = lba
      BY <2>1, <2>2
    <2>5. lba + count <= SectorCount(next)
      BY <1>7, <1>11
    <2>6. HasPlace(next, retail, programs, name)
      <3> DEFINE size == SizeNow(retail, programs, name)
      <3>1. SectorsOf(size) = count
        BY <1>3 DEF count
      <3>2. Holds(next, lba, SectorsOf(size), program)
        BY <1>8, <3>1
      <3>3. entry = [entry EXCEPT !.lba = lba, !.size = size]
        BY <1>3, <2>3
      <3> HIDE DEF size
      <3> QED
        BY <1>2, <2>1, <2>4, <2>5, <3>1, <3>2, <3>3 DEF HasPlace, entry, lba, program, size
    <2>7. Place(next, retail, programs, name) = span
      BY <1>3, <2>4 DEF Place, count
    <2> QED
      BY <2>6, <2>7
  <1>17. ASSUME NEW other \in S, NEW n \in Place(raw, retail, programs, other)
         PROVE  n \in DOMAIN raw /\ n \notin span
    <2>1. HasPlace(raw, retail, programs, other) /\ other \in Programs /\ other # name
      BY DEF PlacedSoFar
    <2>2. /\ n \in Nat /\ n < SectorCount(raw)
          /\ n < SectorCount(retail) => n \in Extent(IsoFiles(retail)[other])
      BY <1>6, <2>1, PlaceIs
    <2>3. n \in DOMAIN raw
      <3> HIDE DEF raw
      <3> QED
        BY <1>6, <2>2
    <2>4. other \in DOMAIN IsoFiles(retail)
      BY <2>1 DEF Given
    <2>5. Extent(file) \cap Extent(IsoFiles(retail)[other]) = {}
      BY <1>1, <2>1, <2>4 DEF Mastered
    <2> HIDE DEF span, file
    <2> QED
      BY <1>12, <2>2, <2>3, <2>5
  <1>18. ASSUME NEW other \in S
         PROVE  /\ HasPlace(next, retail, programs, other)
                /\ Place(next, retail, programs, other) = Place(raw, retail, programs, other)
    <2>1. HasPlace(raw, retail, programs, other) /\ other \in Programs
      BY DEF PlacedSoFar
    <2> HIDE DEF next, raw, span
    <2>2. \A n \in Place(raw, retail, programs, other) : next[n].cells = raw[n].cells
      BY <1>8, <1>17
    <2>3. EntryNow(next, retail, other) = EntryNow(raw, retail, other)
      BY <1>14, <2>1
    <2>4. SectorCount(next) \in Nat /\ SectorCount(raw) <= SectorCount(next)
      BY <1>6, <1>11
    <2> QED
      BY <1>6, <2>1, <2>2, <2>3, <2>4, PlaceStays
  <1> HIDE DEF new, next, span, lba, count, file, program
  <1>19. \A n \in DOMAIN next \ (disc.changed \cup span) : n \in DOMAIN retail /\ next[n] = retail[n]
    <2>1. \A n \in DOMAIN raw \ disc.changed : n \in DOMAIN retail /\ raw[n] = retail[n]
      BY DEF PlacedSoFar
    <2> QED
      BY <1>8, <2>1
  <1>20. \A n \in DOMAIN retail \ Directory(retail) :
           (\A other \in S \cup {name} : n \notin Place(next, retail, programs, other)) => next[n] = retail[n]
    <2> SUFFICES ASSUME NEW n \in DOMAIN retail \ Directory(retail),
                        \A other \in S \cup {name} : n \notin Place(next, retail, programs, other)
                 PROVE  next[n] = retail[n]
      OBVIOUS
    <2>1. n \notin span /\ \A other \in S : n \notin Place(raw, retail, programs, other)
      BY <1>16, <1>18
    <2>2. raw[n] = retail[n]
      BY <2>1 DEF PlacedSoFar
    <2>3. n \in DOMAIN raw
      <3> HIDE DEF raw
      <3> QED
        BY <1>5, <1>6
    <2> QED
      BY <1>8, <2>1, <2>2, <2>3
  <1>21. \A n \in Directory(retail) :
           /\ next[n].cells \in Seq(Entries) /\ DOMAIN next[n].cells = DOMAIN retail[n].cells
           /\ \A i \in DOMAIN retail[n].cells :
                next[n].cells[i] = retail[n].cells[i] \/ \E other \in S \cup {name} : IsoFiles(retail)[other].at = <<n, i>>
    <2> SUFFICES ASSUME NEW n \in Directory(retail)
                 PROVE  /\ next[n].cells \in Seq(Entries) /\ DOMAIN next[n].cells = DOMAIN retail[n].cells
                        /\ \A i \in DOMAIN retail[n].cells :
                             next[n].cells[i] = retail[n].cells[i] \/ \E other \in S \cup {name} : IsoFiles(retail)[other].at = <<n, i>>
      OBVIOUS
    <2>1. next[n] = raw[n]
      BY <1>13
    <2>2. /\ raw[n].cells \in Seq(Entries) /\ DOMAIN raw[n].cells = DOMAIN retail[n].cells
          /\ \A i \in DOMAIN retail[n].cells :
               raw[n].cells[i] = retail[n].cells[i] \/ \E other \in S : IsoFiles(retail)[other].at = <<n, i>>
      BY DEF PlacedSoFar
    <2> QED
      BY <2>1, <2>2
  <1>22. \A other \in S \cup {name} : HasPlace(next, retail, programs, other)
    BY <1>16, <1>18
  <1>23. ASSUME NEW a \in S \cup {name}, NEW b \in S \cup {name}, a # b, NEW n \in Place(next, retail, programs, a)
         PROVE  n \notin Place(next, retail, programs, b)
    <2>1. CASE a = name
      BY <1>16, <1>17, <1>18, <1>23, <2>1
    <2>2. CASE b = name
      BY <1>16, <1>17, <1>18, <1>23, <2>2
    <2>3. CASE a \in S /\ b \in S
      <3>1. \A m \in Place(raw, retail, programs, a) : m \notin Place(raw, retail, programs, b)
        BY <1>23, <2>3 DEF PlacedSoFar
      <3> QED
        BY <1>18, <1>23, <2>3, <3>1
    <2> QED
      BY <2>1, <2>2, <2>3
  <1>24. /\ disc.failed \/ SectorCount(raw) = SectorCount(retail) \/ SectorCount(raw) <= AddressEnd
         /\ disc.changed \subseteq DOMAIN raw
    BY DEF PlacedSoFar
  <1>25. disc.changed \cup span \subseteq DOMAIN next
    BY <1>8, <1>12, <1>24
  <1> HIDE DEF raw
  <1> QED
    BY <1>5, <1>8, <1>9, <1>10, <1>11, <1>19, <1>20, <1>21, <1>22, <1>23, <1>24, <1>25 DEF PlacedSoFar, new
\* A longer one goes to new sectors at the end, which its entry then names.
AtEnd(raw, at, program, count) ==
  WritePayload(Named(Enlarged(raw, count), at, SectorCount(raw), Len(program)), SectorCount(raw), Padded(program, count * PayloadSize))
LEMMA PlacedAtEnd ==
  ASSUME NEW Values, NEW retail, NEW programs, Given(retail, programs, Values), NEW name \in Programs,
         Grows(retail, programs, name), NEW disc, NEW raw, NEW changed, NEW failed,
         disc = [original |-> retail, raw |-> raw, changed |-> changed, failed |-> failed]
  PROVE  LET file == IsoFiles(retail)[name]
             program == programs[name]
             lba == SectorCount(raw)
             count == SectorsOf(Len(program))
         IN PlaceProgram(disc, name, program) =
              [original |-> retail,
               raw |-> AtEnd(raw, file.at, program, count),
               changed |-> (changed \cup (lba .. lba + count - 1)) \cup {file.at[1]},
               failed |-> failed \/ lba + count > AddressEnd]
  <1> DEFINE file == IsoFiles(retail)[name]
             program == programs[name]
             lba == SectorCount(raw)
             count == SectorsOf(Len(program))
             named == Named(Enlarged(raw, count), file.at, lba, Len(program))
             next == WritePayload(named, lba, Padded(program, count * PayloadSize))
             span == lba .. lba + count - 1
             sector == file.at[1]
             over == lba + count > AddressEnd
             written == Written(disc, named, lba, count, program)
             fails == written.failed \/ over
  <1>1. Len(program) > file.size /\ disc.original = retail /\ disc.raw = raw
    BY DEF Grows
  <1>2. PlaceProgram(disc, name, program) = [written EXCEPT !.failed = fails, !.changed = @ \cup {sector}]
    BY <1>1 DEF PlaceProgram, PlaceFile, InNewSectors
  <1>3. written = [[disc EXCEPT !.raw = next] EXCEPT !.changed = changed \cup span]
    BY DEF Written
  <1> HIDE DEF file, program, lba, count, named, next, span, sector, over, written, fails
  <1>4. [disc EXCEPT !.raw = next] = [original |-> retail, raw |-> next, changed |-> changed, failed |-> failed]
    OBVIOUS
  <1>5. written = [original |-> retail, raw |-> next, changed |-> changed \cup span, failed |-> failed]
    BY <1>3, <1>4
  <1>6. fails = (failed \/ over)
    <2>1. written.failed = failed
      BY <1>5
    <2> QED
      BY <2>1, Zenon DEF fails
  <1> HIDE DEF fails
  <1>7. [written EXCEPT !.failed = fails] =
          [original |-> retail, raw |-> next, changed |-> changed \cup span, failed |-> fails]
    BY <1>5
  <1>8. PlaceProgram(disc, name, program) = [[written EXCEPT !.failed = fails] EXCEPT !.changed = (changed \cup span) \cup {sector}]
    BY <1>2, <1>5
  <1>9. PlaceProgram(disc, name, program) =
          [original |-> retail, raw |-> next, changed |-> (changed \cup span) \cup {sector}, failed |-> fails]
    BY <1>7, <1>8
  <1>10. PlaceProgram(disc, name, program) =
          [original |-> retail, raw |-> next, changed |-> (changed \cup span) \cup {sector}, failed |-> failed \/ over]
    BY <1>6, <1>9, Zenon
  <1> QED
    BY <1>10 DEF file, program, lba, count, named, next, span, sector, over, AtEnd
\* The sectors after it: the old ones stand but for one entry, the new ones hold the program.
Extends(raw, next, d, i, program, count) ==
  /\ Numbered(next) /\ Addressed(next) /\ SectorCount(next) = SectorCount(raw) + count
  /\ Holds(next, SectorCount(raw), count, program)
  /\ \A n \in DOMAIN raw \ {d} : next[n] = raw[n]
  /\ next[d].cells \in Seq(Entries) /\ DOMAIN next[d].cells = DOMAIN raw[d].cells
  /\ \A j \in DOMAIN raw[d].cells \ {i} : next[d].cells[j] = raw[d].cells[j]
  /\ next[d].cells[i] = [raw[d].cells[i] EXCEPT !.lba = SectorCount(raw), !.size = Len(program)]
LEMMA SectorsAtEnd ==
  ASSUME NEW Values, PayloadSize \in Nat \ {0}, NEW program \in Seq(Values), NEW count \in Nat, FitsIn(program, count),
         NEW raw, Numbered(raw), Addressed(raw), NEW d \in DOMAIN raw, raw[d].cells \in Seq(Entries),
         NEW i \in DOMAIN raw[d].cells
  PROVE  Extends(raw, AtEnd(raw, <<d, i>>, program, count), d, i, program, count)
  <1> DEFINE lba == SectorCount(raw)
             len == Len(program)
             big == Enlarged(raw, count)
             named == Named(big, <<d, i>>, lba, len)
             next == WritePayload(named, lba, Padded(program, count * PayloadSize))
  <1>1. lba \in Nat /\ DOMAIN raw = 0 .. lba - 1 /\ len \in Nat
    BY CountIs, LenProperties
  <1>2. /\ Numbered(big) /\ SectorCount(big) = lba + count /\ Addressed(big) /\ DOMAIN raw \subseteq DOMAIN big
        /\ \A n \in DOMAIN raw : big[n] = raw[n]
    BY EnlargedIs
  <1> HIDE DEF lba, big, len
  <1>3. d \in DOMAIN big /\ big[d] = raw[d]
    BY <1>2
  <1>4. big[d].cells \in Seq(Entries) /\ i \in DOMAIN big[d].cells
    BY <1>3
  <1>5. /\ DOMAIN named = DOMAIN big /\ Addressed(named)
        /\ \A m \in DOMAIN big \ {d} : named[m] = big[m]
        /\ named[d].cells \in Seq(Entries) /\ DOMAIN named[d].cells = DOMAIN big[d].cells
        /\ \A j \in DOMAIN big[d].cells \ {i} : named[d].cells[j] = big[d].cells[j]
        /\ named[d].cells[i] = [big[d].cells[i] EXCEPT !.lba = lba, !.size = len]
    <2>1. Renames(big, named, d, i, lba, len)
      BY <1>1, <1>2, <1>3, <1>4, NamedIs
    <2> HIDE DEF named
    <2> QED
      BY <2>1 DEF Renames
  <1> HIDE DEF named
  <1>6. Numbered(named) /\ SectorCount(named) = lba + count
    BY <1>2, <1>5 DEF Numbered, SectorCount
  <1>7. lba + count <= SectorCount(named)
    BY <1>1, <1>6
  <1>8. /\ DOMAIN next = DOMAIN named /\ Addressed(next) /\ Holds(next, lba, count, program)
        /\ \A n \in DOMAIN named \ (lba .. lba + count - 1) : next[n] = named[n]
    BY <1>1, <1>5, <1>6, <1>7, WrittenIs
  <1> HIDE DEF next
  <1>9. Numbered(next) /\ SectorCount(next) = lba + count
    BY <1>6, <1>8 DEF Numbered, SectorCount
  <1>10. \A n \in DOMAIN raw : n \in DOMAIN named \ (lba .. lba + count - 1)
    BY <1>1, <1>2, <1>5
  <1>11. \A n \in DOMAIN raw : next[n] = named[n]
    BY <1>8, <1>10
  <1>12. \A n \in DOMAIN raw \ {d} : next[n] = raw[n]
    BY <1>2, <1>5, <1>11
  <1>13. next[d] = named[d]
    BY <1>11
  <1> QED
    BY <1>3, <1>5, <1>8, <1>9, <1>12, <1>13 DEF lba, len, big, named, next, Extends, AtEnd
LEMMA GrowingKeeps ==
  ASSUME NEW Values, NEW retail, NEW programs, Given(retail, programs, Values),
         NEW S \in SUBSET Programs, NEW name \in Programs \ S, Grows(retail, programs, name),
         NEW disc, PlacedSoFar(disc, retail, programs, S)
  PROVE  PlacedSoFar(PlaceProgram(disc, name, programs[name]), retail, programs, S \cup {name})
  <1> DEFINE file == IsoFiles(retail)[name]
             program == programs[name]
             raw == disc.raw
             d == file.at[1]
             i == file.at[2]
             lba == SectorCount(raw)
             count == SectorsOf(Len(program))
             span == lba .. lba + count - 1
             next == AtEnd(raw, <<d, i>>, program, count)
             changed == (disc.changed \cup span) \cup {d}
             failed == disc.failed \/ lba + count > AddressEnd
             new == PlaceProgram(disc, name, program)
  <1>1. PayloadSize \in Nat \ {0} /\ Mastered(retail) /\ name \in DOMAIN IsoFiles(retail) /\ AddressEnd \in Int
    BY DEF Given
  <1>2. /\ file.at = <<d, i>> /\ IsFileAt(retail, d, i)
        /\ EntryNow(retail, retail, name) \in Entries
    BY <1>1, FileIs DEF EntryNow
  <1>3. d \in Directory(retail) /\ i \in DOMAIN retail[d].cells
    BY <1>2 DEF IsFileAt
  <1>4. SizeNow(retail, programs, name) = Len(program)
    BY DEF SizeNow
  <1>5. program \in Seq(Values) /\ FitsIn(program, count) /\ count \in Nat /\ Len(program) \in Nat
    BY <1>4, GivenIs
  <1>6. /\ disc = [original |-> retail, raw |-> raw, changed |-> disc.changed, failed |-> disc.failed]
        /\ Numbered(raw) /\ Addressed(raw) /\ SectorCount(retail) <= lba
    BY DEF PlacedSoFar
  <1>7. /\ lba \in Nat /\ SectorCount(retail) \in Nat
        /\ DOMAIN raw = 0 .. lba - 1 /\ DOMAIN retail = 0 .. SectorCount(retail) - 1
    BY <1>1, <1>6, CountIs, MasteredIs
  <1>8. \A n \in Directory(retail) : n \in DOMAIN raw /\ n \in Nat /\ n < SectorCount(retail)
    <2>1. \A n \in Directory(retail) : n \in Nat /\ n < SectorCount(retail)
      BY <1>1, MasteredIs
    <2> HIDE DEF raw, lba
    <2> QED
      BY <1>6, <1>7, <2>1
  <1>9. \A n \in Directory(retail) :
          /\ raw[n].cells \in Seq(Entries) /\ DOMAIN raw[n].cells = DOMAIN retail[n].cells
          /\ \A j \in DOMAIN retail[n].cells :
               raw[n].cells[j] = retail[n].cells[j] \/ \E other \in S : IsoFiles(retail)[other].at = <<n, j>>
    BY DEF PlacedSoFar
  <1>10. /\ Numbered(next) /\ Addressed(next) /\ SectorCount(next) = lba + count
         /\ Holds(next, lba, count, program)
         /\ \A n \in DOMAIN raw \ {d} : next[n] = raw[n]
         /\ next[d].cells \in Seq(Entries) /\ DOMAIN next[d].cells = DOMAIN raw[d].cells
         /\ \A j \in DOMAIN raw[d].cells \ {i} : next[d].cells[j] = raw[d].cells[j]
         /\ next[d].cells[i] = [raw[d].cells[i] EXCEPT !.lba = lba, !.size = Len(program)]
    <2>1. d \in DOMAIN raw /\ raw[d].cells \in Seq(Entries) /\ i \in DOMAIN raw[d].cells
      BY <1>3, <1>8, <1>9
    <2> HIDE DEF count, raw, program, d, i
    <2>2. Extends(raw, next, d, i, program, count)
      BY <1>1, <1>5, <1>6, <2>1, SectorsAtEnd
    <2> HIDE DEF next
    <2> QED
      BY <2>2 DEF Extends
  <1>11. new = [original |-> retail, raw |-> next, changed |-> changed, failed |-> failed]
    <2> DEFINE was == disc.changed
               bad == disc.failed
    <2>1. disc = [original |-> retail, raw |-> raw, changed |-> was, failed |-> bad]
      BY <1>6
    <2> HIDE DEF was, bad, raw
    <2>2. new = [original |-> retail,
                 raw |-> AtEnd(raw, file.at, program, count),
                 changed |-> (was \cup span) \cup {file.at[1]},
                 failed |-> bad \/ lba + count > AddressEnd]
      BY <2>1, PlacedAtEnd
    <2>3. AtEnd(raw, file.at, program, count) = next
      BY <1>2
    <2> QED
      BY <2>2, <2>3, Zenon DEF was, bad
  <1>12. new.raw = next /\ new.changed = changed
    <2> HIDE DEF new, next, changed, failed
    <2> QED
      BY <1>11
  <1>13. ASSUME NEW other \in S
         PROVE  EntryNow(next, retail, other) = EntryNow(raw, retail, other)
    <2> DEFINE od == IsoFiles(retail)[other].at[1]
               oi == IsoFiles(retail)[other].at[2]
    <2>1. other \in DOMAIN IsoFiles(retail) /\ other # name
      BY DEF Given
    <2>2. IsoFiles(retail)[other].at = <<od, oi>> /\ IsFileAt(retail, od, oi)
      BY <1>1, <2>1, FileIs
    <2>3. IsoFiles(retail)[other].at # file.at
      BY <1>1, <2>1, EntriesApart
    <2>4. od # d \/ oi # i
      BY <1>2, <2>2, <2>3
    <2>5. od \in Directory(retail) /\ oi \in DOMAIN retail[od].cells
      BY <2>2 DEF IsFileAt
    <2> HIDE DEF od, oi, d, i, raw, next, lba, file
    <2>6. od \in DOMAIN raw /\ oi \in DOMAIN raw[od].cells
      BY <1>8, <1>9, <2>5
    <2>7. next[od].cells[oi] = raw[od].cells[oi]
      <3>1. CASE od # d
        BY <1>10, <2>6, <3>1
      <3>2. CASE od = d
        BY <1>10, <2>4, <2>6, <3>2
      <3> QED
        BY <3>1, <3>2
    <2> QED
      BY <2>7 DEF EntryNow, EntryAt, od, oi
  <1>14. EntryNow(raw, retail, name) = EntryNow(retail, retail, name)
    <2>1. raw[d].cells[i] = retail[d].cells[i] \/ \E other \in S : IsoFiles(retail)[other].at = <<d, i>>
      <3> HIDE DEF raw, d, i
      <3> QED
        BY <1>3, <1>9
    <2>2. ASSUME NEW other \in S, IsoFiles(retail)[other].at = <<d, i>> PROVE FALSE
      <3>1. other \in DOMAIN IsoFiles(retail) /\ other # name
        BY DEF Given
      <3>2. IsoFiles(retail)[other].at = IsoFiles(retail)[name].at
        BY <1>2, <2>2
      <3> QED
        BY <1>1, <3>1, <3>2, EntriesApart
    <2> QED
      BY <2>1, <2>2 DEF EntryNow, EntryAt
  <1>15. HasPlace(next, retail, programs, name) /\ Place(next, retail, programs, name) = span
    <2> DEFINE entry == EntryNow(retail, retail, name)
               now == EntryNow(next, retail, name)
               size == SizeNow(retail, programs, name)
    <2>1. now = [entry EXCEPT !.lba = lba, !.size = size]
      <3>1. now = next[d].cells[i] /\ entry = raw[d].cells[i]
        BY <1>14 DEF EntryNow, EntryAt
      <3> HIDE DEF now, entry, next, raw, lba, d, i, program, size
      <3> QED
        BY <1>4, <1>10, <3>1 DEF size
    <2>2. entry \in [name : STRING, lba : Nat, size : Nat, directory : BOOLEAN]
      BY <1>2 DEF Entries
    <2>3. now.lba = lba
      <3> HIDE DEF now, entry, lba, size
      <3> QED
        BY <2>1, <2>2
    <2>4. SectorsOf(size) = count
      BY <1>4
    <2> HIDE DEF entry, now, size, lba, count, program, raw, next
    <2>5. lba \in Nat /\ lba + count <= SectorCount(next) /\ lba >= SectorCount(retail)
      BY <1>5, <1>6, <1>7, <1>10
    <2>6. Holds(next, lba, SectorsOf(size), program)
      BY <1>10, <2>4
    <2>7. HasPlace(next, retail, programs, name)
      BY <2>1, <2>3, <2>4, <2>5, <2>6 DEF HasPlace, now, entry, size, program
    <2>8. Place(next, retail, programs, name) = span
      BY <2>3, <2>4 DEF Place, now, size
    <2> QED
      BY <2>7, <2>8
  <1>16. ASSUME NEW other \in S, NEW n \in Place(raw, retail, programs, other)
         PROVE  n \in DOMAIN raw /\ n \notin span /\ n # d
    <2>1. HasPlace(raw, retail, programs, other) /\ other \in Programs
      BY DEF PlacedSoFar
    <2>2. n \in Nat /\ n < lba /\ n \notin Directory(retail)
      BY <1>7, <2>1, PlaceIs
    <2> HIDE DEF lba, raw, d
    <2> QED
      BY <1>3, <1>5, <1>7, <2>2
  <1>17. ASSUME NEW other \in S
         PROVE  /\ HasPlace(next, retail, programs, other)
                /\ Place(next, retail, programs, other) = Place(raw, retail, programs, other)
    <2>1. HasPlace(raw, retail, programs, other) /\ other \in Programs
      BY DEF PlacedSoFar
    <2>2. SectorCount(raw) = lba
      OBVIOUS
    <2> HIDE DEF next, raw, span, lba, d, count
    <2>3. \A n \in Place(raw, retail, programs, other) : next[n].cells = raw[n].cells
      BY <1>10, <1>16
    <2>4. EntryNow(next, retail, other) = EntryNow(raw, retail, other)
      BY <1>13
    <2>5. SectorCount(next) \in Nat /\ SectorCount(raw) <= SectorCount(next) /\ SectorCount(raw) \in Nat
      BY <1>5, <1>7, <1>10, <2>2
    <2> QED
      BY <2>1, <2>3, <2>4, <2>5, PlaceStays
  <1>18. /\ disc.failed \/ lba = SectorCount(retail) \/ lba <= AddressEnd
         /\ disc.changed \subseteq DOMAIN raw
         /\ \A n \in DOMAIN raw \ disc.changed : n \in DOMAIN retail /\ raw[n] = retail[n]
         /\ \A n \in DOMAIN retail \ Directory(retail) :
              (\A other \in S : n \notin Place(raw, retail, programs, other)) => raw[n] = retail[n]
    BY DEF PlacedSoFar
  <1>19. DOMAIN next = 0 .. lba + count - 1
    <2>1. Numbered(next) /\ SectorCount(next) = lba + count
      BY <1>10
    <2>2. DOMAIN next = 0 .. SectorCount(next) - 1
      BY <2>1 DEF Numbered
    <2>3. lba \in Nat /\ count \in Nat
      BY <1>5, <1>7
    <2> HIDE DEF next, lba, count
    <2> QED
      BY <2>1, <2>2, <2>3
  <1> HIDE DEF new, next, lba, count, file, program, d, i, raw
  <1>20. span \subseteq DOMAIN next /\ DOMAIN raw \subseteq DOMAIN next /\ d \in DOMAIN next /\ DOMAIN next \ span \subseteq DOMAIN raw
         /\ DOMAIN retail \subseteq DOMAIN raw
    BY <1>3, <1>5, <1>6, <1>7, <1>8, <1>19
  <1> HIDE DEF span
  <1>21. changed \subseteq DOMAIN next
    BY <1>18, <1>20
  <1>22. \A n \in DOMAIN next \ changed : n \in DOMAIN retail /\ next[n] = retail[n]
    <2> SUFFICES ASSUME NEW n \in DOMAIN next \ changed PROVE n \in DOMAIN retail /\ next[n] = retail[n]
      OBVIOUS
    <2>1. n \in DOMAIN raw \ disc.changed /\ n # d
      BY <1>20
    <2> QED
      BY <1>10, <1>18, <2>1
  <1>23. \A n \in DOMAIN retail \ Directory(retail) :
           (\A other \in S \cup {name} : n \notin Place(next, retail, programs, other)) => next[n] = retail[n]
    <2> SUFFICES ASSUME NEW n \in DOMAIN retail \ Directory(retail),
                        \A other \in S \cup {name} : n \notin Place(next, retail, programs, other)
                 PROVE  next[n] = retail[n]
      OBVIOUS
    <2>1. \A other \in S : n \notin Place(raw, retail, programs, other)
      BY <1>17
    <2>2. n \in DOMAIN raw /\ n # d
      BY <1>3, <1>20
    <2> QED
      BY <1>10, <1>18, <2>1, <2>2
  <1>24. \A n \in Directory(retail) :
           /\ next[n].cells \in Seq(Entries) /\ DOMAIN next[n].cells = DOMAIN retail[n].cells
           /\ \A j \in DOMAIN retail[n].cells :
                next[n].cells[j] = retail[n].cells[j] \/ \E other \in S \cup {name} : IsoFiles(retail)[other].at = <<n, j>>
    <2> SUFFICES ASSUME NEW n \in Directory(retail)
                 PROVE  /\ next[n].cells \in Seq(Entries) /\ DOMAIN next[n].cells = DOMAIN retail[n].cells
                        /\ \A j \in DOMAIN retail[n].cells :
                             next[n].cells[j] = retail[n].cells[j] \/ \E other \in S \cup {name} : IsoFiles(retail)[other].at = <<n, j>>
      OBVIOUS
    <2>1. CASE n # d
      BY <1>8, <1>9, <1>10, <2>1
    <2>2. CASE n = d
      <3>1. next[n].cells \in Seq(Entries) /\ DOMAIN next[n].cells = DOMAIN retail[n].cells
        BY <1>9, <1>10, <2>2
      <3>2. \A j \in DOMAIN retail[n].cells \ {i} : next[n].cells[j] = raw[n].cells[j]
        BY <1>9, <1>10, <2>2
      <3>3. IsoFiles(retail)[name].at = <<n, i>>
        BY <1>2, <2>2 DEF file
      <3> QED
        BY <1>9, <3>1, <3>2, <3>3
    <2> QED
      BY <2>1, <2>2
  <1>25. \A other \in S \cup {name} : HasPlace(next, retail, programs, other)
    BY <1>15, <1>17
  <1>26. ASSUME NEW a \in S \cup {name}, NEW b \in S \cup {name}, a # b, NEW n \in Place(next, retail, programs, a)
         PROVE  n \notin Place(next, retail, programs, b)
    <2>1. CASE a = name
      BY <1>15, <1>16, <1>17, <1>26, <2>1
    <2>2. CASE b = name
      BY <1>15, <1>16, <1>17, <1>26, <2>2
    <2>3. CASE a \in S /\ b \in S
      <3>1. \A m \in Place(raw, retail, programs, a) : m \notin Place(raw, retail, programs, b)
        BY <1>26, <2>3 DEF PlacedSoFar, raw
      <3> QED
        BY <1>17, <1>26, <2>3, <3>1
    <2> QED
      BY <2>1, <2>2, <2>3
  <1>27. SectorCount(retail) <= SectorCount(next)
    BY <1>5, <1>6, <1>7, <1>10
  <1>28. failed \/ SectorCount(next) = SectorCount(retail) \/ SectorCount(next) <= AddressEnd
    BY <1>1, <1>5, <1>7, <1>10
  <1> HIDE DEF changed, failed
  <1>29. new = [original |-> retail, raw |-> new.raw, changed |-> new.changed, failed |-> new.failed] /\ new.failed = failed
    BY <1>11
  <1>30. PlacedSoFar(new, retail, programs, S \cup {name})
    BY <1>10, <1>12, <1>21, <1>22, <1>23, <1>24, <1>25, <1>26, <1>27, <1>28, <1>29 DEF PlacedSoFar
  <1> QED
    BY <1>30 DEF new, program
-----------------------------------------------------------------------------
(* All programs, one after another. *)

\* The recursive function exists.
LEMMA PlacedUpToIs ==
  ASSUME NEW retail, NEW order, NEW programs, Len(order) \in Nat
  PROVE  /\ PlacedUpTo(retail, order, programs)[0] = Unplaced(retail)
         /\ \A n \in 1 .. Len(order) :
              PlacedUpTo(retail, order, programs)[n] =
                PlaceProgram(PlacedUpTo(retail, order, programs)[n - 1], order[n], programs[order[n]])
  <1> DEFINE Step(d, n) == PlaceProgram(d, order[n], programs[order[n]])
             base == Unplaced(retail)
             N == Len(order)
             Equation(g, k) == g = [n \in 0 .. k |-> IF n = 0 THEN base ELSE Step(g[n - 1], n)]
             Reached == {k \in 0 .. N : \E g : Equation(g, k)}
  <1> HIDE DEF base, N
  <1>0. N \in Nat
    BY DEF N
  <1>1. 0 \in Reached
    <2>1. Equation([n \in 0 .. 0 |-> base], 0)
      OBVIOUS
    <2> HIDE DEF Equation
    <2>2. \E g : Equation(g, 0)
      BY <2>1
    <2> QED
      BY <1>0, <2>2
  <1>2. \A k \in 0 .. N - 1 : k \in Reached => k + 1 \in Reached
    <2> SUFFICES ASSUME NEW k \in 0 .. N - 1, k \in Reached PROVE k + 1 \in Reached
      OBVIOUS
    <2>1. PICK f : Equation(f, k)
      OBVIOUS
    <2> DEFINE h == [n \in 0 .. k + 1 |-> IF n = k + 1 THEN Step(f[k], k + 1) ELSE f[n]]
    <2>2. \A n \in 0 .. k + 1 : h[n] = IF n = 0 THEN base ELSE Step(h[n - 1], n)
      <3> SUFFICES ASSUME NEW n \in 0 .. k + 1
                   PROVE  h[n] = IF n = 0 THEN base ELSE Step(h[n - 1], n)
        OBVIOUS
      <3>1. k \in Nat /\ n \in Nat /\ n <= k + 1
        BY <1>0
      <3>2. CASE n = k + 1
        BY <3>1, <3>2
      <3>3. CASE n # k + 1 /\ n = 0
        BY <3>1, <3>3, <2>1
      <3>4. CASE n # k + 1 /\ n # 0
        <4>1. h[n] = f[n] /\ h[n - 1] = f[n - 1] /\ n \in 0 .. k
          BY <3>1, <3>4
        <4>2. f[n] = Step(f[n - 1], n)
          BY <4>1, <3>4, <2>1
        <4> QED
          BY <4>1, <4>2, <3>4
      <3> QED
        BY <3>2, <3>3, <3>4
    <2>3. Equation(h, k + 1)
      BY <2>2
    <2> HIDE DEF Equation
    <2>4. \E g : Equation(g, k + 1)
      BY <2>3
    <2> QED
      BY <1>0, <2>4
  <1>3. N \in Reached
    <2> HIDE DEF Reached
    <2>1. \A k \in 0 .. N : k \in Reached
      BY <1>0, <1>1, <1>2, UpTo, Zenon
    <2> QED
      BY <1>0, <2>1
  <1>4. \E g : Equation(g, N)
    BY <1>3
  <1> DEFINE all == PlacedUpTo(retail, order, programs)
  <1>5. Equation(all, N)
    BY <1>4 DEF PlacedUpTo, base, N
  <1>6. \A n \in 0 .. N : all[n] = IF n = 0 THEN base ELSE Step(all[n - 1], n)
    BY <1>5
  <1> QED
    BY <1>0, <1>6 DEF base, N

\* The order of the programs: each of them once.
Enumerates(order) ==
  /\ order \in Seq(Programs) /\ \A name \in Programs : \E k \in DOMAIN order : order[k] = name
  /\ \A j, k \in DOMAIN order : order[j] = order[k] => j = k
LEMMA AllPlaced ==
  ASSUME NEW Values, NEW retail, NEW programs, Given(retail, programs, Values), NEW order, Enumerates(order)
  PROVE  PlacedSoFar(PlacedUpTo(retail, order, programs)[Len(order)], retail, programs, Programs)
  <1> DEFINE N == Len(order)
             all == PlacedUpTo(retail, order, programs)
             Set(n) == {order[k] : k \in 1 .. n}
             Carried(n) == PlacedSoFar(all[n], retail, programs, Set(n))
             Reached == {n \in 0 .. N : Carried(n)}
  <1>1. N \in Nat /\ DOMAIN order = 1 .. N /\ \A k \in 1 .. N : order[k] \in Programs
    BY LenProperties DEF Enumerates
  <1>2. Carried(0)
    <2>1. all[0] = [original |-> retail, raw |-> retail, changed |-> {}, failed |-> FALSE]
      BY <1>1, PlacedUpToIs DEF Unplaced
    <2> DEFINE d == all[0]
    <2>2. d.raw = retail /\ d.changed = {} /\ d.failed = FALSE
          /\ d = [original |-> retail, raw |-> d.raw, changed |-> d.changed, failed |-> d.failed]
      BY <2>1
    <2>3. Set(0) = {}
      OBVIOUS
    <2>4. Numbered(retail) /\ Addressed(retail) /\ SectorCount(retail) \in Nat
      BY MasteredIs DEF Given
    <2>5. \A n \in Directory(retail) : retail[n].cells \in Seq(Entries)
      BY DEF Given, Mastered
    <2> HIDE DEF d
    <2>6. PlacedSoFar(d, retail, programs, {})
      BY <2>2, <2>4, <2>5 DEF PlacedSoFar
    <2> QED
      BY <2>3, <2>6 DEF d
  <1>3. ASSUME NEW n \in 0 .. N - 1, Carried(n) PROVE Carried(n + 1)
    <2>1. n + 1 \in 1 .. N /\ (n + 1) - 1 = n /\ n \in Nat
      BY <1>1
    <2>2. all[n + 1] = PlaceProgram(all[n], order[n + 1], programs[order[n + 1]])
      BY <1>1, <2>1, PlacedUpToIs
    <2>3. order[n + 1] \in Programs \ Set(n) /\ Set(n) \in SUBSET Programs
      BY <1>1, <2>1 DEF Enumerates
    <2>4. Set(n + 1) = Set(n) \cup {order[n + 1]}
      BY <2>1
    <2> DEFINE d == all[n]
               name == order[n + 1]
               S == Set(n)
    <2>5. PlacedSoFar(d, retail, programs, S)
      BY <1>3
    <2> HIDE DEF d, name, S
    <2>6. PlacedSoFar(PlaceProgram(d, name, programs[name]), retail, programs, S \cup {name})
      BY <2>3, <2>5, FittingKeeps, GrowingKeeps DEF S, name
    <2> QED
      BY <2>2, <2>4, <2>6 DEF d, name, S
  <1> HIDE DEF Carried
  <1>4. 0 \in Reached /\ \A n \in 0 .. N - 1 : n \in Reached => n + 1 \in Reached
    BY <1>1, <1>2, <1>3
  <1>5. \A n \in 0 .. N : n \in Reached
    <2> HIDE DEF Reached, N
    <2> QED
      BY <1>1, <1>4, UpTo, Zenon
  <1>6. Carried(N)
    BY <1>1, <1>5
  <1>7. Set(N) = Programs
    BY <1>1 DEF Enumerates
  <1> QED
    BY <1>6, <1>7 DEF Carried
-----------------------------------------------------------------------------
(* The descriptor's total, and the codes of what was changed. *)

Volumes == [root : Nat, sectors : Nat, total : Nat]
IsVolume(raw) == Descriptor \in DOMAIN raw /\ raw[Descriptor].cells \in [{1} -> Volumes]
\* new is raw but for the total that its descriptor gives.
Counts(raw, new, total) ==
  /\ DOMAIN new = DOMAIN raw /\ Addressed(new) /\ IsVolume(new)
  /\ \A n \in DOMAIN raw \ {Descriptor} : new[n] = raw[n]
  /\ Volume(new) = [Volume(raw) EXCEPT !.total = total]
LEMMA CountedIs ==
  ASSUME NEW raw, Addressed(raw), IsVolume(raw), SectorCount(raw) \in Nat
  PROVE  Counts(raw, Counted(raw), SectorCount(raw))
  <1> DEFINE total == SectorCount(raw)
             volume == raw[Descriptor].cells[1]
             sized == [volume EXCEPT !.total = total]
             cells == [raw[Descriptor].cells EXCEPT ![1] = sized]
             new == Counted(raw)
  <1>1. new = [raw EXCEPT ![Descriptor] = [raw[Descriptor] EXCEPT !.cells = cells]]
    BY DEF Counted
  <1>2. raw[Descriptor] = [cells |-> raw[Descriptor].cells, check |-> raw[Descriptor].check, form |-> raw[Descriptor].form,
                           address |-> raw[Descriptor].address]
        /\ raw[Descriptor].address = Descriptor /\ Descriptor \in DOMAIN raw
    BY DEF Addressed, IsSector, IsVolume
  <1>3. volume \in Volumes
    BY DEF IsVolume
  <1>4. sized \in Volumes
    <2> HIDE DEF total, volume
    <2> QED
      BY <1>3 DEF Volumes, total
  <1>5. cells \in [{1} -> Volumes] /\ cells[1] = sized
    <2> HIDE DEF sized
    <2> QED
      BY <1>4 DEF IsVolume
  <1> HIDE DEF cells, new, sized, volume, total
  <1>6. [raw[Descriptor] EXCEPT !.cells = cells] =
          [cells |-> cells, check |-> raw[Descriptor].check, form |-> raw[Descriptor].form, address |-> Descriptor]
    BY <1>2
  <1>7. DOMAIN new = DOMAIN raw /\ \A n \in DOMAIN raw \ {Descriptor} : new[n] = raw[n]
    BY <1>1
  <1>8. new[Descriptor] = [cells |-> cells, check |-> raw[Descriptor].check, form |-> raw[Descriptor].form, address |-> Descriptor]
    BY <1>1, <1>2, <1>6
  <1>9. Addressed(new)
    BY <1>7, <1>8 DEF Addressed, IsSector
  <1>10. new[Descriptor].cells = cells
    BY <1>8
  <1>11. IsVolume(new)
    BY <1>2, <1>5, <1>7, <1>10 DEF IsVolume
  <1>12. Volume(new) = sized
    BY <1>5, <1>10 DEF Volume
  <1>13. sized = [Volume(raw) EXCEPT !.total = total]
    BY DEF sized, volume, Volume
  <1> QED
    BY <1>7, <1>9, <1>11, <1>12, <1>13 DEF Counts, new, total
\* Every sector has the codes of its payload; one that had them keeps all it had.
Coded(raw, new) ==
  /\ DOMAIN new = DOMAIN raw
  /\ \A n \in DOMAIN raw :
       /\ new[n].cells = raw[n].cells
       /\ new[n] = [cells |-> new[n].cells, check |-> new[n].cells, form |-> new[n].form, address |-> n]
       /\ raw[n].check = raw[n].cells => new[n] = raw[n]
LEMMA WithCodesIs ==
  ASSUME NEW raw, Addressed(raw), NEW changed, \A n \in DOMAIN raw \ changed : raw[n].check = raw[n].cells
  PROVE  Coded(raw, WithCodes(raw, changed))
  <1> DEFINE new == WithCodes(raw, changed)
  <1>1. DOMAIN new = DOMAIN raw
    BY DEF WithCodes
  <1>2. ASSUME NEW n \in DOMAIN raw
        PROVE  /\ new[n].cells = raw[n].cells
               /\ new[n] = [cells |-> new[n].cells, check |-> new[n].cells, form |-> new[n].form, address |-> n]
               /\ raw[n].check = raw[n].cells => new[n] = raw[n]
    <2>1. raw[n] = [cells |-> raw[n].cells, check |-> raw[n].check, form |-> raw[n].form, address |-> n]
      BY DEF Addressed, IsSector
    <2> DEFINE cells == raw[n].cells
               check == raw[n].check
               form == raw[n].form
    <2>2. raw[n] = [cells |-> cells, check |-> check, form |-> form, address |-> n]
      BY <2>1
    <2>3. new[n] = IF n \in changed THEN [raw[n] EXCEPT !.check = cells] ELSE raw[n]
      BY DEF WithCodes, Regenerate
    <2>4. n \notin changed => check = cells
      OBVIOUS
    <2> HIDE DEF cells, check, form, new
    <2>5. new[n] = [cells |-> cells, check |-> cells, form |-> form, address |-> n]
      <3>1. CASE n \in changed
        BY <2>2, <2>3, <3>1
      <3>2. CASE n \notin changed
        BY <2>2, <2>3, <2>4, <3>2
      <3> QED
        BY <3>1, <3>2
    <2>6. new[n].cells = cells /\ new[n].form = form
      BY <2>5
    <2>7. check = cells => new[n] = raw[n]
      BY <2>2, <2>5
    <2> QED
      BY <2>5, <2>6, <2>7 DEF cells, check, form
  <1> HIDE DEF new
  <1> QED
    BY <1>1, <1>2 DEF Coded, new
-----------------------------------------------------------------------------
(* What makes a disc carry the programs: placed, counted and coded. *)

Delivered(fin, retail, programs) ==
  /\ Numbered(fin) /\ SectorCount(retail) <= SectorCount(fin)
  /\ \A n \in DOMAIN fin :
       fin[n] = [cells |-> fin[n].cells, check |-> fin[n].cells, form |-> fin[n].form, address |-> n]
  /\ IsVolume(fin)
  /\ IF SectorCount(fin) = SectorCount(retail) THEN Volume(fin) = Volume(retail)
     ELSE SectorCount(fin) <= AddressEnd /\ Volume(fin) = [Volume(retail) EXCEPT !.total = SectorCount(fin)]
  /\ \A n \in DOMAIN retail \ Rewritten(retail) : fin[n] = retail[n]
  /\ \A n \in Directory(retail) :
       /\ fin[n].cells \in Seq(Entries) /\ DOMAIN fin[n].cells = DOMAIN retail[n].cells
       /\ \A i \in DOMAIN retail[n].cells :
            fin[n].cells[i] = retail[n].cells[i] \/ \E name \in Programs : IsoFiles(retail)[name].at = <<n, i>>
  /\ \A name \in Programs : HasPlace(fin, retail, programs, name)
  /\ \A name, other \in Programs :
       name # other => \A n \in Place(fin, retail, programs, name) : n \notin Place(fin, retail, programs, other)

\* The directory is where it was, and names what it named.
LEMMA DirectoryStays ==
  ASSUME NEW Values, NEW retail, NEW programs, Given(retail, programs, Values), NEW fin, Delivered(fin, retail, programs)
  PROVE  /\ Volume(fin).root = Volume(retail).root /\ Volume(fin).sectors = Volume(retail).sectors
         /\ Directory(fin) = Directory(retail)
  <1>1. Volume(retail) \in [root : Nat, sectors : Nat, total : Nat]
    BY MasteredIs DEF Given
  <1>2. Volume(fin).root = Volume(retail).root /\ Volume(fin).sectors = Volume(retail).sectors
    <2>1. Volume(fin) = Volume(retail) \/ Volume(fin) = [Volume(retail) EXCEPT !.total = SectorCount(fin)]
      BY DEF Delivered
    <2> QED
      BY <1>1, <2>1
  <1> QED
    BY <1>2 DEF Directory
LEMMA EntryStays ==
  ASSUME NEW Values, NEW retail, NEW programs, Given(retail, programs, Values), NEW fin, Delivered(fin, retail, programs),
         NEW n \in Directory(retail), NEW i \in DOMAIN retail[n].cells
  PROVE  /\ fin[n].cells[i].name = retail[n].cells[i].name
         /\ fin[n].cells[i].directory = retail[n].cells[i].directory
         /\ fin[n].cells[i] = Gap <=> retail[n].cells[i] = Gap
  <1> SUFFICES ASSUME fin[n].cells[i] # retail[n].cells[i]
               PROVE  /\ fin[n].cells[i].name = retail[n].cells[i].name
                      /\ fin[n].cells[i].directory = retail[n].cells[i].directory
                      /\ fin[n].cells[i] = Gap <=> retail[n].cells[i] = Gap
    OBVIOUS
  <1>1. PICK name \in Programs : IsoFiles(retail)[name].at = <<n, i>>
    BY DEF Delivered
  <1>2. /\ PayloadSize \in Nat \ {0} /\ Mastered(retail) /\ name \in DOMAIN IsoFiles(retail)
        /\ SizeNow(retail, programs, name) \in Nat /\ SizeNow(retail, programs, name) > 0
    BY GivenIs DEF Given
  <1>3. /\ IsFileAt(retail, n, i) /\ retail[n].cells[i] \in Entries
    BY <1>1, <1>2, FileIs DEF EntryAt
  <1>4. retail[n].cells[i] # Gap
    <2>1. i \in Nat /\ i > 0
      <3>1. retail[n].cells \in Seq(Entries)
        BY <1>2 DEF Mastered
      <3> QED
        BY <3>1
    <2> QED
      BY <1>3, <2>1 DEF IsFileAt
  <1> DEFINE was == retail[n].cells[i]
             now == fin[n].cells[i]
             size == SizeNow(retail, programs, name)
  <1>5. now = [was EXCEPT !.lba = now.lba, !.size = size]
    <2>1. HasPlace(fin, retail, programs, name)
      BY DEF Delivered
    <2>2. EntryNow(fin, retail, name) = now /\ EntryNow(retail, retail, name) = was
      BY <1>1 DEF EntryNow, EntryAt
    <2> HIDE DEF was, now, size
    <2> QED
      BY <2>1, <2>2 DEF HasPlace, size
  <1>6. was \in [name : STRING, lba : Nat, size : Nat, directory : BOOLEAN]
    BY <1>3 DEF Entries
  <1>7. now.name = was.name /\ now.directory = was.directory /\ now.size = size
    <2> DEFINE lba == now.lba
    <2>1. now = [was EXCEPT !.lba = lba, !.size = size]
      BY <1>5
    <2> HIDE DEF lba, now, was, size
    <2> QED
      BY <1>6, <2>1
  <1>8. now # Gap
    <2>1. Gap.size = 0
      BY DEF Gap
    <2>2. now.size # 0
      BY <1>2, <1>7
    <2> HIDE DEF now
    <2> QED
      BY <2>1, <2>2
  <1> QED
    BY <1>4, <1>7, <1>8
LEMMA FilesStay ==
  ASSUME NEW Values, NEW retail, NEW programs, Given(retail, programs, Values), NEW fin, Delivered(fin, retail, programs),
         NEW n, NEW i
  PROVE  IsFileAt(fin, n, i) <=> IsFileAt(retail, n, i)
  <1>1. Directory(fin) = Directory(retail)
    BY DirectoryStays
  <1>2. SUFFICES ASSUME n \in Directory(retail) PROVE IsFileAt(fin, n, i) <=> IsFileAt(retail, n, i)
    BY <1>1 DEF IsFileAt
  <1>3. DOMAIN fin[n].cells = DOMAIN retail[n].cells
    BY <1>2 DEF Delivered
  <1>4. SUFFICES ASSUME i \in DOMAIN retail[n].cells PROVE IsFileAt(fin, n, i) <=> IsFileAt(retail, n, i)
    BY <1>3 DEF IsFileAt
  <1>5. \A j \in 1 .. i : j \in DOMAIN retail[n].cells
    <2>1. retail[n].cells \in Seq(Entries)
      BY <1>2 DEF Given, Mastered
    <2> QED
      BY <1>4, <2>1
  <1>6. \A j \in 1 .. i : fin[n].cells[j] = Gap <=> retail[n].cells[j] = Gap
    BY <1>2, <1>5, EntryStays
  <1>7. fin[n].cells[i].directory = retail[n].cells[i].directory
    BY <1>2, <1>4, EntryStays
  <1> QED
    BY <1>1, <1>2, <1>3, <1>4, <1>6, <1>7 DEF IsFileAt
LEMMA RootStays ==
  ASSUME NEW Values, NEW retail, NEW programs, Given(retail, programs, Values), NEW fin, Delivered(fin, retail, programs)
  PROVE  Listable(fin)
  <1>1. PayloadSize \in Nat \ {0} /\ Mastered(retail) /\ Listable(retail)
    BY DEF Given, Mastered
  <1>2. Fits(fin, Volume(fin).root, Volume(fin).sectors * PayloadSize)
    <2> DEFINE root == Volume(retail).root
               need == SectorsOf(Volume(retail).sectors * PayloadSize)
    <2>1. Volume(fin).root = root /\ Volume(fin).sectors = Volume(retail).sectors
      BY DirectoryStays
    <2>2. Fits(retail, root, Volume(retail).sectors * PayloadSize)
      BY <1>1 DEF Listable
    <2>3. root \in Nat /\ Volume(retail).sectors \in Nat /\ SectorCount(retail) \in Nat
      BY <1>1, MasteredIs
    <2>4. need \in Nat /\ need = Volume(retail).sectors
      BY <1>1, <2>3, WholeSectors
    <2>5. SectorCount(fin) \in Nat /\ SectorCount(retail) <= SectorCount(fin)
      BY CountIs DEF Delivered
    <2>6. root + need <= SectorCount(retail)
      BY <2>2 DEF Fits
    <2> HIDE DEF root, need
    <2>7. root + need <= SectorCount(fin)
      BY <2>3, <2>4, <2>5, <2>6
    <2> QED
      BY <2>1, <2>2, <2>7 DEF Fits, root, need
  <1>3. ASSUME NEW r \in RootFiles(fin), NEW s \in RootFiles(fin), r.record.name = s.record.name PROVE r = s
    <2>1. PICK n, i : IsFileAt(fin, n, i) /\ r = [record |-> fin[n].cells[i], at |-> <<n, i>>]
      BY RootFileIs
    <2>2. PICK m, j : IsFileAt(fin, m, j) /\ s = [record |-> fin[m].cells[j], at |-> <<m, j>>]
      BY RootFileIs
    <2>3. IsFileAt(retail, n, i) /\ IsFileAt(retail, m, j)
      BY <2>1, <2>2, FilesStay
    <2>4. /\ n \in Directory(retail) /\ i \in DOMAIN retail[n].cells /\ m \in Directory(retail) /\ j \in DOMAIN retail[m].cells
      BY <2>3 DEF IsFileAt
    <2>5. fin[n].cells[i].name = retail[n].cells[i].name /\ fin[m].cells[j].name = retail[m].cells[j].name
      BY <2>4, EntryStays
    <2>6. r.record = fin[n].cells[i] /\ s.record = fin[m].cells[j]
      BY <2>1, <2>2
    <2>7. retail[n].cells[i].name = retail[m].cells[j].name
      BY <1>3, <2>5, <2>6
    <2>8. FileOf(retail, n, i) = FileOf(retail, m, j)
      BY <1>1, <2>3, <2>7, FoundAt
    <2>9. <<n, i>> = <<m, j>>
      BY <2>8 DEF FileOf
    <2> QED
      BY <2>1, <2>2, <2>9
  <1> QED
    BY <1>2, <1>3 DEF Listable
\* Each name finds the entry it found.
LEMMA NamesStay ==
  ASSUME NEW Values, NEW retail, NEW programs, Given(retail, programs, Values), NEW fin, Delivered(fin, retail, programs)
  PROVE  /\ DOMAIN IsoFiles(fin) = DOMAIN IsoFiles(retail)
         /\ \A name \in DOMAIN IsoFiles(retail) :
              LET at == IsoFiles(retail)[name].at IN IsoFiles(fin)[name] = FileOf(fin, at[1], at[2])
  <1>1. PayloadSize \in Nat \ {0} /\ Mastered(retail) /\ Listable(retail) /\ Listable(fin)
    BY RootStays DEF Given, Mastered
  <1>2. ASSUME NEW name \in DOMAIN IsoFiles(retail)
        PROVE  LET at == IsoFiles(retail)[name].at
               IN name \in DOMAIN IsoFiles(fin) /\ IsoFiles(fin)[name] = FileOf(fin, at[1], at[2])
    <2> DEFINE n == IsoFiles(retail)[name].at[1]
               i == IsoFiles(retail)[name].at[2]
    <2>1. IsFileAt(retail, n, i) /\ retail[n].cells[i].name = name
      BY <1>1, FileIs DEF EntryAt
    <2> HIDE DEF n, i
    <2>2. n \in Directory(retail) /\ i \in DOMAIN retail[n].cells
      BY <2>1 DEF IsFileAt
    <2>3. IsFileAt(fin, n, i) /\ fin[n].cells[i].name = name
      BY <2>1, <2>2, FilesStay, EntryStays
    <2>4. name \in DOMAIN IsoFiles(fin) /\ IsoFiles(fin)[name] = FileOf(fin, n, i)
      BY <1>1, <2>3, FoundAt
    <2> QED
      BY <2>4 DEF n, i
  <1>3. ASSUME NEW name \in DOMAIN IsoFiles(fin) PROVE name \in DOMAIN IsoFiles(retail)
    <2>1. PICK n, i : IsFileAt(fin, n, i) /\ fin[n].cells[i].name = name
      BY <1>1, IsoFileIs
    <2>2. IsFileAt(retail, n, i)
      BY <2>1, FilesStay
    <2>3. n \in Directory(retail) /\ i \in DOMAIN retail[n].cells
      BY <2>2 DEF IsFileAt
    <2>4. retail[n].cells[i].name = name
      BY <2>1, <2>3, EntryStays
    <2> QED
      BY <1>1, <2>2, <2>4, FoundAt
  <1> QED
    BY <1>2, <1>3
\* A file that is no program keeps its extent; a program has its place.
LEMMA OthersKept ==
  ASSUME NEW Values, NEW retail, NEW programs, Given(retail, programs, Values), NEW fin, Delivered(fin, retail, programs),
         NEW name \in DOMAIN IsoFiles(retail), name \notin Programs
  PROVE  IsoFiles(fin)[name] = IsoFiles(retail)[name]
  <1> DEFINE n == IsoFiles(retail)[name].at[1]
             i == IsoFiles(retail)[name].at[2]
  <1>1. PayloadSize \in Nat \ {0} /\ Mastered(retail) /\ Programs \subseteq DOMAIN IsoFiles(retail)
    BY DEF Given
  <1>2. IsoFiles(retail)[name].at = <<n, i>> /\ IsFileAt(retail, n, i) /\ retail[n].cells[i].name = name
    BY <1>1, FileIs DEF EntryAt
  <1>3. IsoFiles(fin)[name] = FileOf(fin, n, i)
    BY NamesStay
  <1>4. IsoFiles(retail)[name] = FileOf(retail, n, i)
    <2>1. Listable(retail)
      BY <1>1 DEF Mastered
    <2> HIDE DEF n, i
    <2>2. IsoFiles(retail)[retail[n].cells[i].name] = FileOf(retail, n, i)
      BY <1>2, <2>1, FoundAt
    <2> QED
      BY <1>2, <2>2
  <1> HIDE DEF n, i
  <1>5. n \in Directory(retail) /\ i \in DOMAIN retail[n].cells
    BY <1>2 DEF IsFileAt
  <1>6. fin[n].cells[i] = retail[n].cells[i]
    <2>1. SUFFICES ASSUME NEW other \in Programs, IsoFiles(retail)[other].at = <<n, i>> PROVE FALSE
      BY <1>5 DEF Delivered
    <2>2. IsoFiles(retail)[other].at = IsoFiles(retail)[name].at
      BY <1>2, <2>1
    <2> QED
      BY <1>1, <2>2, EntriesApart
  <1> QED
    BY <1>3, <1>4, <1>6 DEF FileOf
LEMMA ProgramFile ==
  ASSUME NEW Values, NEW retail, NEW programs, Given(retail, programs, Values), NEW fin, Delivered(fin, retail, programs),
         NEW name \in Programs
  PROVE  LET file == IsoFiles(fin)[name]
         IN /\ name \in DOMAIN IsoFiles(fin)
            /\ file.size = SizeNow(retail, programs, name) /\ file.lba = EntryNow(fin, retail, name).lba
            /\ Extent(file) = Place(fin, retail, programs, name)
  <1> DEFINE n == IsoFiles(retail)[name].at[1]
             i == IsoFiles(retail)[name].at[2]
             file == IsoFiles(fin)[name]
             entry == EntryNow(fin, retail, name)
             size == SizeNow(retail, programs, name)
  <1>1. PayloadSize \in Nat \ {0} /\ Mastered(retail) /\ name \in DOMAIN IsoFiles(retail)
    BY DEF Given
  <1>2. EntryNow(retail, retail, name) \in Entries
    BY <1>1, FileIs DEF EntryNow
  <1>3. file = FileOf(fin, n, i) /\ name \in DOMAIN IsoFiles(fin)
    BY <1>1, NamesStay
  <1>4. entry = fin[n].cells[i]
    BY DEF EntryNow, EntryAt
  <1>5. file.lba = entry.lba /\ file.size = entry.size
    BY <1>3, <1>4 DEF FileOf
  <1>6. entry = [EntryNow(retail, retail, name) EXCEPT !.lba = entry.lba, !.size = size]
    BY DEF Delivered, HasPlace
  <1>7. entry.size = size
    <2> DEFINE was == EntryNow(retail, retail, name)
               lba == entry.lba
    <2>1. entry = [was EXCEPT !.lba = lba, !.size = size] /\ was \in [name : STRING, lba : Nat, size : Nat, directory : BOOLEAN]
      BY <1>2, <1>6 DEF Entries
    <2> HIDE DEF was, lba, entry, size
    <2> QED
      BY <2>1
  <1> QED
    BY <1>3, <1>5, <1>7 DEF Extent, Place
\* Every file of the disc is where it was, or is a program at its place.
LEMMA FileStands ==
  ASSUME NEW Values, NEW retail, NEW programs, Given(retail, programs, Values), NEW fin, Delivered(fin, retail, programs),
         NEW name \in DOMAIN IsoFiles(retail)
  PROVE  LET file == IsoFiles(fin)[name]
         IN /\ Fits(fin, file.lba, file.size)
            /\ \A n \in Extent(file) : n \notin Directory(retail) /\ n # Descriptor
            /\ \A n \in Extent(file) : n \in Extent(IsoFiles(retail)[name]) \/ (name \in Programs /\ n \notin DOMAIN retail)
  <1>1. PayloadSize \in Nat \ {0} /\ Mastered(retail)
    BY DEF Given
  <1>2. SectorCount(fin) \in Nat /\ SectorCount(retail) \in Nat /\ SectorCount(retail) <= SectorCount(fin)
        /\ DOMAIN retail = 0 .. SectorCount(retail) - 1
    BY <1>1, CountIs, MasteredIs DEF Delivered
  <1>3. CASE name \notin Programs
    <2>1. IsoFiles(fin)[name] = IsoFiles(retail)[name]
      BY <1>3, OthersKept
    <2> DEFINE file == IsoFiles(retail)[name]
               count == SectorsOf(file.size)
    <2>2. file.lba \in Nat /\ file.size \in Nat /\ count \in Nat /\ file.lba + count <= SectorCount(retail)
      BY <1>1, FileIs
    <2>3. Extent(file) \cap (Directory(retail) \cup {Descriptor}) = {}
      BY <1>1 DEF Mastered
    <2> HIDE DEF file, count
    <2>4. file.lba + count <= SectorCount(fin)
      BY <1>2, <2>2
    <2>5. Fits(fin, file.lba, file.size)
      BY <2>2, <2>4 DEF Fits, count
    <2> QED
      BY <2>1, <2>3, <2>5 DEF file
  <1>4. CASE name \in Programs
    <2> DEFINE file == IsoFiles(fin)[name]
               size == SizeNow(retail, programs, name)
    <2>1. file.size = size /\ file.lba = EntryNow(fin, retail, name).lba /\ Extent(file) = Place(fin, retail, programs, name)
      BY <1>4, ProgramFile
    <2>2. HasPlace(fin, retail, programs, name)
      BY <1>4 DEF Delivered
    <2>3. size \in Nat /\ SectorsOf(size) \in Nat
      BY <1>4, GivenIs
    <2>4. \A n \in Place(fin, retail, programs, name) :
            /\ n \in Nat /\ n \notin Directory(retail) /\ n # Descriptor
            /\ n < SectorCount(retail) => n \in Extent(IsoFiles(retail)[name])
      BY <1>2, <1>4, <2>2, PlaceIs
    <2>5. file.lba \in Nat /\ file.lba + SectorsOf(size) <= SectorCount(fin)
      BY <2>1, <2>2 DEF HasPlace
    <2> HIDE DEF file, size
    <2>6. Fits(fin, file.lba, file.size)
      BY <2>1, <2>3, <2>5 DEF Fits
    <2>7. \A n \in Extent(file) : n \in Extent(IsoFiles(retail)[name]) \/ n \notin DOMAIN retail
      BY <1>2, <2>1, <2>4
    <2> QED
      BY <1>4, <2>1, <2>4, <2>6, <2>7 DEF file
  <1> QED
    BY <1>3, <1>4
\* No two files of the disc share a sector.
LEMMA FilesApart ==
  ASSUME NEW Values, NEW retail, NEW programs, Given(retail, programs, Values), NEW fin, Delivered(fin, retail, programs),
         NEW name \in DOMAIN IsoFiles(retail), NEW other \in DOMAIN IsoFiles(retail) \ {name}
  PROVE  Extent(IsoFiles(fin)[name]) \cap Extent(IsoFiles(fin)[other]) = {}
  <1> DEFINE mine == Extent(IsoFiles(fin)[name])
             its == Extent(IsoFiles(fin)[other])
  <1>1. SUFFICES ASSUME NEW n \in mine, n \in its PROVE FALSE
    OBVIOUS
  <1>2. /\ n \in Extent(IsoFiles(retail)[name]) \/ (name \in Programs /\ n \notin DOMAIN retail)
        /\ n \in Extent(IsoFiles(retail)[other]) \/ (other \in Programs /\ n \notin DOMAIN retail)
    BY <1>1, FileStands
  <1>3. Mastered(retail) /\ PayloadSize \in Nat \ {0}
    BY DEF Given
  <1>4. CASE n \in DOMAIN retail
    <2>1. Extent(IsoFiles(retail)[name]) \cap Extent(IsoFiles(retail)[other]) = {}
      BY <1>3 DEF Mastered
    <2> QED
      BY <1>2, <1>4, <2>1
  <1>5. CASE n \notin DOMAIN retail
    <2>1. \A any \in DOMAIN IsoFiles(retail) : n \notin Extent(IsoFiles(retail)[any])
      <3> SUFFICES ASSUME NEW any \in DOMAIN IsoFiles(retail), n \in Extent(IsoFiles(retail)[any]) PROVE FALSE
        OBVIOUS
      <3> DEFINE file == IsoFiles(retail)[any]
                 count == SectorsOf(file.size)
      <3>1. file.lba \in Nat /\ count \in Nat /\ file.lba + count <= SectorCount(retail)
        BY <1>3, FileIs
      <3>2. DOMAIN retail = 0 .. SectorCount(retail) - 1 /\ SectorCount(retail) \in Nat
        BY <1>3, CountIs, MasteredIs
      <3>3. n \in file.lba .. file.lba + count - 1
        BY DEF Extent
      <3> HIDE DEF file, count
      <3> QED
        BY <1>5, <3>1, <3>2, <3>3
    <2>2. name \in Programs /\ other \in Programs
      BY <1>2, <2>1
    <2>3. mine = Place(fin, retail, programs, name) /\ its = Place(fin, retail, programs, other)
      BY <2>2, ProgramFile
    <2> QED
      BY <1>1, <2>2, <2>3 DEF Delivered
  <1> QED
    BY <1>4, <1>5
\* What is placed, counted and coded carries the programs.
LEMMA DeliveredCarries ==
  ASSUME NEW Values, NEW retail, NEW programs, Given(retail, programs, Values), NEW fin, Delivered(fin, retail, programs)
  PROVE  Carries(fin, retail, programs)
  <1>1. PayloadSize \in Nat \ {0} /\ Mastered(retail) /\ Numbered(fin) /\ Numbered(retail)
    BY MasteredIs DEF Given, Delivered
  <1>2. /\ SectorCount(fin) \in Nat /\ SectorCount(retail) \in Nat /\ SectorCount(retail) <= SectorCount(fin)
        /\ DOMAIN retail = 0 .. SectorCount(retail) - 1 /\ DOMAIN fin = 0 .. SectorCount(fin) - 1
    BY <1>1, CountIs DEF Delivered
  <1>3. DOMAIN retail \subseteq DOMAIN fin
    BY <1>2
  <1>4. Directory(fin) = Directory(retail) /\ Descriptor \notin Directory(retail) /\ Descriptor \in DOMAIN retail
    BY <1>1, DirectoryStays, MasteredIs
  <1>5. DOMAIN IsoFiles(fin) = DOMAIN IsoFiles(retail)
    BY NamesStay
  <1>6. Mastered(fin)
    <2>1. IsFiniteSet(DOMAIN fin) /\ DOMAIN fin = 0 .. SectorCount(fin) - 1
      BY <1>1 DEF Numbered
    <2>2. \A n \in DOMAIN fin :
            fin[n] = [cells |-> fin[n].cells, check |-> fin[n].cells, form |-> fin[n].form, address |-> n]
      BY DEF Delivered
    <2>3. Descriptor \in DOMAIN fin \ Directory(fin)
      BY <1>3, <1>4
    <2>4. fin[Descriptor].cells \in [{1} -> [root : Nat, sectors : Nat, total : Nat]]
      BY DEF Delivered, IsVolume, Volumes
    <2>5. Listable(fin)
      BY RootStays
    <2>6. \A n \in Directory(fin) : fin[n].cells \in Seq(Entries)
      BY <1>4 DEF Delivered
    <2>7. ASSUME NEW name \in DOMAIN IsoFiles(fin)
          PROVE  LET file == IsoFiles(fin)[name]
                 IN /\ Fits(fin, file.lba, file.size)
                    /\ Extent(file) \cap (Directory(fin) \cup {Descriptor}) = {}
                    /\ \A other \in DOMAIN IsoFiles(fin) \ {name} : Extent(file) \cap Extent(IsoFiles(fin)[other]) = {}
      <3> DEFINE file == IsoFiles(fin)[name]
      <3>1. Fits(fin, file.lba, file.size) /\ \A n \in Extent(file) : n \notin Directory(retail) /\ n # Descriptor
        BY <1>5, FileStands
      <3>2. \A other \in DOMAIN IsoFiles(fin) \ {name} : Extent(file) \cap Extent(IsoFiles(fin)[other]) = {}
        BY <1>5, FilesApart
      <3> HIDE DEF file
      <3>3. Extent(file) \cap (Directory(fin) \cup {Descriptor}) = {}
        BY <1>4, <3>1
      <3> QED
        BY <3>1, <3>2, <3>3 DEF file
    <2> QED
      BY <2>1, <2>2, <2>3, <2>4, <2>5, <2>6, <2>7 DEF Mastered
  <1>7. OthersStand(fin, retail)
    BY DEF Delivered, OthersStand
  <1>8. ASSUME NEW name \in Programs
        PROVE  LET file == IsoFiles(fin)[name]
               IN file.size >= Len(programs[name]) /\ ReadFile(fin, file) = Padded(programs[name], file.size)
    <2> DEFINE file == IsoFiles(fin)[name]
               program == programs[name]
    <2>1. program \in Seq(Values) /\ Len(program) <= SizeNow(retail, programs, name) /\ SizeNow(retail, programs, name) \in Nat
          /\ Len(program) \in Nat
      BY GivenIs
    <2>2. file.size = SizeNow(retail, programs, name) /\ file.lba = EntryNow(fin, retail, name).lba
      BY ProgramFile
    <2>3. Holds(fin, file.lba, SectorsOf(file.size), program)
      BY <2>2 DEF Delivered, HasPlace
    <2> HIDE DEF file, program
    <2>4. ReadFile(fin, file) = Padded(program, file.size)
      BY <1>1, <2>1, <2>2, <2>3, ReadsAs
    <2> QED
      BY <2>1, <2>2, <2>4 DEF file, program
  <1>9. \A name \in DOMAIN IsoFiles(retail) \ Programs : IsoFiles(fin)[name] = IsoFiles(retail)[name]
    BY OthersKept
  <1>10. IF SectorCount(fin) = SectorCount(retail) THEN Volume(fin) = Volume(retail)
         ELSE SectorCount(fin) <= AddressEnd /\ Volume(fin) = [Volume(retail) EXCEPT !.total = SectorCount(fin)]
    BY DEF Delivered
  <1> QED
    BY <1>3, <1>5, <1>6, <1>7, <1>8, <1>9, <1>10 DEF Carries
-----------------------------------------------------------------------------
(* A rebuild that does not fail delivers. *)

\* volumed is what _set_volume_space_size makes of the placed programs' disc.
HasVolume(retail, raw, volumed, changed) ==
  /\ DOMAIN volumed = DOMAIN raw /\ Addressed(volumed) /\ IsVolume(volumed)
  /\ \A n \in DOMAIN raw \ {Descriptor} : volumed[n] = raw[n]
  /\ IF SectorCount(raw) = SectorCount(retail) THEN Volume(volumed) = Volume(retail)
     ELSE Volume(volumed) = [Volume(retail) EXCEPT !.total = SectorCount(raw)]
  /\ \A n \in DOMAIN raw \ changed : volumed[n].check = volumed[n].cells
LEMMA DescriptorStays ==
  ASSUME NEW Values, NEW retail, NEW programs, Given(retail, programs, Values),
         NEW disc, PlacedSoFar(disc, retail, programs, Programs)
  PROVE  Descriptor \in DOMAIN disc.raw /\ disc.raw[Descriptor] = retail[Descriptor] /\ IsVolume(disc.raw)
  <1>1. PayloadSize \in Nat \ {0} /\ Mastered(retail)
    BY DEF Given
  <1>2. Numbered(disc.raw) /\ SectorCount(retail) <= SectorCount(disc.raw)
    BY DEF PlacedSoFar
  <1>3. SectorCount(disc.raw) \in Nat /\ DOMAIN disc.raw = 0 .. SectorCount(disc.raw) - 1
    BY <1>2, CountIs
  <1>4. /\ Descriptor \in DOMAIN retail /\ Descriptor \notin Directory(retail)
        /\ SectorCount(retail) \in Nat /\ DOMAIN retail = 0 .. SectorCount(retail) - 1
    BY <1>1, CountIs, MasteredIs
  <1>5. Descriptor \in DOMAIN disc.raw
    BY <1>2, <1>3, <1>4
  <1>6. \A name \in Programs : Descriptor \notin Place(disc.raw, retail, programs, name)
    <2> SUFFICES ASSUME NEW name \in Programs, Descriptor \in Place(disc.raw, retail, programs, name) PROVE FALSE
      OBVIOUS
    <2>1. HasPlace(disc.raw, retail, programs, name)
      BY DEF PlacedSoFar
    <2> QED
      BY <1>3, <2>1, PlaceIs
  <1>7. disc.raw[Descriptor] = retail[Descriptor]
    BY <1>4, <1>6 DEF PlacedSoFar
  <1>8. retail[Descriptor].cells \in [{1} -> Volumes]
    BY <1>1 DEF Mastered, Volumes
  <1> QED
    BY <1>5, <1>7, <1>8 DEF IsVolume
LEMMA VolumedIs ==
  ASSUME NEW Values, NEW retail, NEW programs, Given(retail, programs, Values),
         NEW disc, PlacedSoFar(disc, retail, programs, Programs)
  PROVE  LET volumed == Volumed(disc)
         IN /\ volumed = [original |-> retail, raw |-> volumed.raw, changed |-> volumed.changed, failed |-> disc.failed]
            /\ HasVolume(retail, disc.raw, volumed.raw, volumed.changed)
  <1> DEFINE raw == disc.raw
             changed == disc.changed
             failed == disc.failed
             total == SectorCount(raw)
  <1>1. disc = [original |-> retail, raw |-> raw, changed |-> changed, failed |-> failed] /\ disc.original = retail
    <2>1. disc = [original |-> retail, raw |-> raw, changed |-> changed, failed |-> failed]
      BY DEF PlacedSoFar
    <2> HIDE DEF raw, changed, failed
    <2> QED
      BY <2>1
  <1>2. Addressed(raw) /\ Numbered(raw) /\ total \in Nat /\ IsVolume(raw) /\ raw[Descriptor] = retail[Descriptor]
    BY CountIs, DescriptorStays DEF PlacedSoFar
  <1>3. \A n \in DOMAIN raw \ changed : raw[n].check = raw[n].cells
    <2>1. \A n \in DOMAIN retail : retail[n].check = retail[n].cells
      BY MasteredIs DEF Given
    <2>2. \A n \in DOMAIN raw \ changed : n \in DOMAIN retail /\ raw[n] = retail[n]
      BY DEF PlacedSoFar
    <2> QED
      BY <2>1, <2>2
  <1>4. Volume(raw) = Volume(retail)
    BY <1>2 DEF Volume
  <1>5. Counts(raw, Counted(raw), total)
    BY <1>2, CountedIs
  <1>6. CASE total = SectorCount(retail)
    <2>1. Volumed(disc) = disc
      BY <1>1, <1>6 DEF Volumed
    <2>2. HasVolume(retail, raw, raw, changed)
      BY <1>2, <1>3, <1>4, <1>6 DEF HasVolume
    <2> QED
      BY <1>1, <2>1, <2>2
  <1>7. CASE total # SectorCount(retail)
    <2> DEFINE counted == Counted(raw)
               touched == changed \cup {Descriptor}
    <2>1. Volumed(disc) = [disc EXCEPT !.raw = counted, !.changed = touched]
      BY <1>1, <1>7 DEF Volumed
    <2>2. HasVolume(retail, raw, counted, touched)
      <3> HIDE DEF counted
      <3>1. Counts(raw, counted, total)
        BY <1>5 DEF counted
      <3>2. \A n \in DOMAIN raw \ touched : counted[n] = raw[n]
        BY <3>1 DEF Counts
      <3>3. \A n \in DOMAIN raw \ touched : counted[n].check = counted[n].cells
        BY <1>3, <3>2
      <3> QED
        BY <1>4, <1>7, <3>1, <3>3 DEF HasVolume, Counts
    <2> HIDE DEF counted, touched, raw, changed, failed
    <2>3. Volumed(disc) = [original |-> retail, raw |-> counted, changed |-> touched, failed |-> failed]
      BY <1>1, <2>1, Zenon
    <2>4. Volumed(disc).raw = counted /\ Volumed(disc).changed = touched
      BY <2>3
    <2> QED
      BY <2>2, <2>3, <2>4 DEF raw, failed
  <1> QED
    BY <1>6, <1>7
\* The codes of what was changed make of it a disc that carries the programs.
LEMMA CodedDelivers ==
  ASSUME NEW Values, NEW retail, NEW programs, Given(retail, programs, Values),
         NEW disc, PlacedSoFar(disc, retail, programs, Programs),
         SectorCount(disc.raw) = SectorCount(retail) \/ SectorCount(disc.raw) <= AddressEnd,
         NEW volumed, NEW changed, HasVolume(retail, disc.raw, volumed, changed)
  PROVE  Delivered(WithCodes(volumed, changed), retail, programs)
  <1> DEFINE raw == disc.raw
             fin == WithCodes(volumed, changed)
  <1>1. /\ PayloadSize \in Nat \ {0} /\ Mastered(retail) /\ Numbered(raw) /\ SectorCount(retail) <= SectorCount(raw)
        /\ Numbered(retail)
    BY MasteredIs DEF Given, PlacedSoFar
  <1>2. /\ SectorCount(raw) \in Nat /\ SectorCount(retail) \in Nat
        /\ DOMAIN raw = 0 .. SectorCount(raw) - 1 /\ DOMAIN retail = 0 .. SectorCount(retail) - 1
    BY <1>1, CountIs
  <1>3. DOMAIN volumed = DOMAIN raw /\ \A n \in DOMAIN raw \ {Descriptor} : volumed[n] = raw[n]
    BY DEF HasVolume
  <1>4. Coded(volumed, fin)
    BY <1>3, WithCodesIs DEF HasVolume
  <1> HIDE DEF fin
  <1>5. /\ DOMAIN fin = DOMAIN raw
        /\ \A n \in DOMAIN raw : fin[n].cells = volumed[n].cells
        /\ \A n \in DOMAIN fin :
             fin[n] = [cells |-> fin[n].cells, check |-> fin[n].cells, form |-> fin[n].form, address |-> n]
    BY <1>3, <1>4 DEF Coded
  <1>6. Numbered(fin) /\ SectorCount(fin) = SectorCount(raw)
    BY <1>1, <1>5 DEF Numbered, SectorCount
  <1>7. \A n \in DOMAIN raw \ {Descriptor} : fin[n].cells = raw[n].cells
    BY <1>3, <1>5
  <1>8. IsVolume(fin) /\ Volume(fin) = Volume(volumed)
    <2>1. Descriptor \in DOMAIN raw
      BY DescriptorStays
    <2> QED
      BY <1>5, <2>1 DEF HasVolume, IsVolume, Volume
  <1>9. \A n \in Directory(retail) : n \in DOMAIN raw \ {Descriptor}
    <2>1. \A n \in Directory(retail) : n \in DOMAIN retail /\ n # Descriptor
      BY <1>1, MasteredIs
    <2> QED
      BY <1>1, <1>2, <2>1
  <1>10. \A n \in DOMAIN retail \ Rewritten(retail) : fin[n] = retail[n]
    <2> SUFFICES ASSUME NEW n \in DOMAIN retail \ Rewritten(retail) PROVE fin[n] = retail[n]
      OBVIOUS
    <2>1. n \notin Directory(retail) /\ n # Descriptor /\ \A name \in Programs : n \notin Extent(IsoFiles(retail)[name])
      BY DEF Rewritten
    <2>2. \A name \in Programs : n \notin Place(raw, retail, programs, name)
      <3> SUFFICES ASSUME NEW name \in Programs, n \in Place(raw, retail, programs, name) PROVE FALSE
        OBVIOUS
      <3>1. HasPlace(raw, retail, programs, name)
        BY DEF PlacedSoFar
      <3>2. n < SectorCount(retail)
        BY <1>2
      <3>3. n \in Extent(IsoFiles(retail)[name])
        BY <1>2, <3>1, <3>2, PlaceIs
      <3> QED
        BY <2>1, <3>3
    <2>3. raw[n] = retail[n]
      BY <2>1, <2>2 DEF PlacedSoFar
    <2>4. n \in DOMAIN raw
      BY <1>1, <1>2
    <2>5. volumed[n] = retail[n] /\ retail[n].check = retail[n].cells
      <3>1. retail[n].check = retail[n].cells
        BY <1>1, MasteredIs
      <3> QED
        BY <1>3, <2>1, <2>3, <2>4, <3>1
    <2> QED
      BY <1>3, <1>4, <2>4, <2>5 DEF Coded
  <1>11. \A n \in Directory(retail) :
           /\ fin[n].cells \in Seq(Entries) /\ DOMAIN fin[n].cells = DOMAIN retail[n].cells
           /\ \A i \in DOMAIN retail[n].cells :
                fin[n].cells[i] = retail[n].cells[i] \/ \E name \in Programs : IsoFiles(retail)[name].at = <<n, i>>
    <2> SUFFICES ASSUME NEW n \in Directory(retail)
                 PROVE  /\ fin[n].cells \in Seq(Entries) /\ DOMAIN fin[n].cells = DOMAIN retail[n].cells
                        /\ \A i \in DOMAIN retail[n].cells :
                             fin[n].cells[i] = retail[n].cells[i] \/ \E name \in Programs : IsoFiles(retail)[name].at = <<n, i>>
      OBVIOUS
    <2>1. fin[n].cells = raw[n].cells
      BY <1>7, <1>9
    <2>2. /\ raw[n].cells \in Seq(Entries) /\ DOMAIN raw[n].cells = DOMAIN retail[n].cells
          /\ \A i \in DOMAIN retail[n].cells :
               raw[n].cells[i] = retail[n].cells[i] \/ \E name \in Programs : IsoFiles(retail)[name].at = <<n, i>>
      BY DEF PlacedSoFar
    <2> QED
      BY <2>1, <2>2
  <1>12. ASSUME NEW name \in Programs
         PROVE  /\ HasPlace(fin, retail, programs, name)
                /\ Place(fin, retail, programs, name) = Place(raw, retail, programs, name)
    <2>1. HasPlace(raw, retail, programs, name)
      BY DEF PlacedSoFar
    <2>2. \A n \in Place(raw, retail, programs, name) : n \in DOMAIN raw \ {Descriptor}
      BY <1>2, <2>1, PlaceIs
    <2>3. \A n \in Place(raw, retail, programs, name) : fin[n].cells = raw[n].cells
      BY <1>7, <2>2
    <2>4. EntryNow(fin, retail, name) = EntryNow(raw, retail, name)
      <3>1. IsoFiles(retail)[name].at[1] \in Directory(retail)
        BY <1>1, FileIs DEF Given, IsFileAt
      <3> QED
        BY <1>7, <1>9, <3>1 DEF EntryNow, EntryAt
    <2>5. SectorCount(fin) \in Nat /\ SectorCount(raw) <= SectorCount(fin)
      BY <1>2, <1>6
    <2> HIDE DEF raw
    <2> QED
      BY <1>2, <2>1, <2>3, <2>4, <2>5, PlaceStays
  <1>13. \A name, other \in Programs :
           name # other => \A n \in Place(fin, retail, programs, name) : n \notin Place(fin, retail, programs, other)
    BY <1>12 DEF PlacedSoFar
  <1>14. IF SectorCount(fin) = SectorCount(retail) THEN Volume(fin) = Volume(retail)
         ELSE SectorCount(fin) <= AddressEnd /\ Volume(fin) = [Volume(retail) EXCEPT !.total = SectorCount(fin)]
    BY <1>6, <1>8 DEF HasVolume
  <1> QED
    BY <1>1, <1>5, <1>6, <1>8, <1>10, <1>11, <1>12, <1>13, <1>14 DEF Delivered, fin
\* What prepare asks of its inputs is what the proof is given.
LEMMA AcceptableIsGiven ==
  ASSUME NEW Values, NEW retail, Mastered(retail), NEW programs \in [Programs -> Seq(Values)],
         NEW raw, Acceptable(raw, retail, programs)
  PROVE  raw = retail /\ Given(retail, programs, Values)
  <1>1. raw = retail /\ PayloadSize \in Nat \ {0} /\ AddressEnd \in Int
    BY DiscAssumption DEF Acceptable
  <1>2. ASSUME NEW name \in Programs
        PROVE  /\ name \in DOMAIN IsoFiles(retail) /\ IsoFiles(retail)[name].size % PayloadSize = 0
               /\ Len(programs[name]) > 0
    <2>1. IsProgram(programs[name]) /\ name \in DOMAIN IsoFiles(raw) /\ HoldsExtent(raw, IsoFiles(raw)[name])
      BY DEF Acceptable
    <2>2. Len(programs[name]) \in Nat /\ Len(programs[name]) >= PayloadSize
      BY <2>1 DEF IsProgram
    <2> QED
      BY <1>1, <2>1, <2>2 DEF HoldsExtent
  <1> QED
    BY <1>1, <1>2 DEF Given
\* What _set_volume_space_size leaves gets the codes of what was changed.
LEMMA ReframedIs ==
  ASSUME NEW retail, NEW raw, NEW changed, NEW failed,
         NEW disc, disc = [original |-> retail, raw |-> raw, changed |-> changed, failed |-> failed]
  PROVE  Reframed(disc) =
           [original |-> retail, raw |-> WithCodes(raw, changed), changed |-> changed,
            failed |-> failed \/ \E n \in changed : raw[n].form # 1]
  <1> DEFINE coded == WithCodes(raw, changed)
             stray == \E n \in changed : raw[n].form # 1
             fails == disc.failed \/ stray
             written == [disc EXCEPT !.raw = coded]
  <1>1. disc.raw = raw /\ disc.changed = changed
    OBVIOUS
  <1>2. Reframed(disc) = [written EXCEPT !.failed = fails]
    BY <1>1 DEF Reframed
  <1> HIDE DEF coded, stray, fails
  <1>3. written = [original |-> retail, raw |-> coded, changed |-> changed, failed |-> failed]
    OBVIOUS
  <1> HIDE DEF written
  <1>4. [written EXCEPT !.failed = fails] = [original |-> retail, raw |-> coded, changed |-> changed, failed |-> fails]
    BY <1>3
  <1>5. Reframed(disc) = [original |-> retail, raw |-> coded, changed |-> changed, failed |-> fails]
    BY <1>2, <1>4
  <1>6. fails = (failed \/ stray)
    <2>1. disc.failed = failed
      OBVIOUS
    <2> QED
      BY <2>1, Zenon DEF fails
  <1>7. Reframed(disc) = [original |-> retail, raw |-> coded, changed |-> changed, failed |-> failed \/ stray]
    BY <1>5, <1>6, Zenon
  <1> QED
    BY <1>7 DEF coded, stray
\* Whatever the disc, the programs and their lengths: a rebuild that does not fail gives a disc
\* that is mastered as the retail one is, reads every program back through its directory, in its
\* extent or in new sectors, and has everything else as it was (psxbuild/disc.py, prepare).
THEOREM RebuiltCarries ==
  ASSUME NEW Values, NEW retail, Mastered(retail), NEW programs \in [Programs -> Seq(Values)],
         NEW raw, Acceptable(raw, retail, programs), NEW order, Enumerates(order),
         ~Rebuilt(raw, order, programs).failed
  PROVE  Carries(Rebuilt(raw, order, programs).raw, retail, programs)
  <1> DEFINE placed == PlacedUpTo(retail, order, programs)[Len(order)]
             volumed == Volumed(placed)
             sectors == volumed.raw
             changed == volumed.changed
             failed == placed.failed
             coded == WithCodes(sectors, changed)
             stray == \E n \in changed : sectors[n].form # 1
  <1>1. raw = retail /\ Given(retail, programs, Values)
    BY AcceptableIsGiven
  <1>2. PlacedSoFar(placed, retail, programs, Programs)
    BY <1>1, AllPlaced
  <1>3. /\ volumed = [original |-> retail, raw |-> sectors, changed |-> changed, failed |-> failed]
        /\ HasVolume(retail, placed.raw, sectors, changed)
    <2> HIDE DEF placed
    <2> QED
      BY <1>1, <1>2, VolumedIs
  <1>4. Rebuilt(raw, order, programs) = Reframed(volumed)
    BY <1>1 DEF Rebuilt
  <1> HIDE DEF placed, volumed
  <1>5. Reframed(volumed) = [original |-> retail, raw |-> coded, changed |-> changed, failed |-> failed \/ stray]
    <2> HIDE DEF sectors, changed, failed
    <2> QED
      BY <1>3, ReframedIs
  <1>6. Rebuilt(raw, order, programs) = [original |-> retail, raw |-> coded, changed |-> changed, failed |-> failed \/ stray]
    BY <1>4, <1>5, Zenon
  <1> HIDE DEF coded
  <1>7. ~failed /\ Rebuilt(raw, order, programs).raw = coded
    <2> DEFINE fails == failed \/ stray
    <2>1. Rebuilt(raw, order, programs) = [original |-> retail, raw |-> coded, changed |-> changed, failed |-> fails]
      BY <1>6
    <2> HIDE DEF sectors, changed, fails, failed
    <2>2. Rebuilt(raw, order, programs).failed = fails /\ Rebuilt(raw, order, programs).raw = coded
      BY <2>1
    <2>3. ~fails
      BY <2>2
    <2> QED
      BY <2>2, <2>3 DEF fails
  <1>8. SectorCount(placed.raw) = SectorCount(retail) \/ SectorCount(placed.raw) <= AddressEnd
    BY <1>2, <1>7 DEF PlacedSoFar
  <1>9. Delivered(coded, retail, programs)
    <2> HIDE DEF sectors, changed, failed
    <2> QED
      BY <1>1, <1>2, <1>3, <1>8, CodedDelivers DEF coded
  <1> QED
    BY <1>1, <1>7, <1>9, DeliveredCarries
-----------------------------------------------------------------------------
(* The cache. *)

\* Every run of prepare, whenever it is killed, leaves the discs of the cache as they are and adds
\* none but one that carries the programs of its key; one that returns has its disc in the cache
\* (psxbuild/disc.py, prepare).
THEOREM PrepareKeepsCache ==
  ASSUME NEW Values, NEW retail, Mastered(retail), NEW programs \in [Programs -> Seq(Values)],
         NEW raw, NEW order, Enumerates(order), NEW discs, AllCarry(discs),
         NEW end \in Prepare(discs, raw, retail, order, programs)
  PROVE  /\ AllCarry(end.discs)
         /\ \A key \in DOMAIN discs : key \in DOMAIN end.discs /\ end.discs[key] = discs[key]
         /\ end.done => Key(raw, programs) \in DOMAIN end.discs
  <1> DEFINE key == Key(raw, programs)
             disc == Rebuilt(raw, order, programs)
             joined == Joining(discs, key, disc.raw)
  <1>1. \/ end = Outcome(discs, FALSE)
        \/ end = Outcome(discs, TRUE) /\ key \in DOMAIN discs
        \/ /\ end = Outcome(joined, FALSE) \/ end = Outcome(joined, TRUE)
           /\ key \notin DOMAIN discs /\ ~disc.failed /\ Acceptable(raw, retail, programs)
    <2> HIDE DEF key, disc
    <2>1. CASE ~Acceptable(raw, retail, programs)
      BY <2>1 DEF Prepare
    <2>2. CASE Acceptable(raw, retail, programs)
      <3>1. end \in Cached(discs, key, disc)
        BY <2>2 DEF Prepare, key, disc
      <3>2. CASE key \in DOMAIN discs
        BY <3>1, <3>2 DEF Cached
      <3>3. CASE key \notin DOMAIN discs /\ disc.failed
        BY <3>1, <3>3 DEF Cached
      <3>4. CASE key \notin DOMAIN discs /\ ~disc.failed
        <4>1. end \in WriteAndReplace(discs, key, disc.raw)
          BY <3>1, <3>4 DEF Cached
        <4> QED
          BY <2>2, <3>4, <4>1 DEF WriteAndReplace
      <3> QED
        BY <3>2, <3>3, <3>4
    <2> QED
      BY <2>1, <2>2
  <1>2. CASE end = Outcome(discs, FALSE)
    BY <1>2 DEF Outcome
  <1>3. CASE end = Outcome(discs, TRUE) /\ key \in DOMAIN discs
    BY <1>3 DEF Outcome
  <1>4. CASE /\ end = Outcome(joined, FALSE) \/ end = Outcome(joined, TRUE)
             /\ key \notin DOMAIN discs /\ ~disc.failed /\ Acceptable(raw, retail, programs)
    <2>1. end.discs = joined
      BY <1>4 DEF Outcome
    <2>2. /\ DOMAIN joined = DOMAIN discs \cup {key} /\ joined[key] = disc.raw
          /\ \A k \in DOMAIN discs : joined[k] = discs[k]
      BY <1>4 DEF Joining
    <2>3. key[1] = retail /\ key[2] = programs
      BY <1>4 DEF Key, Acceptable
    <2>4. Carries(disc.raw, retail, programs)
      BY <1>4, RebuiltCarries
    <2> HIDE DEF key, disc, joined
    <2>5. \A k \in DOMAIN joined : Carries(joined[k], k[1], k[2])
      BY <2>2, <2>3, <2>4 DEF AllCarry
    <2>6. AllCarry(end.discs)
      BY <2>1, <2>5 DEF AllCarry
    <2> QED
      BY <2>1, <2>2, <2>6 DEF key
  <1> QED
    BY <1>1, <1>2, <1>3, <1>4
-----------------------------------------------------------------------------
(* The emulator's disc: fixed extents, programs that fit them. *)

\* Where a program of the fixed extents is, and that it fits.
Spot(retail, name) == Extent(IsoFiles(retail)[name])
FitsSpot(retail, programs, name) ==
  /\ Len(programs[name]) > 0 /\ Len(programs[name]) <= IsoFiles(retail)[name].size
GivenExtents(retail, extents, programs, Values) ==
  /\ Mastered(retail) /\ Located(extents, retail)
  /\ programs \in [Programs -> Seq(Values)] /\ \A name \in Programs : extents[name].cells \in Seq(Values)
LEMMA SpotIs ==
  ASSUME NEW Values, NEW retail, NEW extents, NEW programs, GivenExtents(retail, extents, programs, Values),
         NEW name \in Programs
  PROVE  LET file == IsoFiles(retail)[name]
             count == SectorsOf(file.size)
         IN /\ name \in DOMAIN IsoFiles(retail) /\ file.lba \in Nat /\ file.size \in Nat /\ count \in Nat
            /\ file.lba + count <= SectorCount(retail)
            /\ file.size = count * PayloadSize
            /\ extents[name].lba = file.lba /\ Len(extents[name].cells) = count * PayloadSize
            /\ Spot(retail, name) = file.lba .. file.lba + count - 1
            /\ \A n \in Spot(retail, name) : n \in DOMAIN retail /\ n \notin Directory(retail) /\ n # Descriptor
  <1> DEFINE file == IsoFiles(retail)[name]
             count == SectorsOf(file.size)
  <1>1. /\ PayloadSize \in Nat \ {0} /\ Mastered(retail) /\ name \in DOMAIN IsoFiles(retail)
        /\ (file.size % PayloadSize) = 0 /\ extents[name].lba = file.lba /\ Len(extents[name].cells) = file.size
    BY DiscAssumption DEF GivenExtents, Located
  <1>2. file.lba \in Nat /\ file.size \in Nat /\ count \in Nat /\ file.lba + count <= SectorCount(retail)
    BY <1>1, FileIs
  <1>3. file.size = count * PayloadSize
    <2> DEFINE quotient == file.size \div PayloadSize
    <2> HIDE DEF file
    <2>1. quotient \in Int /\ file.size = quotient * PayloadSize + (file.size % PayloadSize)
      BY <1>1, <1>2, QuotientOf
    <2> HIDE DEF quotient
    <2>2. file.size = quotient * PayloadSize
      BY <1>1, <2>1
    <2>3. quotient \in Nat
      BY <1>1, <1>2, <2>1, <2>2
    <2>4. SectorsOf(quotient * PayloadSize) = quotient
      BY <1>1, <2>3, WholeSectors
    <2> QED
      BY <2>2, <2>4
  <1>4. SectorCount(retail) \in Nat /\ DOMAIN retail = 0 .. SectorCount(retail) - 1
    BY <1>1, CountIs, MasteredIs
  <1>5. Spot(retail, name) = file.lba .. file.lba + count - 1
    BY DEF Spot, Extent
  <1>6. \A n \in Spot(retail, name) : n \notin Directory(retail) /\ n # Descriptor
    BY <1>1 DEF Spot, Mastered
  <1>7. \A n \in Spot(retail, name) : n \in DOMAIN retail
    <2> HIDE DEF file, count
    <2> QED
      BY <1>2, <1>4, <1>5
  <1> QED
    BY <1>1, <1>2, <1>3, <1>5, <1>6, <1>7
LEMMA SpotsApart ==
  ASSUME NEW Values, NEW retail, NEW extents, NEW programs, GivenExtents(retail, extents, programs, Values),
         NEW name \in Programs, NEW other \in Programs, name # other
  PROVE  \A n \in Spot(retail, name) : n \notin Spot(retail, other)
  <1>1. name \in DOMAIN IsoFiles(retail) /\ other \in DOMAIN IsoFiles(retail) \ {name} /\ Mastered(retail)
    BY DEF GivenExtents, Located
  <1>2. Extent(IsoFiles(retail)[name]) \cap Extent(IsoFiles(retail)[other]) = {}
    BY <1>1 DEF Mastered
  <1> QED
    BY <1>2 DEF Spot
\* The selected programs that have been built in, and nothing else.
BuiltIn(raw, retail, programs, S) ==
  /\ DOMAIN raw = DOMAIN retail
  /\ \A n \in DOMAIN raw :
       raw[n] = [cells |-> raw[n].cells, check |-> raw[n].cells, form |-> raw[n].form, address |-> n]
  /\ \A n \in DOMAIN retail : (\A name \in S : n \notin Spot(retail, name)) => raw[n] = retail[n]
  /\ \A name \in S :
       /\ FitsSpot(retail, programs, name)
       /\ Holds(raw, IsoFiles(retail)[name].lba, SectorsOf(IsoFiles(retail)[name].size), programs[name])
LEMMA ReplacingKeeps ==
  ASSUME NEW Values, NEW retail, NEW extents, NEW programs, GivenExtents(retail, extents, programs, Values),
         NEW S \in SUBSET Programs, NEW name \in Programs \ S, FitsSpot(retail, programs, name),
         NEW raw, BuiltIn(raw, retail, programs, S)
  PROVE  BuiltIn(ReplaceProgram(raw, extents[name], programs[name]), retail, programs, S \cup {name})
  <1> DEFINE file == IsoFiles(retail)[name]
             lba == file.lba
             count == SectorsOf(file.size)
             program == programs[name]
             span == lba .. lba + count - 1
             written == WritePayload(raw, lba, Padded(program, count * PayloadSize))
             new == WithCodes(written, span)
  <1>1. PayloadSize \in Nat \ {0} /\ program \in Seq(Values)
    BY DiscAssumption DEF GivenExtents
  <1>2. /\ lba \in Nat /\ count \in Nat /\ lba + count <= SectorCount(retail) /\ file.size = count * PayloadSize
        /\ extents[name].lba = lba /\ Len(extents[name].cells) = count * PayloadSize
        /\ Spot(retail, name) = span /\ \A n \in span : n \in DOMAIN retail
    BY SpotIs
  <1>3. ReplaceProgram(raw, extents[name], program) = new
    <2>1. Len(extents[name].cells) = file.size /\ SectorsOf(Len(extents[name].cells)) = count
      BY <1>2
    <2> HIDE DEF program, lba, count
    <2> QED
      BY <1>2, <2>1 DEF ReplaceProgram
  <1>4. /\ DOMAIN raw = DOMAIN retail
        /\ \A n \in DOMAIN raw :
             raw[n] = [cells |-> raw[n].cells, check |-> raw[n].cells, form |-> raw[n].form, address |-> n]
    BY DEF BuiltIn
  <1>5. \A n \in DOMAIN raw : raw[n].check = raw[n].cells /\ raw[n].address = n /\ IsSector(raw[n])
    <2> SUFFICES ASSUME NEW n \in DOMAIN raw
                 PROVE  raw[n].check = raw[n].cells /\ raw[n].address = n /\ IsSector(raw[n])
      OBVIOUS
    <2> DEFINE cells == raw[n].cells
               form == raw[n].form
    <2>1. raw[n] = [cells |-> cells, check |-> cells, form |-> form, address |-> n]
      BY <1>4
    <2> HIDE DEF cells, form
    <2>2. raw[n].cells = cells /\ raw[n].check = cells /\ raw[n].address = n /\ raw[n].form = form
      BY <2>1
    <2> QED
      BY <2>1, <2>2 DEF IsSector
  <1>6. Numbered(raw) /\ SectorCount(raw) = SectorCount(retail) /\ Addressed(raw)
    <2>1. Numbered(retail)
      BY <1>1, MasteredIs DEF GivenExtents
    <2> QED
      BY <1>4, <1>5, <2>1 DEF Numbered, SectorCount, Addressed
  <1>7. FitsIn(program, count)
    BY <1>2 DEF FitsIn, FitsSpot
  <1>8. /\ DOMAIN written = DOMAIN raw /\ Addressed(written) /\ Holds(written, lba, count, program)
        /\ \A n \in DOMAIN raw \ span : written[n] = raw[n]
    <2> HIDE DEF lba, count, program
    <2> QED
      BY <1>1, <1>2, <1>6, <1>7, WrittenIs
  <1>9. Coded(written, new)
    <2>1. \A n \in DOMAIN written \ span : written[n].check = written[n].cells
      BY <1>5, <1>8
    <2> HIDE DEF written, span
    <2> QED
      BY <1>8, <2>1, WithCodesIs
  <1> HIDE DEF new, written
  <1>10. /\ DOMAIN new = DOMAIN raw /\ \A n \in DOMAIN raw : new[n].cells = written[n].cells
         /\ \A n \in DOMAIN new :
              new[n] = [cells |-> new[n].cells, check |-> new[n].cells, form |-> new[n].form, address |-> n]
    BY <1>8, <1>9 DEF Coded
  <1>11. \A n \in DOMAIN raw \ span : new[n] = raw[n]
    <2>1. \A n \in DOMAIN raw \ span : written[n] = raw[n] /\ written[n].check = written[n].cells
      BY <1>5, <1>8
    <2> QED
      BY <1>8, <1>9, <2>1 DEF Coded
  <1>12. \A n \in DOMAIN retail : (\A other \in S \cup {name} : n \notin Spot(retail, other)) => new[n] = retail[n]
    <2> SUFFICES ASSUME NEW n \in DOMAIN retail, \A other \in S \cup {name} : n \notin Spot(retail, other)
                 PROVE  new[n] = retail[n]
      OBVIOUS
    <2>1. n \notin span
      BY <1>2
    <2>2. raw[n] = retail[n]
      BY DEF BuiltIn
    <2> HIDE DEF span
    <2> QED
      BY <1>4, <1>11, <2>1, <2>2
  <1>13. Holds(new, lba, count, program)
    <2>1. \A n \in 0 .. count - 1 : lba + n \in span
      <3> HIDE DEF lba, count
      <3> QED
        BY <1>2
    <2>2. \A n \in span : new[n].cells = written[n].cells
      BY <1>2, <1>4, <1>10
    <2> HIDE DEF lba, count, program, span
    <2> QED
      BY <1>8, <2>1, <2>2 DEF Holds
  <1>14. ASSUME NEW other \in S
         PROVE  /\ FitsSpot(retail, programs, other)
                /\ Holds(new, IsoFiles(retail)[other].lba, SectorsOf(IsoFiles(retail)[other].size), programs[other])
    <2> DEFINE there == IsoFiles(retail)[other].lba
               many == SectorsOf(IsoFiles(retail)[other].size)
    <2>1. there \in Nat /\ many \in Nat /\ Spot(retail, other) = there .. there + many - 1
          /\ \A n \in Spot(retail, other) : n \in DOMAIN retail
      BY SpotIs
    <2>2. FitsSpot(retail, programs, other) /\ Holds(raw, there, many, programs[other])
      BY DEF BuiltIn
    <2>3. \A n \in Spot(retail, other) : n \notin span
      BY <1>2, SpotsApart
    <2>4. \A n \in Spot(retail, other) : new[n].cells = raw[n].cells
      BY <1>4, <1>11, <2>1, <2>3
    <2>5. \A n \in 0 .. many - 1 : there + n \in Spot(retail, other)
      <3> HIDE DEF there, many
      <3> QED
        BY <2>1
    <2> HIDE DEF there, many
    <2>6. Holds(new, there, many, programs[other])
      BY <2>2, <2>4, <2>5 DEF Holds
    <2> QED
      BY <2>2, <2>6 DEF there, many
  <1> HIDE DEF file
  <1>15. BuiltIn(new, retail, programs, S \cup {name})
    <2>1. DOMAIN new = DOMAIN retail
      BY <1>4, <1>10
    <2>2. ASSUME NEW other \in S \cup {name}
          PROVE  /\ FitsSpot(retail, programs, other)
                 /\ Holds(new, IsoFiles(retail)[other].lba, SectorsOf(IsoFiles(retail)[other].size), programs[other])
      BY <1>13, <1>14 DEF file
    <2> QED
      BY <1>10, <1>12, <2>1, <2>2 DEF BuiltIn
  <1> QED
    BY <1>3, <1>15
LEMMA BuiltUpToIs ==
  ASSUME NEW raw, NEW extents, NEW selected, NEW order, NEW programs, Len(order) \in Nat
  PROVE  LET all == BuiltUpTo(raw, extents, selected, order, programs)
         IN /\ all[0] = Unbuilt(raw, selected)
            /\ \A n \in 1 .. Len(order) :
                 all[n] = IF order[n] \notin selected THEN all[n - 1]
                          ELSE BuildProgram(all[n - 1], order[n], extents[order[n]], programs[order[n]])
  <1> DEFINE Step(d, n) == IF order[n] \notin selected THEN d ELSE BuildProgram(d, order[n], extents[order[n]], programs[order[n]])
             base == Unbuilt(raw, selected)
             N == Len(order)
             Equation(g, k) == g = [n \in 0 .. k |-> IF n = 0 THEN base ELSE Step(g[n - 1], n)]
             Reached == {k \in 0 .. N : \E g : Equation(g, k)}
  <1> HIDE DEF base, N
  <1>0. N \in Nat
    BY DEF N
  <1>1. 0 \in Reached
    <2>1. Equation([n \in 0 .. 0 |-> base], 0)
      OBVIOUS
    <2> HIDE DEF Equation
    <2>2. \E g : Equation(g, 0)
      BY <2>1
    <2> QED
      BY <1>0, <2>2
  <1>2. \A k \in 0 .. N - 1 : k \in Reached => k + 1 \in Reached
    <2> SUFFICES ASSUME NEW k \in 0 .. N - 1, k \in Reached PROVE k + 1 \in Reached
      OBVIOUS
    <2>1. PICK f : Equation(f, k)
      OBVIOUS
    <2> DEFINE h == [n \in 0 .. k + 1 |-> IF n = k + 1 THEN Step(f[k], k + 1) ELSE f[n]]
    <2>2. \A n \in 0 .. k + 1 : h[n] = IF n = 0 THEN base ELSE Step(h[n - 1], n)
      <3> SUFFICES ASSUME NEW n \in 0 .. k + 1
                   PROVE  h[n] = IF n = 0 THEN base ELSE Step(h[n - 1], n)
        OBVIOUS
      <3>1. k \in Nat /\ n \in Nat /\ n <= k + 1
        BY <1>0
      <3>2. CASE n = k + 1
        BY <3>1, <3>2
      <3>3. CASE n # k + 1 /\ n = 0
        BY <3>1, <3>3, <2>1
      <3>4. CASE n # k + 1 /\ n # 0
        <4>1. h[n] = f[n] /\ h[n - 1] = f[n - 1] /\ n \in 0 .. k
          BY <3>1, <3>4
        <4>2. f[n] = Step(f[n - 1], n)
          BY <4>1, <3>4, <2>1
        <4> QED
          BY <4>1, <4>2, <3>4
      <3> QED
        BY <3>2, <3>3, <3>4
    <2>3. Equation(h, k + 1)
      BY <2>2
    <2> HIDE DEF Equation
    <2>4. \E g : Equation(g, k + 1)
      BY <2>3
    <2> QED
      BY <1>0, <2>4
  <1>3. N \in Reached
    <2> HIDE DEF Reached
    <2>1. \A k \in 0 .. N : k \in Reached
      BY <1>0, <1>1, <1>2, UpTo, Zenon
    <2> QED
      BY <1>0, <2>1
  <1>4. \E g : Equation(g, N)
    BY <1>3
  <1> DEFINE all == BuiltUpTo(raw, extents, selected, order, programs)
  <1>5. Equation(all, N)
    BY <1>4 DEF BuiltUpTo, base, N
  <1>6. \A n \in 0 .. N : all[n] = IF n = 0 THEN base ELSE Step(all[n - 1], n)
    BY <1>5
  <1> QED
    BY <1>0, <1>6 DEF base, N
\* The program of the order's turn, if it is selected.
BuiltSoFar(built, retail, programs, selected, S) ==
  /\ built = [raw |-> built.raw, failed |-> built.failed]
  /\ ~built.failed => selected \subseteq Programs /\ BuiltIn(built.raw, retail, programs, S \cap selected)
LEMMA BuildingKeeps ==
  ASSUME NEW Values, NEW retail, NEW extents, NEW programs, GivenExtents(retail, extents, programs, Values),
         NEW selected, NEW S \in SUBSET Programs, NEW name \in Programs \ S, name \in selected,
         NEW built, BuiltSoFar(built, retail, programs, selected, S)
  PROVE  BuiltSoFar(BuildProgram(built, name, extents[name], programs[name]), retail, programs, selected, S \cup {name})
  <1> DEFINE new == BuildProgram(built, name, extents[name], programs[name])
             raw == built.raw
             failed == built.failed
  <1>1. built = [raw |-> raw, failed |-> failed]
    BY DEF BuiltSoFar
  <1>2. CASE failed \/ ~HoldsRetail(raw, extents[name], programs[name])
    <2>1. new = [built EXCEPT !.failed = TRUE]
      BY <1>2 DEF BuildProgram
    <2> HIDE DEF new, raw, failed
    <2>2. new = [raw |-> raw, failed |-> TRUE]
      BY <1>1, <2>1
    <2>3. new.raw = raw /\ new.failed
      BY <2>2
    <2>4. new = [raw |-> new.raw, failed |-> new.failed]
      BY <2>2
    <2> QED
      BY <2>3, <2>4 DEF BuiltSoFar, new
  <1>3. CASE ~failed /\ HoldsRetail(raw, extents[name], programs[name])
    <2> DEFINE next == ReplaceProgram(raw, extents[name], programs[name])
    <2>1. new = [built EXCEPT !.raw = next]
      BY <1>3 DEF BuildProgram
    <2>2. selected \subseteq Programs /\ BuiltIn(raw, retail, programs, S \cap selected)
      BY <1>3 DEF BuiltSoFar
    <2>3. FitsSpot(retail, programs, name)
      <3>1. Len(extents[name].cells) = IsoFiles(retail)[name].size /\ programs[name] \in Seq(Values)
        BY DEF GivenExtents, Located
      <3>2. programs[name] # <<>> /\ Len(programs[name]) <= Len(extents[name].cells)
        BY <1>3 DEF HoldsRetail
      <3> QED
        BY <3>1, <3>2 DEF FitsSpot
    <2>4. BuiltIn(next, retail, programs, (S \cap selected) \cup {name})
      BY <2>2, <2>3, ReplacingKeeps
    <2>5. (S \cap selected) \cup {name} = (S \cup {name}) \cap selected
      OBVIOUS
    <2> HIDE DEF new, raw, failed, next
    <2>6. new = [raw |-> next, failed |-> failed]
      BY <1>1, <2>1
    <2>7. new.raw = next /\ new = [raw |-> new.raw, failed |-> new.failed]
      BY <2>6
    <2> QED
      BY <2>2, <2>4, <2>5, <2>7 DEF BuiltSoFar, new
  <1> QED
    BY <1>2, <1>3
LEMMA AllBuilt ==
  ASSUME NEW Values, NEW retail, NEW extents, NEW programs, GivenExtents(retail, extents, programs, Values),
         NEW selected, NEW order, Enumerates(order)
  PROVE  BuiltSoFar(BuildCandidate(retail, extents, selected, order, programs), retail, programs, selected, Programs)
  <1> DEFINE N == Len(order)
             all == BuiltUpTo(retail, extents, selected, order, programs)
             Set(n) == {order[k] : k \in 1 .. n}
             Carried(n) == BuiltSoFar(all[n], retail, programs, selected, Set(n))
             Reached == {n \in 0 .. N : Carried(n)}
  <1>1. N \in Nat /\ DOMAIN order = 1 .. N /\ \A k \in 1 .. N : order[k] \in Programs
    BY LenProperties DEF Enumerates
  <1>2. Carried(0)
    <2> DEFINE d == all[0]
               failed == selected = {} \/ ~(selected \subseteq Programs)
    <2>1. d = [raw |-> retail, failed |-> failed]
      BY <1>1, BuiltUpToIs DEF Unbuilt
    <2>2. Set(0) = {} /\ (~failed => selected \subseteq Programs)
      OBVIOUS
    <2>3. BuiltIn(retail, retail, programs, {})
      <3>1. \A n \in DOMAIN retail :
              retail[n] = [cells |-> retail[n].cells, check |-> retail[n].cells, form |-> retail[n].form, address |-> n]
        BY DEF GivenExtents, Mastered
      <3> QED
        BY <3>1 DEF BuiltIn
    <2> HIDE DEF d, failed
    <2>4. d.raw = retail /\ d.failed = failed
      BY <2>1
    <2>5. d = [raw |-> d.raw, failed |-> d.failed]
      BY <2>1
    <2>6. {} \cap selected = {}
      OBVIOUS
    <2>7. ~d.failed => selected \subseteq Programs
      BY <2>2, <2>4, Zenon
    <2>8. BuiltSoFar(d, retail, programs, selected, {})
      BY <2>3, <2>4, <2>5, <2>6, <2>7 DEF BuiltSoFar
    <2> QED
      BY <2>2, <2>8 DEF d
  <1>3. ASSUME NEW n \in 0 .. N - 1, Carried(n) PROVE Carried(n + 1)
    <2>1. n + 1 \in 1 .. N /\ (n + 1) - 1 = n /\ n \in Nat
      BY <1>1
    <2>2. order[n + 1] \in Programs \ Set(n) /\ Set(n) \in SUBSET Programs
      BY <1>1, <2>1 DEF Enumerates
    <2>3. Set(n + 1) = Set(n) \cup {order[n + 1]}
      BY <2>1
    <2> DEFINE d == all[n]
               name == order[n + 1]
               S == Set(n)
    <2>4. all[n + 1] = IF name \notin selected THEN d ELSE BuildProgram(d, name, extents[name], programs[name])
      <3>1. all[n + 1] = IF order[n + 1] \notin selected THEN all[(n + 1) - 1]
                         ELSE BuildProgram(all[(n + 1) - 1], order[n + 1], extents[order[n + 1]], programs[order[n + 1]])
        <4> HIDE DEF name, d, S, Set, Carried
        <4> QED
          BY <1>1, <2>1, BuiltUpToIs
      <3> QED
        BY <2>1, <3>1
    <2>5. BuiltSoFar(d, retail, programs, selected, S)
      BY <1>3
    <2>6. CASE name \notin selected
      <3>1. (S \cup {name}) \cap selected = S \cap selected
        BY <2>6
      <3> HIDE DEF d, name, S
      <3>2. BuiltSoFar(d, retail, programs, selected, S \cup {name})
        BY <2>5, <3>1 DEF BuiltSoFar
      <3> QED
        BY <2>3, <2>4, <2>6, <3>2 DEF d, name, S
    <2>7. CASE name \in selected
      <3> HIDE DEF d, name, S
      <3>1. name \in Programs \ S /\ S \in SUBSET Programs
        BY <2>2 DEF name, S
      <3>2. BuiltSoFar(BuildProgram(d, name, extents[name], programs[name]), retail, programs, selected, S \cup {name})
        BY <2>5, <2>7, <3>1, BuildingKeeps
      <3> QED
        BY <2>3, <2>4, <2>7, <3>2 DEF d, name, S
    <2> QED
      BY <2>6, <2>7
  <1> HIDE DEF Carried
  <1>4. 0 \in Reached /\ \A n \in 0 .. N - 1 : n \in Reached => n + 1 \in Reached
    BY <1>1, <1>2, <1>3
  <1>5. \A n \in 0 .. N : n \in Reached
    <2> HIDE DEF Reached, N
    <2> QED
      BY <1>1, <1>4, UpTo, Zenon
  <1>6. Carried(N)
    BY <1>1, <1>5
  <1>7. Set(N) = Programs
    BY <1>1 DEF Enumerates
  <1> QED
    BY <1>6, <1>7 DEF Carried, BuildCandidate
\* A program of whole sectors has no zeros behind it.
LEMMA PaddedWhole ==
  ASSUME PayloadSize \in Nat \ {0}, NEW Values, NEW cells \in Seq(Values), NEW count \in Nat, Len(cells) = count * PayloadSize
  PROVE  Padded(cells, count * PayloadSize) = cells
  <1> DEFINE capacity == count * PayloadSize
             padded == Padded(cells, capacity)
  <1>1. capacity \in Nat
    BY WholeSectors
  <1>2. Len(cells) = capacity
    OBVIOUS
  <1> HIDE DEF capacity
  <1>3. /\ padded \in Seq(Values \cup {0}) /\ Len(padded) = capacity
        /\ \A k \in 1 .. capacity : padded[k] = IF k <= Len(cells) THEN cells[k] ELSE 0
    BY <1>1, <1>2, PaddedIs
  <1>4. cells \in Seq(Values \cup {0})
    OBVIOUS
  <1> HIDE DEF padded
  <1>5. \A k \in 1 .. Len(padded) : padded[k] = cells[k]
    BY <1>1, <1>2, <1>3
  <1>6. padded = cells
    BY <1>2, <1>3, <1>4, <1>5, SeqEqual
  <1> QED
    BY <1>6 DEF padded, capacity
LEMMA MixedIsGiven ==
  ASSUME NEW Values, NEW retail, NEW extents, NEW programs, GivenExtents(retail, extents, programs, Values),
         NEW selected \in SUBSET Programs, NEW raw, BuiltIn(raw, retail, programs, selected)
  PROVE  LET mixed == Mixed(extents, selected, programs)
         IN /\ Given(retail, mixed, Values)
            /\ \A name \in Programs : ~Grows(retail, mixed, name) /\ SizeNow(retail, mixed, name) = IsoFiles(retail)[name].size
  <1> DEFINE mixed == Mixed(extents, selected, programs)
  <1>1. mixed \in [Programs -> Seq(Values)]
    BY DEF GivenExtents, Mixed
  <1>2. ASSUME NEW name \in Programs
        PROVE  /\ name \in DOMAIN IsoFiles(retail) /\ (IsoFiles(retail)[name].size % PayloadSize) = 0
               /\ Len(mixed[name]) > 0 /\ Len(mixed[name]) <= IsoFiles(retail)[name].size
    <2>1. /\ name \in DOMAIN IsoFiles(retail) /\ (IsoFiles(retail)[name].size % PayloadSize) = 0
          /\ Len(extents[name].cells) = IsoFiles(retail)[name].size /\ IsoFiles(retail)[name].size > 0
      BY DEF GivenExtents, Located
    <2>2. IsoFiles(retail)[name].size \in Nat
      BY SpotIs
    <2>3. CASE name \in selected
      <3>1. FitsSpot(retail, programs, name) /\ mixed[name] = programs[name]
        BY <2>3 DEF BuiltIn, Mixed
      <3> QED
        BY <2>1, <3>1 DEF FitsSpot
    <2>4. CASE name \notin selected
      <3>1. mixed[name] = extents[name].cells
        BY <2>4 DEF Mixed
      <3> HIDE DEF mixed
      <3> QED
        BY <2>1, <2>2, <3>1
    <2> QED
      BY <2>3, <2>4
  <1> HIDE DEF mixed
  <1>3. Given(retail, mixed, Values)
    BY <1>1, <1>2, DiscAssumption DEF Given, GivenExtents
  <1>4. ASSUME NEW name \in Programs
        PROVE  ~Grows(retail, mixed, name) /\ SizeNow(retail, mixed, name) = IsoFiles(retail)[name].size
    <2>1. Len(mixed[name]) \in Nat /\ IsoFiles(retail)[name].size \in Nat
      BY <1>1, SpotIs
    <2>2. ~Grows(retail, mixed, name)
      BY <1>2, <2>1 DEF Grows
    <2> QED
      BY <2>2 DEF SizeNow
  <1> QED
    BY <1>3, <1>4 DEF mixed
\* Every program is in its extent: the selected ones as built, the others as they were.
LEMMA MixedHolds ==
  ASSUME NEW Values, NEW retail, NEW extents, NEW programs, GivenExtents(retail, extents, programs, Values),
         NEW selected \in SUBSET Programs, NEW raw, BuiltIn(raw, retail, programs, selected), NEW name \in Programs
  PROVE  Holds(raw, IsoFiles(retail)[name].lba, SectorsOf(IsoFiles(retail)[name].size), Mixed(extents, selected, programs)[name])
  <1> DEFINE lba == IsoFiles(retail)[name].lba
             count == SectorsOf(IsoFiles(retail)[name].size)
             cells == extents[name].cells
  <1>1. CASE name \in selected
    BY <1>1 DEF BuiltIn, Mixed
  <1>2. CASE name \notin selected
    <2>1. /\ lba \in Nat /\ count \in Nat /\ Len(cells) = count * PayloadSize
          /\ Spot(retail, name) = lba .. lba + count - 1 /\ \A n \in Spot(retail, name) : n \in DOMAIN retail
      BY SpotIs
    <2>2. \A other \in selected : \A n \in Spot(retail, name) : n \notin Spot(retail, other)
      BY <1>2, SpotsApart
    <2>3. \A n \in Spot(retail, name) : raw[n] = retail[n]
      BY <2>1, <2>2 DEF BuiltIn
    <2>4. \A n \in 0 .. count - 1 : retail[lba + n].cells = Chunk(cells, n)
      BY DEF GivenExtents, Located
    <2>5. PayloadSize \in Nat \ {0} /\ cells \in Seq(Values) /\ Mixed(extents, selected, programs)[name] = cells
      BY <1>2, DiscAssumption DEF GivenExtents, Mixed
    <2>6. \A n \in 0 .. count - 1 : lba + n \in Spot(retail, name)
      <3> HIDE DEF lba, count
      <3> QED
        BY <2>1
    <2> HIDE DEF lba, count, cells
    <2>7. Padded(cells, count * PayloadSize) = cells
      BY <2>1, <2>5, PaddedWhole
    <2>8. Holds(raw, lba, count, cells)
      BY <2>3, <2>4, <2>6, <2>7 DEF Holds
    <2> QED
      BY <2>5, <2>8 DEF lba, count
  <1> QED
    BY <1>1, <1>2
LEMMA BuiltDelivers ==
  ASSUME NEW Values, NEW retail, NEW extents, NEW programs, GivenExtents(retail, extents, programs, Values),
         NEW selected \in SUBSET Programs, NEW raw, BuiltIn(raw, retail, programs, selected)
  PROVE  Delivered(raw, retail, Mixed(extents, selected, programs))
  <1> DEFINE mixed == Mixed(extents, selected, programs)
  <1>1. Given(retail, mixed, Values)
        /\ \A name \in Programs : ~Grows(retail, mixed, name) /\ SizeNow(retail, mixed, name) = IsoFiles(retail)[name].size
    BY MixedIsGiven
  <1>2. \A name \in Programs :
          Holds(raw, IsoFiles(retail)[name].lba, SectorsOf(IsoFiles(retail)[name].size), mixed[name])
    BY MixedHolds
  <1> HIDE DEF mixed
  <1>3. /\ PayloadSize \in Nat \ {0} /\ Mastered(retail) /\ Numbered(retail) /\ SectorCount(retail) \in Nat
        /\ Descriptor \in DOMAIN retail
        /\ \A n \in Directory(retail) : n \in DOMAIN retail
    BY <1>1, MasteredIs DEF Given
  <1>4. Numbered(raw) /\ SectorCount(raw) = SectorCount(retail) /\ DOMAIN raw = DOMAIN retail
    BY <1>3 DEF BuiltIn, Numbered, SectorCount
  <1>5. \A n \in DOMAIN retail : (\A name \in Programs : n \notin Spot(retail, name)) => raw[n] = retail[n]
    BY DEF BuiltIn
  <1>6. raw[Descriptor] = retail[Descriptor]
    <2>1. \A name \in Programs : Descriptor \notin Spot(retail, name)
      BY SpotIs
    <2> QED
      BY <1>3, <1>5, <2>1
  <1>7. \A n \in Directory(retail) : raw[n] = retail[n]
    <2>1. \A n \in Directory(retail) : \A name \in Programs : n \notin Spot(retail, name)
      BY SpotIs
    <2> QED
      BY <1>3, <1>5, <2>1
  <1>8. IsVolume(raw) /\ Volume(raw) = Volume(retail)
    <2>1. retail[Descriptor].cells \in [{1} -> Volumes]
      BY <1>3 DEF Mastered, Volumes
    <2> QED
      BY <1>3, <1>4, <1>6, <2>1 DEF IsVolume, Volume
  <1>9. \A n \in DOMAIN retail \ Rewritten(retail) : raw[n] = retail[n]
    <2>1. \A n \in DOMAIN retail \ Rewritten(retail) : \A name \in Programs : n \notin Spot(retail, name)
      BY DEF Rewritten, Spot
    <2> QED
      BY <1>5, <2>1
  <1>10. \A n \in Directory(retail) : raw[n].cells \in Seq(Entries) /\ DOMAIN raw[n].cells = DOMAIN retail[n].cells
    BY <1>3, <1>7 DEF Mastered
  <1>11. ASSUME NEW name \in Programs
         PROVE  HasPlace(raw, retail, mixed, name) /\ Place(raw, retail, mixed, name) = Spot(retail, name)
    <2> DEFINE file == IsoFiles(retail)[name]
               entry == EntryNow(retail, retail, name)
               count == SectorsOf(file.size)
    <2>1. name \in DOMAIN IsoFiles(retail)
      BY <1>1 DEF Given
    <2>2. /\ file.lba \in Nat /\ file.lba + count <= SectorCount(retail)
          /\ entry \in Entries /\ entry.lba = file.lba /\ entry.size = file.size
          /\ file.at[1] \in Directory(retail)
      BY <1>3, <2>1, FileIs DEF EntryNow, IsFileAt
    <2>3. EntryNow(raw, retail, name) = entry
      BY <1>7, <2>2 DEF EntryNow, EntryAt
    <2>4. entry = [entry EXCEPT !.lba = entry.lba, !.size = file.size]
      <3>1. entry \in [name : STRING, lba : Nat, size : Nat, directory : BOOLEAN] /\ entry.size = file.size
        BY <2>2 DEF Entries
      <3> HIDE DEF entry, file
      <3> QED
        BY <3>1
    <2>5. ~Grows(retail, mixed, name) /\ SizeNow(retail, mixed, name) = file.size
      BY <1>1
    <2>6. Holds(raw, file.lba, count, mixed[name])
      BY <1>2
    <2>7. Place(raw, retail, mixed, name) = Spot(retail, name)
      BY <2>2, <2>3, <2>5 DEF Place, Spot, Extent
    <2>8. HasPlace(raw, retail, mixed, name)
      <3> HIDE DEF entry
      <3> QED
        BY <1>4, <2>2, <2>3, <2>4, <2>5, <2>6 DEF HasPlace, entry
    <2> QED
      BY <2>7, <2>8
  <1>12. \A name, other \in Programs :
           name # other => \A n \in Place(raw, retail, mixed, name) : n \notin Place(raw, retail, mixed, other)
    BY <1>11, SpotsApart
  <1>13. \A n \in DOMAIN raw :
           raw[n] = [cells |-> raw[n].cells, check |-> raw[n].cells, form |-> raw[n].form, address |-> n]
    BY DEF BuiltIn
  <1>14. SectorCount(retail) <= SectorCount(raw)
    BY <1>3, <1>4
  <1> QED
    BY <1>4, <1>7, <1>8, <1>9, <1>10, <1>11, <1>12, <1>13, <1>14 DEF Delivered, mixed
\* The emulator's disc, too, whatever is selected of programs of any lengths: one that is built is
\* mastered as the retail disc is, reads the selected programs and the retail ones for the rest,
\* and has everything else as it was (kf/emulator.py, build_candidate).
THEOREM CandidateCarries ==
  ASSUME NEW Values, NEW retail, Mastered(retail),
         NEW extents, Located(extents, retail), \A name \in Programs : extents[name].cells \in Seq(Values),
         NEW programs \in [Programs -> Seq(Values)], NEW selected, NEW order, Enumerates(order),
         ~BuildCandidate(retail, extents, selected, order, programs).failed
  PROVE  Carries(BuildCandidate(retail, extents, selected, order, programs).raw, retail,
                 Mixed(extents, selected, programs))
  <1> DEFINE built == BuildCandidate(retail, extents, selected, order, programs)
  <1>1. GivenExtents(retail, extents, programs, Values)
    BY DEF GivenExtents
  <1>2. BuiltSoFar(built, retail, programs, selected, Programs)
    BY <1>1, AllBuilt
  <1>3. selected \in SUBSET Programs /\ BuiltIn(built.raw, retail, programs, Programs \cap selected)
    BY <1>2 DEF BuiltSoFar
  <1>4. Programs \cap selected = selected
    BY <1>3
  <1> HIDE DEF built
  <1>5. BuiltIn(built.raw, retail, programs, selected)
    BY <1>3, <1>4
  <1>6. Given(retail, Mixed(extents, selected, programs), Values)
    BY <1>1, <1>3, <1>5, MixedIsGiven
  <1>7. Delivered(built.raw, retail, Mixed(extents, selected, programs))
    BY <1>1, <1>3, <1>5, BuiltDelivers
  <1> QED
    BY <1>6, <1>7, DeliveredCarries DEF built
==============================================================================
