------------------------------- MODULE Export -------------------------------
(***************************************************************************)
(* scripts/kf/clean.py: a generated project (SourceView) is put in a       *)
(* marked directory and published as the one commit of a branch that has a *)
(* worktree, while people commit, edit and kill runs.                      *)
(*                                                                         *)
(* A state is [head, generated, out, tip, tree, step, job, exit, mine,     *)
(* edits]: the reconstruction's commit, what `generate' makes of each, the *)
(* output directory, the branch, its worktree with the index, and the run; *)
(* `mine' and `edits' only record what a person made by hand.              *)
(***************************************************************************)
EXTENDS Integers, Sequences, FiniteSets

(***************************************************************************)
(* The state.                                                              *)
(***************************************************************************)
Empty == [n \in {} |-> <<>>]
\* A text of one word.
OneWord(word) == <<[is |-> "word", of |-> word]>>
Mine == OneWord("mine")
NoDirectory == [there |-> FALSE, marked |-> FALSE, git |-> FALSE, files |-> Empty]
\* The tip of a branch: kf says that its message has the provenance line.
Commit(files, kf, root, source) == [there |-> TRUE, files |-> files, kf |-> kf, root |-> root, source |-> source]
NoTip == [Commit(Empty, FALSE, FALSE, -1) EXCEPT !.there = FALSE]
NoTree == [there |-> FALSE, files |-> Empty, index |-> Empty]
NoJob == [commit |-> -1, files |-> Empty, publish |-> FALSE, tip |-> NoTip, tracked |-> {}, new |-> NoTip]
\* The commit of the reconstruction itself, from which a new branch starts.
SourceCommit(commit) == Commit([n \in {<<"master", "c">>} |-> OneWord("master")], FALSE, FALSE, commit)
Workspace(generated, tip, tree, out) ==
  [head |-> 1, generated |-> generated, out |-> out, tip |-> tip, tree |-> tree, step |-> "idle", job |-> NoJob, exit |-> "none",
   mine |-> [out |-> NoDirectory, tip |-> IF tip.there /\ ~tip.kf THEN tip ELSE NoTip, names |-> {}], edits |-> 0]
Without(files, name) == [n \in DOMAIN files \ {name} |-> files[n]]
With(files, name, content) == [n \in DOMAIN files \cup {name} |-> IF n = name THEN content ELSE files[n]]
Ends(b, exit) == [b EXCEPT !.step = "idle", !.exit = exit]
At(b, step) == [b EXCEPT !.step = step]

(***************************************************************************)
(* A run.  Each action is the set of the states it leads to.  Generation   *)
(* 0 is that of the working tree, which cannot be published.               *)
(***************************************************************************)
\* Mutant: any directory is replaced.
ReplaceableIfNoWorktree(out) == out.there => ~out.git
\* The output may be replaced: it is not there, or marked and no worktree.
Replaceable(out) == out.there => out.marked /\ ~out.git
Requests(b) == [commit : {b.head}, publish : BOOLEAN] \cup [commit : {0}, publish : {FALSE}]
Started(b, request) ==
  [b EXCEPT !.step = IF b.out.there THEN "remove" ELSE "rename", !.exit = "none",
            !.job = [NoJob EXCEPT !.commit = request.commit, !.files = b.generated[request.commit][1], !.publish = request.publish]]
Start(b) ==
  IF b.step # "idle" THEN {}
  ELSE {IF b.generated[r.commit] = <<>> \/ ~Replaceable(b.out) THEN Ends(b, "refused") ELSE Started(b, r) : r \in Requests(b)}
\* The new project stands in a directory beside; rmtree takes the old one entry after another.
RemoveEntry(b) ==
  IF b.step # "remove" THEN {}
  ELSE {[b EXCEPT !.out.files = Without(@, name)] : name \in DOMAIN b.out.files}
       \cup (IF b.out.marked THEN {[b EXCEPT !.out.marked = FALSE]} ELSE {})
       \cup (IF b.out.files = Empty /\ ~b.out.marked THEN {At([b EXCEPT !.out = NoDirectory], "rename")} ELSE {})
Placed(job) == [there |-> TRUE, marked |-> TRUE, git |-> FALSE, files |-> job.files]
RenameOutput(b) ==
  IF b.step # "rename" THEN {}
  ELSE {At([b EXCEPT !.out = Placed(b.job)], IF b.job.publish THEN "verify" ELSE "done")}
\* With --verify the project is built and compared first.
Verify(b) ==
  IF b.step = "done" THEN {Ends(b, "written")}
  ELSE IF b.step # "verify" THEN {}
  ELSE {Ends(b, "failed"), At(b, "check")}

\* git status, with every untracked file that is not ignored.
Dirty(b, ignored) ==
  \/ b.tree.index # b.tip.files
  \/ \E n \in DOMAIN b.tree.index : n \notin DOMAIN b.tree.files \/ b.tree.files[n] # b.tree.index[n]
  \/ \E n \in DOMAIN b.tree.files \ DOMAIN b.tree.index : n \notin ignored
CheckBranch(b, ignored) ==
  LET base == IF b.tip.there THEN b.tip ELSE SourceCommit(b.job.commit)
  IN IF b.step # "check" THEN {}
     ELSE IF (b.tip.there /\ ~b.tip.kf) \/ (b.tree.there /\ Dirty(b, ignored)) THEN {Ends(b, "refused")}
     ELSE IF b.tree.there THEN {At([b EXCEPT !.job.tip = b.tip], "collide")}
     ELSE {At([b EXCEPT !.job.tip = b.tip, !.tip = base, !.tree = [there |-> TRUE, files |-> base.files, index |-> base.files]], "collide")}
\* Mutant: what git status shows is all that is looked at.
CollidesNever(b) == FALSE
\* A file that git does not track, ignored ones included, is never overwritten.
Collides(b) == \E n \in DOMAIN b.job.files : n \in DOMAIN b.tree.files /\ n \notin DOMAIN b.tree.index
\* Mutant: an export with ancestors is taken for the same.
SameContents(b) ==
  /\ b.job.tip.there /\ DOMAIN b.tree.index = DOMAIN b.job.files
  /\ \A n \in DOMAIN b.job.files : n \in DOMAIN b.tree.files /\ b.tree.files[n] = b.job.files[n]
\* The whole contents are compared before an earlier export is called the same.
Same(b) ==
  /\ b.job.tip.there /\ b.job.tip.root /\ DOMAIN b.tree.index = DOMAIN b.job.files
  /\ \A n \in DOMAIN b.job.files : n \in DOMAIN b.tree.files /\ b.tree.files[n] = b.job.files[n]
  /\ b.tip.kf /\ b.tip.source = b.job.commit
CheckFiles(b) ==
  IF b.step # "collide" THEN {}
  ELSE IF Collides(b) THEN {Ends(b, "refused")}
  ELSE IF Same(b) THEN {Ends(b, "published")}
  ELSE {At([b EXCEPT !.job.tracked = DOMAIN b.tree.index \ DOMAIN b.job.files], "retire")}
\* git rm of what is no longer exported; it refuses a name that differs from the branch.
Retire(b) ==
  IF b.step # "retire" THEN {}
  ELSE IF b.job.tracked = {} THEN {At([b EXCEPT !.job.tracked = DOMAIN b.job.files], "write")}
  ELSE LET name == CHOOSE n \in b.job.tracked : TRUE
           clean == name \in DOMAIN b.tree.index /\ name \in DOMAIN b.tip.files /\ b.tip.files[name] = b.tree.index[name]
       IN {IF clean THEN [b EXCEPT !.tree.files = Without(@, name), !.tree.index = Without(@, name), !.job.tracked = @ \ {name}]
           ELSE Ends(b, "failed")}
WriteFile(b) ==
  IF b.step # "write" THEN {}
  ELSE IF b.job.tracked = {} THEN {At(b, "add")}
  ELSE LET name == CHOOSE n \in b.job.tracked : TRUE
       IN {[b EXCEPT !.tree.files = With(@, name, b.job.files[name]), !.job.tracked = @ \ {name}]}
Staged(b) == [n \in DOMAIN b.tree.index \cup DOMAIN b.job.files |-> IF n \in DOMAIN b.job.files THEN b.tree.files[n] ELSE b.tree.index[n]]
Add(b) == IF b.step # "add" THEN {} ELSE {At([b EXCEPT !.tree.index = Staged(b)], "commit")}
CommitTree(b) ==
  IF b.step # "commit" THEN {} ELSE {At([b EXCEPT !.job.new = Commit(b.tree.index, TRUE, TRUE, b.job.commit)], "update")}
\* Mutant: update-ref without it.
ExpectedAnything(b) == b.tip
\* update-ref with the old value: the tip that was read, or the commit the branch was made at.
Expected(b) == IF b.job.tip.there THEN b.job.tip ELSE SourceCommit(b.job.commit)
UpdateRef(b) ==
  IF b.step # "update" THEN {}
  ELSE {IF b.tip = Expected(b) THEN Ends([b EXCEPT !.tip = b.job.new], "published") ELSE Ends(b, "failed")}
Kill(b) == IF b.step = "idle" THEN {} ELSE {Ends(b, "killed")}
Run(b, ignored) ==
  Start(b) \cup RemoveEntry(b) \cup RenameOutput(b) \cup Verify(b) \cup CheckBranch(b, ignored) \cup CheckFiles(b) \cup Retire(b)
  \cup WriteFile(b) \cup Add(b) \cup CommitTree(b) \cup UpdateRef(b) \cup Kill(b)

(***************************************************************************)
(* People.  They commit whenever they like, and edit files between runs.   *)
(***************************************************************************)
CONSTANTS MaxEdits
ByHand(b) == [b EXCEPT !.edits = @ + 1, !.exit = "none"]
\* git commit -a in the worktree.
CommitByHand(b) ==
  LET index == [n \in DOMAIN b.tree.index \cap DOMAIN b.tree.files |-> b.tree.files[n]]
      tip == Commit(index, FALSE, FALSE, -2 - b.edits)
  IN IF b.tree.there THEN {[ByHand(b) EXCEPT !.tree.index = index, !.tip = tip, !.mine.tip = tip, !.mine.names = @ \ DOMAIN index]} ELSE {}
\* A tracked file, or one beside them.
EditFile(b, names) ==
  IF b.tree.there THEN {[ByHand(b) EXCEPT !.tree.files = With(@, n, Mine), !.mine.names = @ \cup {n}] : n \in names} ELSE {}
\* Untracked files stay, unless the branch has one of their name.
ResetHard(b) ==
  LET untracked == DOMAIN b.tree.files \ DOMAIN b.tree.index
      files == [n \in untracked \cup DOMAIN b.tip.files |-> IF n \in DOMAIN b.tip.files THEN b.tip.files[n] ELSE b.tree.files[n]]
  IN IF b.tree.there THEN {[ByHand(b) EXCEPT !.tree.index = b.tip.files, !.tree.files = files, !.mine.names = (@ \cap untracked) \ DOMAIN b.tip.files]} ELSE {}
DropBranch(b) == IF b.tree.there THEN {[ByHand(b) EXCEPT !.tip = NoTip, !.tree = NoTree, !.mine.tip = NoTip, !.mine.names = {}]} ELSE {}
\* A directory of one's own where the output goes, or a worktree made in what is there.
OwnOutput(b) ==
  LET own == IF b.out.there THEN [b.out EXCEPT !.git = TRUE]
             ELSE [NoDirectory EXCEPT !.there = TRUE, !.files = [n \in {<<"own", "c">>} |-> Mine]]
  IN {[ByHand(b) EXCEPT !.out = own, !.mine.out = own]}
DropOutput(b) == IF b.out.there THEN {[ByHand(b) EXCEPT !.out = NoDirectory, !.mine.out = NoDirectory]} ELSE {}
NewCommit(b) == IF b.head + 1 \in DOMAIN b.generated THEN {[ByHand(b) EXCEPT !.head = @ + 1]} ELSE {}
People(b, names) ==
  IF b.edits >= MaxEdits THEN {}
  ELSE CommitByHand(b) \cup NewCommit(b)
       \cup IF b.step = "idle" THEN EditFile(b, names) \cup ResetHard(b) \cup DropBranch(b) \cup OwnOutput(b) \cup DropOutput(b) ELSE {}
ExportSteps(b, names, ignored) == Run(b, ignored) \cup People(b, names)

(***************************************************************************)
(* What publication promises.                                              *)
(***************************************************************************)
PartOf(files, whole) == \A n \in DOMAIN files : n \in DOMAIN whole /\ files[n] = whole[n]
Generated(b) == {b.generated[c][1] : c \in {c \in DOMAIN b.generated : b.generated[c] # <<>>}}
ExportIsWhole(b) ==
  /\ b.mine.out.there => b.out = b.mine.out
  /\ b.out.there /\ ~b.mine.out.there => \E g \in Generated(b) : PartOf(b.out.files, g)
  /\ b.exit \in {"written", "published"} => b.out = Placed(b.job)
  /\ b.mine.tip.there => b.tip = b.mine.tip
  /\ \A n \in b.mine.names : n \in DOMAIN b.tree.files /\ b.tree.files[n] = Mine
  /\ b.tip.kf => b.tip.source > 0 /\ b.tip.files = b.generated[b.tip.source][1]
  /\ b.exit = "published" => /\ b.tip = Commit(b.job.files, TRUE, TRUE, b.job.commit)
                             /\ b.tree.index = b.tip.files /\ PartOf(b.tip.files, b.tree.files)

(***************************************************************************)
(* Why it holds.                                                           *)
(***************************************************************************)
\* The run has put its project in place; it has read the branch; it has checked the files.
Settled == {"verify", "done", "check", "collide", "retire", "write", "add", "commit", "update"}
Working == {"collide", "retire", "write", "add", "commit", "update"}
Writing == Working \ {"collide"}
IsGenerated(b, commit, files) ==
  commit \in DOMAIN b.generated /\ b.generated[commit] # <<>> /\ files = b.generated[commit][1]
\* A run has one of the projects; only one of a commit is published.
JobIsGenerated(b) ==
  /\ b.step # "idle" => IsGenerated(b, b.job.commit, b.job.files) /\ b.exit = "none"
  /\ b.step # "idle" /\ b.job.publish => b.job.commit > 0
  /\ b.step \in Settled \ {"done"} => b.job.publish
\* A run does not start while a person's directory is there, nor is one made during it.
OutputIsKept(b) ==
  /\ b.mine.out.there => b.out = b.mine.out /\ ~Replaceable(b.out) /\ b.step = "idle"
  /\ b.out.there /\ ~b.mine.out.there => \E g \in Generated(b) : PartOf(b.out.files, g)
  /\ b.step \in Settled \/ b.exit \in {"written", "published"} => b.out = Placed(b.job)
\* What a person commits during a run is none of the tips it expects.
BranchIsKept(b) ==
  /\ b.mine.tip.there => b.tip = b.mine.tip /\ ~b.tip.kf
  /\ IF b.tree.there THEN b.tip.there ELSE b.tree = NoTree /\ b.mine.names = {}
  /\ b.tip.kf => b.tip.source > 0 /\ IsGenerated(b, b.tip.source, b.tip.files)
  /\ b.step \in Working =>
       /\ b.tree.there
       /\ b.job.tip.there => b.job.tip.kf
       /\ ~b.job.tip.there /\ b.mine.tip.there => b.tip.source < 0
  /\ b.step = "collide" /\ b.tip.kf => b.tip = b.job.tip /\ b.tree.index = b.tip.files
\* A file a person edited is not in the index from the check on, and not in the project.
EditsAreKept(b) ==
  /\ \A n \in b.mine.names : n \in DOMAIN b.tree.files /\ b.tree.files[n] = Mine
  /\ b.step \in Working => b.mine.names \cap DOMAIN b.tree.index = {}
  /\ b.step \in Writing => b.mine.names \cap DOMAIN b.job.files = {}
\* How far the worktree has become the project.
TreeFollows(b) ==
  /\ b.step = "retire" => DOMAIN b.tree.index \ b.job.tracked \subseteq DOMAIN b.job.files
  /\ b.step \in {"write", "add"} => DOMAIN b.tree.index \subseteq DOMAIN b.job.files
  /\ b.step = "write" =>
       /\ b.job.tracked \subseteq DOMAIN b.job.files
       /\ \A n \in DOMAIN b.job.files \ b.job.tracked : n \in DOMAIN b.tree.files /\ b.tree.files[n] = b.job.files[n]
  /\ b.step \in {"add", "commit", "update"} => PartOf(b.job.files, b.tree.files)
  /\ b.step \in {"commit", "update"} => b.tree.index = b.job.files
  /\ b.step = "update" => b.job.new = Commit(b.job.files, TRUE, TRUE, b.job.commit)
  /\ b.exit = "published" => /\ b.tip = Commit(b.job.files, TRUE, TRUE, b.job.commit)
                             /\ b.tree.index = b.tip.files /\ PartOf(b.tip.files, b.tree.files)
ExportInv(b) == JobIsGenerated(b) /\ OutputIsKept(b) /\ BranchIsKept(b) /\ EditsAreKept(b) /\ TreeFollows(b)

=============================================================================
