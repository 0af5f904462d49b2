---------------------------- MODULE FunctionAudit ----------------------------
(***************************************************************************)
(* scripts/kf/audit_functions.py: starts of functions that the census of   *)
(* an image has missed, told from frames and their returns, from stored    *)
(* pointers and jumps out of a function, and from the gaps between two     *)
(* returns.  Addresses count words; a word is [op, n, valid]: "adjust" and *)
(* "pop" move the stack pointer by n, "save" stores the return address at  *)
(* n, "return" is jr ra, "jump" goes to n, "pointer" reads as address n.   *)
(***************************************************************************)
EXTENDS Integers, Sequences, FiniteSets, FiniteSetsExt

CONSTANTS FrameReach, ReturnReach, LeafReach, ScoreWindow, ScoreFloor, ScoreSlack

First(image) == Min(DOMAIN image)
End(image) == Max(DOMAIN image) + 1
IsReturn(image, a) == image[a].op = "return"
\* Functions are [start, end]; the one whose start is the last not after a, if it still holds a.
ExtentOwner(extents, a) ==
  LET before == {e \in extents : e.start <= a}
      last == CHOOSE e \in before : \A x \in before : x.start <= e.start
  IN IF before = {} \/ a >= last.end THEN {} ELSE {last}

LeavesWindow(word) == word.op \in {"jump", "branch", "return"}
SavesInside(word, size) == word.op = "save" /\ 0 <= word.n /\ word.n < size
\* The size of the frame that a word opens: the return address is stored in it before control may leave.
FrameAt(image, a) ==
  LET size == -image[a].n
      Opens == image[a].op = "adjust" /\ image[a].n < 0
      saves == {s \in a + 1 .. a + FrameReach : s \in DOMAIN image /\ SavesInside(image[s], size)
                                                /\ \A x \in a + 1 .. s - 1 : ~LeavesWindow(image[x])}
  IN IF Opens /\ saves # {} THEN {size} ELSE {}
MatchingReturn(image, a, size) ==
  {s \in a + 1 .. Min({End(image) - 1, a + ReturnReach}) - 1 :
     /\ IsReturn(image, s) /\ image[s + 1].op = "adjust" /\ image[s + 1].n = size
     /\ \A x \in a + 1 .. s - 1 : ~(IsReturn(image, x) /\ image[x + 1].op = "adjust" /\ image[x + 1].n = size)}
PlausibleCode(image, a) ==
  LET sample == (a .. a + ScoreWindow - 1) \cap DOMAIN image
  IN Cardinality({s \in sample : image[s].valid}) >= Max({ScoreFloor, Cardinality(sample) - ScoreSlack})
BoundaryBefore(image, a) ==
  \/ a = First(image)
  \/ a - 2 \in DOMAIN image /\ IsReturn(image, a - 2)
  \/ a > First(image) /\ \A s \in {a - 2, a - 1} \cap DOMAIN image : image[s].op = "zero"
PointerRefs(image) == {image[s].n : s \in {x \in DOMAIN image : image[x].op = "pointer"}} \cap DOMAIN image
TailRefs(image, extents) ==
  {image[s].n : s \in {x \in DOMAIN image : image[x].op = "jump"
                         /\ \E e \in ExtentOwner(extents, x) : image[x].n \notin e.start .. e.end - 1}} \cap DOMAIN image

(***************************************************************************)
(* The rows of one image: a start, how far it reaches and how it is known. *)
(***************************************************************************)
AuditRow(start, end, confidence) == [start |-> start, end |-> end, confidence |-> confidence]
Rated(image, extents, relocated, a) ==
  LET sizes == FrameAt(image, a)
      returns == UNION {MatchingReturn(image, a, size) : size \in sizes}
      refs == PointerRefs(image) \cup TailRefs(image, extents)
      known == ExtentOwner(extents, a) = {} \/ BoundaryBefore(image, a) \/ a \in refs \cup relocated
  IN IF ~PlausibleCode(image, a) THEN {}
     ELSE IF returns # {} THEN {AuditRow(a, Min(returns) + 2, IF known THEN "strong" ELSE "frame-return")}
     ELSE IF a \in refs THEN {AuditRow(a, a, "referenced-code")} ELSE {}
FramedRows(image, extents, relocated) ==
  LET candidates == PointerRefs(image) \cup TailRefs(image, extents) \cup {a \in DOMAIN image : FrameAt(image, a) # {}}
  IN UNION {Rated(image, extents, relocated, a) : a \in candidates \ {e.start : e \in extents}}

LinearReturn(image, a, stop) ==
  {s \in a .. Min({End(image) - 1, a + LeafReach, stop}) - 1 : IsReturn(image, s) /\ \A x \in a .. s - 1 : ~IsReturn(image, x)}
\* The first word after a return and its slot, past at most three words of padding.
AfterPadding(image, site) ==
  LET Padded(k) == \A x \in site + 2 .. site + 1 + k : x \in DOMAIN image /\ image[x].op = "zero"
  IN site + 2 + Max({k \in 0 .. 3 : Padded(k)})
\* Mutant: a leaf runs to the next return, whatever starts before it.
StopAtEnd(image, starts, a) == End(image)
Stop(image, starts, a) == LET next == {s \in starts : s > a} IN IF next = {} THEN End(image) ELSE Min(next)
LeafRows(image, extents, framed) ==
  LET strong == {r \in framed : r.confidence = "strong"}
      starts == {e.start : e \in extents} \cup {r.start : r \in strong}
      Free(a) == /\ a \in DOMAIN image /\ ExtentOwner(extents, a) = {}
                 /\ \A r \in strong : a \notin r.start .. r.end - 1
                 /\ \A r \in framed : r.start = a => r.confidence = "referenced-code"
      Clean(a, s) == \A x \in a .. s + 1 : image[x].valid
  IN UNION {{AuditRow(a, s + 2, "strong-leaf") : s \in {x \in LinearReturn(image, a, Stop(image, starts, a)) : Clean(a, x)}} :
              a \in {b \in {AfterPadding(image, r) : r \in {s \in DOMAIN image : IsReturn(image, s)}} : Free(b)}}
AuditImage(image, extents, relocated) ==
  LET framed == FramedRows(image, extents, relocated)
      leaves == LeafRows(image, extents, framed)
  IN leaves \cup {r \in framed : \A l \in leaves : l.start # r.start}

(***************************************************************************)
(* A leaf that is proposed runs from a return to the next one, in words    *)
(* that no known function has and with no start inside it; the slot of its *)
(* return may be one: the code looks for starts up to the return only.  A  *)
(* start has one row.                                                      *)
(***************************************************************************)
\* An image is words in sequence; its functions do not share a word.
ImageOf(image) == \E first, last \in DOMAIN image : DOMAIN image = first .. last
FunctionsApart(extents) == \A e, f \in extents : e # f => e.end <= f.start \/ f.end <= e.start
Within(row) == row.start .. row.end - 2
\* A return in the slot of another.
Nested(image) == \E s \in DOMAIN image : IsReturn(image, s) /\ s + 1 \in DOMAIN image /\ IsReturn(image, s + 1)
Delimited(image, extents, rows) ==
  /\ \A l \in {r \in rows : r.confidence = "strong-leaf"} :
       /\ {s \in Within(l) : IsReturn(image, s)} = {l.end - 2}
       /\ \A e \in extents : Within(l) \cap (e.start .. e.end - 1) = {}
       /\ \A r \in rows : r # l /\ r.confidence \in {"strong", "strong-leaf"} /\ ~Nested(image) => r.start \notin Within(l)
  /\ \A q, r \in rows : q.start = r.start => q = r
==============================================================================
