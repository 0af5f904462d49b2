----------------------------- MODULE ParserMachine ----------------------------
(***************************************************************************)
(* scripts/kf/parser_machine.py, ParserMachine.call: one bounded call of a *)
(* linked closure on an emulator that has no load delay.  Every fetch      *)
(* first settles the store before it, then serves a hook or checks the     *)
(* closure and the R3000's load delay.                                     *)
(*                                                                         *)
(* A machine is a record; Steps gives its successors.  Memory is cells of  *)
(* CellValues values, WordCells of them a word; code is apart from it.     *)
(***************************************************************************)
EXTENDS Integers, Sequences, FiniteSets, SequencesExt

CONSTANTS WordCells, CellValues, ReturnAddress, StackBase, MemoryEnd
WordValues == CellValues ^ WordCells
Registers == {0, 2, 3, 4, 5, 6, 7, 29, 31}
Arguments == 4 .. 7

(***************************************************************************)
(* Instructions: op, rs, rt and an immediate.                              *)
(***************************************************************************)
Loads == {"lw", "lb"}
Stores == {"sb", "sw", "swl", "swr"}
\* Mutant: a store reads its base register only.
ReadsOfBase(i) == (IF i.op \in {"addu", "beq"} THEN {i.rs, i.rt} ELSE IF i.op \in {"jal", "lui", "nop"} THEN {} ELSE {i.rs}) \ {0}
GprReads(i) ==
  (IF i.op \in {"addu", "beq"} \cup Stores THEN {i.rs, i.rt}
   ELSE IF i.op \in {"jal", "lui", "nop"} THEN {} ELSE {i.rs}) \ {0}
LoadedGpr(i) == IF i.op \in Loads THEN {i.rt} \ {0} ELSE {}
Address(i, gpr) == (gpr[i.rs] + i.field) % WordValues
\* The cells a store will change, before it executes.
StoreRecord(i, pc, gpr) ==
  LET a == Address(i, gpr)
      low == a % WordCells
      Write(at, size, value) == [pc |-> pc, address |-> at, size |-> size, value |-> value % CellValues ^ size]
  IN CASE i.op = "sb" -> Write(a, 1, gpr[i.rt])
       [] i.op = "sw" -> Write(a, WordCells, gpr[i.rt])
       [] i.op = "swl" -> Write(a - low, low + 1, gpr[i.rt] \div CellValues ^ (WordCells - low - 1))
       [] i.op = "swr" -> Write(a, WordCells - low, gpr[i.rt])
Mapped(at, size) == at + size <= MemoryEnd
RECURSIVE ReadCells(_, _, _)
ReadCells(mem, at, size) == IF size = 0 THEN 0 ELSE mem[at] + CellValues * ReadCells(mem, at + 1, size - 1)
CellOf(value, k) == (value \div CellValues ^ k) % CellValues

(***************************************************************************)
(* The emulated processor: delayed branches, immediate loads.              *)
(***************************************************************************)
LoadValue(i, gpr, mem) ==
  LET a == Address(i, gpr) IN IF i.op = "lb" THEN mem[a] ELSE ReadCells(mem, a - (a % WordCells), WordCells)
Stored(i, gpr, mem) ==
  LET a == Address(i, gpr)
      low == a % WordCells
      value == gpr[i.rt]
  IN [c \in DOMAIN mem |->
        CASE i.op = "sb" /\ c = a -> CellOf(value, 0)
          [] i.op = "sw" /\ c \in a .. a + WordCells - 1 -> CellOf(value, c - a)
          [] i.op = "swl" /\ c \in a - low .. a -> CellOf(value, WordCells - 1 - (a - c))
          [] i.op = "swr" /\ c \in a .. a - low + WordCells - 1 -> CellOf(value, c - a)
          [] OTHER -> mem[c]]
Target(i, gpr, pc) ==
  CASE i.op = "jr" -> {gpr[i.rs]}
    [] i.op = "jal" -> {i.field}
    [] i.op = "beq" -> {pc + 1 + i.field : x \in {y \in {0} : gpr[i.rs] = gpr[i.rt]}}
    [] OTHER -> {}
Result(i, gpr, pc) ==  \* the register an instruction other than a load writes
  CASE i.op = "addiu" -> {<<i.rt, (gpr[i.rs] + i.field) % WordValues>>}
    [] i.op = "addu" -> {<<2, (gpr[i.rs] + gpr[i.rt]) % WordValues>>}
    [] i.op = "lui" -> {<<i.rt, i.field>>}
    [] i.op = "jal" -> {<<31, pc + 2>>}
    [] OTHER -> {}
Written(gpr, results) == [r \in DOMAIN gpr |-> IF \E w \in results : w[1] = r /\ r # 0 THEN (CHOOSE w \in results : w[1] = r)[2] ELSE gpr[r]]
Cpu(m, i) ==
  LET target == Target(i, m.gpr, m.pc)
      loaded == {<<i.rt, LoadValue(i, m.gpr, m.mem)>> : x \in LoadedGpr(i)}
  IN [m EXCEPT !.pc = m.next, !.next = IF target = {} THEN m.next + 1 ELSE CHOOSE t \in target : TRUE,
               !.gpr = Written(m.gpr, Result(i, m.gpr, m.pc) \cup loaded),
               !.mem = IF i.op \in Stores THEN Stored(i, m.gpr, m.mem) ELSE m.mem]

(***************************************************************************)
(* The runner.  A program is its code by address, its functions, the hooks *)
(* by entry with what each may do, and the ranges it may write, if any.    *)
(***************************************************************************)
Machine(program, entry, args, mem) ==
  [pc |-> entry, next |-> entry + 1, mem |-> mem, load |-> {}, store |-> <<>>, writes |-> <<>>, trace |-> <<>>,
   instructions |-> 0, status |-> "running",
   gpr |-> [r \in Registers |-> CASE r \in Arguments /\ r - 3 \in DOMAIN args -> args[r - 3]
                                  [] r = 29 -> StackBase [] r = 31 -> ReturnAddress [] OTHER -> 0]]
Fault(m, why) == [m EXCEPT !.status = why]
InClosure(program, at) ==
  \/ \E f \in program.functions : f.address <= at /\ at < f.address + f.size
  \/ \E h \in DOMAIN program.hooks : at \in {h + 1, h + 2}
MayWrite(program, at, size) ==
  \/ program.writable = {}
  \/ StackBase - WordCells <= at /\ Mapped(at, size)
  \/ \E w \in program.writable : w[1] <= at /\ at + size <= w[2]
CallRecord(name, kind, m) == [name |-> name, kind |-> kind, args |-> [r \in Arguments |-> m.gpr[r]]]
VerifyStore(m) ==
  IF m.store = <<>> THEN m
  ELSE LET record == m.store[1] IN
       IF ReadCells(m.mem, record.address, record.size) # record.value THEN Fault(m, "store differs")
       ELSE [m EXCEPT !.writes = Append(@, record), !.store = <<>>]
\* What a hook does: values for v0 and v1, or a write cell by cell.
HookWrite(program, m, at, cells) ==
  LET refused == {k \in DOMAIN cells : ~MayWrite(program, at + k - 1, 1)} IN
  IF refused # {} THEN Fault(m, "write outside allowed ranges")
  ELSE [m EXCEPT !.writes = @ \o [k \in DOMAIN cells |-> [pc |-> m.pc, address |-> at + k - 1, size |-> 1, value |-> cells[k]]],
                 !.mem = [c \in DOMAIN @ |-> IF c \in at .. at + Len(cells) - 1 THEN cells[c - at + 1] ELSE @[c]]]
ServeHook(program, m, does) ==
  LET called == [m EXCEPT !.trace = Append(@, CallRecord(program.hooks[m.pc].name, "hook", m))]
      served == IF does.kind = "write" THEN HookWrite(program, called, does.address, does.cells)
                ELSE [called EXCEPT !.gpr = Written(@, does.values)]
  IN IF served.status # "running" THEN served
     ELSE [served EXCEPT !.load = {}, !.instructions = @ + 1, !.pc = m.next, !.next = m.next + 1]
Traced(program, m) ==
  LET entered == {f \in program.functions : f.address = m.pc}
  IN IF entered = {} THEN m
     ELSE [m EXCEPT !.trace = Append(@, CallRecord((CHOOSE f \in entered : TRUE).name, "function", m))]
StoreAllowed(program, i, record) ==
  /\ i.op = "sw" => record.address % WordCells = 0
  /\ Mapped(record.address, record.size) /\ MayWrite(program, record.address, record.size)
Executed(program, m, i) ==
  LET record == IF i.op \in Stores THEN <<StoreRecord(i, m.pc, m.gpr)>> ELSE <<>>
  IN IF m.load \cap GprReads(i) # {} THEN Fault(m, "load delay")
     ELSE IF \E w \in Range(record) : ~StoreAllowed(program, i, w) THEN Fault(m, "store refused")
     ELSE Cpu([m EXCEPT !.load = LoadedGpr(i), !.store = record, !.instructions = @ + 1], i)

(***************************************************************************)
(* Steps of a running machine.                                             *)
(***************************************************************************)
Settled(m) == VerifyStore(m).status = "running"
Spent(program, m) == m.instructions >= program.limit
Differs(program, m) == {VerifyStore(m) : x \in {y \in {m} : ~Settled(y)}}
Limit(program, m) == {Fault(y, "limit") : y \in {x \in {m} : Settled(x) /\ Spent(program, x) /\ x.pc # ReturnAddress}}
Return(program, m) == {[VerifyStore(y) EXCEPT !.status = "returned"] : y \in {x \in {m} : Settled(x) /\ x.pc = ReturnAddress}}
Hook(program, m) ==
  IF m.pc \notin DOMAIN program.hooks \/ ~Settled(m) \/ Spent(program, m) THEN {}
  ELSE IF m.load \cap Arguments # {} THEN {Fault(m, "load delay")}
  ELSE {ServeHook(program, VerifyStore(m), does) : does \in program.hooks[m.pc].does}
Fetch(program, m) ==
  IF m.pc \in DOMAIN program.hooks \cup {ReturnAddress} \/ ~Settled(m) \/ Spent(program, m) THEN {}
  ELSE IF ~InClosure(program, m.pc) THEN {Fault(Traced(program, VerifyStore(m)), "outside closure")}
  ELSE {Executed(program, Traced(program, VerifyStore(m)), program.code[m.pc])}
Steps(program, m) ==
  IF m.status # "running" THEN {}
  ELSE Limit(program, m) \cup Return(program, m) \cup Differs(program, m) \cup Hook(program, m) \cup Fetch(program, m)
==============================================================================
