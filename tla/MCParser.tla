------------------------------- MODULE MCParser -------------------------------
EXTENDS ParserLink, ParserMachine, TLC
(***************************************************************************)
(* One object: f at 0 to 4 holds two address pairs and a call, g follows;  *)
(* read-only and initialized words point into code and data.  A reference  *)
(* is a symbol by its place and an addend.                                 *)
(***************************************************************************)
Sym(name, section, value, size, kind) == [name |-> name, section |-> section, value |-> value, size |-> size, kind |-> kind]
LinkSymbols ==
  <<Sym("", ".text", 0, 0, "SECTION"), Sym("f", ".text", 0, 5, "FUNC"), Sym("g", ".text", 5, 1, "FUNC"),
    Sym("", ".data", 0, 0, "SECTION"), Sym("d", ".data", 0, 1, "OBJECT"), Sym("e", ".data", 1, 2, "OBJECT"),
    Sym("x", "UNDEF", 0, 0, "NOTYPE"), Sym("c", "COMMON", 0, 1, "OBJECT"), Sym("", ".rodata", 0, 0, "SECTION")>>
Identity(n, va, size) == [symbol |-> Plain(n), va |-> va, size |-> size]
GameCatalog == [functions |-> {Identity("f", 21, 6), Identity("g", 18, 3), Identity("x", 15, 3)},
                data |-> {Identity("d", 3, 1), Identity("e", 4, 2), Identity("c", 8, 1)}]
Game == CHOOSE symbols \in GameSymbols(GameCatalog) : TRUE
Insn(op, reg, field) == [op |-> op, reg |-> reg, field |-> field]
Rel(section, offset, kind, symbol) == [section |-> section, offset |-> offset, kind |-> kind, symbol |-> symbol]
Apart4 == {<<0, 2, 1, 3>>, <<0, 1, 2, 3>>, <<0, 3, 1, 2>>, <<0, 2, 1, 2>>}  \* both high and low halves
Shared(l) == l[2] = l[4]
LinkedObject(in) ==
  LET l == in.layout
      HighWord(ref) == Insn("lui", 1, High(ref[2]))
      LowWord(ref) == Insn("addiu", 1, ref[2] % Radix)
      text == [o \in 0 .. 5 |-> CASE o = l[1] -> HighWord(in.a) [] o = l[3] -> HighWord(in.b) [] o = l[2] -> LowWord(in.a)
                                  [] o = l[4] -> LowWord(in.b) [] o = 4 -> Insn("jal", 0, in.call[2]) [] OTHER -> Insn("nop", 0, o)]
  IN [path |-> "A", symbols |-> LinkSymbols, sizes |-> [s \in {".rodata"} |-> 1],
      words |-> [s \in {".text", ".rodata", ".data"} |->
                   CASE s = ".text" -> text [] s = ".rodata" -> [o \in {0} |-> Insn("data", 0, in.table)]
                     [] s = ".data" -> [o \in 0 .. 2 |-> IF o = 1 THEN Insn("data", 0, in.b[2]) ELSE Insn("data", 0, o)]],
      relocs |-> <<Rel(".text", l[2], "LO16", in.a[1]), Rel(".text", l[1], "HI16", in.a[1]), Rel(".text", l[3], "HI16", in.b[1])>>
                 \o (IF Shared(l) THEN <<>> ELSE <<Rel(".text", l[4], "LO16", in.b[1])>>)
                 \o <<Rel(".text", 4, "26", in.call[1]), Rel(".rodata", 0, "32", 1), Rel(".data", 1, "32", in.b[1])>>]
LinkInput(in) ==
  \E layout \in Apart4, a \in {<<4, 0>>, <<4, 1>>, <<4, 3>>, <<6, 1>>, <<8, 1>>, <<9, 0>>, <<7, 0>>, <<7, 6>>},
     b \in {<<4, 1>>, <<6, 1>>, <<7, 6>>}, call \in {<<1, 5>>, <<7, 0>>}, table \in {3, 5},
     names \in {<<"f">>, <<"f", "g">>}, hooks \in {<<>>, <<"g", "x">>, <<"x">>}, providers \in {<<>>, <<"g">>},
     mode \in {<<"", TRUE>>, <<"", FALSE>>, <<"e", TRUE>>} :
    /\ Shared(layout) => a[1] = b[1] /\ a[2] % Radix = b[2] % Radix
    /\ in = [layout |-> layout, a |-> a, b |-> b, call |-> call, table |-> table, names |-> names, hooks |-> hooks,
             providers |-> providers, override |-> mode[1], bind |-> mode[2]]
Program(in) ==
  LET obj == LinkedObject(in)
      Request(n) == [name |-> n, obj |-> obj]
      Provided(n) == [name |-> n, address |-> Game.functions[n].va, size |-> Game.functions[n].size]
  IN Link(Game, [k \in DOMAIN in.names |-> Request(in.names[k])], in.hooks,
          [k \in DOMAIN in.providers |-> Provided(in.providers[k])], [n \in {in.override} \ {""} |-> 9], in.bind)

\* The same call of the unchanged game: functions that are not candidates are called at the same entries.
Retail(in) ==
  RetailLink(Game, in.names, in.hooks, [k \in DOMAIN in.providers |->
               [name |-> in.providers[k], address |-> Game.functions[in.providers[k]].va, size |-> 2]])
\* The addresses a reference may have, from what the compiler meant by it.
Meant(in, program, ref, soft) ==
  LET s == LinkSymbols[ref[1]]
      at == s.value + ref[2]
      link == program.link
      Function(n, delta) ==
        IF \E t \in Range(link.selected) : t.name = n
        THEN {(CHOOSE t \in Range(link.selected) : t.name = n).address + delta}
        ELSE {link.entries[m] : m \in {n : x \in {delta} \cap {0}} \cap DOMAIN link.entries}
             \cup {Unpatched : x \in {y \in {TRUE} : soft /\ (n \notin DOMAIN link.entries \/ delta # 0)}}
      holding == {o \in Range(LinkSymbols) : o.section = s.section /\ o.kind = "OBJECT"
                                             /\ (in.bind => at \in o.value .. o.value + o.size)}
  IN CASE s.section = ".text" -> IF at < 5 THEN Function("f", at) ELSE Function("g", at - 5)
       [] s.section = "UNDEF" -> {a + ref[2] : a \in Function(s.name, 0)}
       [] s.section = ".rodata" -> {link.rodata["A"] + ref[2]}
       [] OTHER -> {link.known[o.name] + at - o.value : o \in IF s.kind = "OBJECT" THEN {s} ELSE holding}
LinkedMeansTarget(in) ==
  \A program \in Program(in) :
    LET WordsOf(name) == (CHOOSE p \in program.patches : p.of = name).words
        f == WordsOf("f")
        Is(address, ref, soft) == address \in {m % Space : m \in Meant(in, program, ref, soft)}
        Data == IF in.bind THEN WordsOf("e")[0] ELSE WordsOf(".data")[1]
        spans == {[of |-> p.of, address |-> p.address, size |-> Cardinality(DOMAIN p.words)] : p \in program.patches}
                 \cup {[of |-> h.hook, address |-> h.address, size |-> StubSize] : h \in program.hooks}
    IN /\ \A retail \in Retail(in) :
            /\ retail.hooks \subseteq program.hooks
            /\ {x.name : x \in retail.functions} = {x.name : x \in program.functions}
       /\ \A size \in 0 .. 3, a \in {0, 33, 40, 47, 62} : ValidInput(program, a, size) =>
            \A c \in a .. a + size - 1 : ~\E p \in spans : p.of # ".data" /\ c \in p.address .. p.address + p.size - 1
       /\ Is(DecodeHiLo(f[in.layout[1]], f[in.layout[2]]), in.a, FALSE)
       /\ Is(DecodeHiLo(f[in.layout[3]], f[in.layout[4]]), in.b, FALSE)
       /\ Is(DecodeMips26(CodeArena[1] + 4, f[4]), in.call, FALSE)
       /\ Is(WordsOf(".rodata")[0].field, <<1, in.table>>, TRUE)
       /\ Is(Data.field, in.b, FALSE)
       /\ \A p, q \in spans : p # q => p.address >= q.address + q.size \/ q.address >= p.address + p.size
(***************************************************************************)
(* f at 100 saves its return address, may call g at 120, a hook at 140 or  *)
(* an address of nobody; it returns with one instruction in the slot.      *)
(***************************************************************************)
Ins(op, rs, rt, field) == [op |-> op, rs |-> rs, rt |-> rt, field |-> field]
Nop == Ins("nop", 0, 0, 0)
Anything == {Nop, Ins("lw", 5, 4, 0), Ins("lw", 29, 7, 0), Ins("sw", 29, 4, 0), Ins("swl", 5, 7, 1), Ins("addiu", 4, 4, 17)}
Computing == {Ins("addu", 4, 7, 0), Ins("lb", 29, 4, 1), Ins("swr", 5, 4, 1), Ins("sb", 29, 7, 1)}
Control == {Ins("jal", 0, 0, 120), Ins("jal", 0, 0, 140), Ins("beq", 4, 5, 2), Ins("jal", 0, 0, 150)}
MachineProgram(in) ==
  LET body == <<Ins("addiu", 31, 6, 0), in.first, in.second, in.control, in.slot, in.after, Ins("jr", 6, 0, 0), in.last>>
      g == <<in.inner, Ins("jr", 31, 0, 0), in.slot>>
  IN [code |-> [a \in 100 .. 107 \cup 120 .. 122 \cup {141, 142} |->
                  CASE a < 108 -> body[a - 99] [] a \in 120 .. 122 -> g[a - 119]
                    [] a = 141 -> Ins("jr", 31, 0, 0) [] a = 142 -> Nop],
      functions |-> {[name |-> "f", address |-> 100, size |-> 8], [name |-> "g", address |-> 120, size |-> 3]},
      hooks |-> [h \in {140} |-> [name |-> "h", does |-> {in.does}]],
      writable |-> in.writable, limit |-> IF in.writable = {} THEN 14 ELSE 10]
\* The console: a load's register changes one instruction later.
Console(m) == [gpr |-> m.gpr, late |-> {}, mem |-> m.mem, pc |-> m.pc, next |-> m.next, trace |-> <<>>]
Landed(r) == Written(r.gpr, r.late)
ConsoleRuns(program, r) ==
  LET i == program.code[r.pc]
      target == Target(i, r.gpr, r.pc)
      entered == {f \in program.functions : f.address = r.pc}
  IN [gpr |-> Written(Landed(r), Result(i, r.gpr, r.pc)),
      late |-> {<<i.rt, LoadValue(i, r.gpr, r.mem)>> : x \in {y \in {i.op} : y \in Loads}},
      mem |-> IF i.op \in Stores THEN Stored(i, r.gpr, r.mem) ELSE r.mem,
      pc |-> r.next, next |-> IF target = {} THEN r.next + 1 ELSE CHOOSE t \in target : TRUE,
      trace |-> IF entered = {} THEN r.trace
                ELSE Append(r.trace, CallRecord((CHOOSE f \in entered : TRUE).name, "function", [gpr |-> Landed(r)]))]
ConsoleHooks(program, r, does) ==
  [r EXCEPT !.gpr = Written(Landed(r), IF does.kind = "write" THEN {} ELSE does.values), !.late = {},
            !.mem = IF does.kind = "write" THEN [c \in DOMAIN @ |-> IF c \in does.address .. does.address + Len(does.cells) - 1
                                                                    THEN does.cells[c - does.address + 1] ELSE @[c]] ELSE @,
            !.pc = r.next, !.next = r.next + 1,
            !.trace = Append(@, CallRecord(program.hooks[r.pc].name, "hook", r))]
StartMemory == [c \in 0 .. 7 |-> (3 * c) % CellValues]
MachineInput(in) ==
  \E first, slot \in Anything, second, after \in Computing, control \in Control, last \in {Nop, Ins("lw", 29, 2, 0), Ins("sw", 5, 2, 0)},
     inner \in {Ins("addu", 4, 7, 0), Nop},
     does \in {[kind |-> "values", values |-> {<<2, 9>>}], [kind |-> "write", address |-> 1, cells |-> <<5, 6>>]}, writable \in {{}, {<<0, 1>>}} :
    LET program == [first |-> first, second |-> second, control |-> control, slot |-> slot, after |-> after, last |-> last,
                    inner |-> inner, does |-> does, writable |-> writable]
        m == Machine([limit |-> 14], 100, <<2, 0>>, StartMemory)
    IN /\ control.field # 140 => does.kind = "values"
       /\ control.field # 120 => inner = Nop
       /\ writable # {} => last.op = "sw"
       /\ in = [program |-> program, machine |-> m, console |-> Console(m)]
MachineSteps(in) ==
  LET program == MachineProgram(in.program) IN
  {[in EXCEPT !.machine = m,
              !.console = IF m.instructions = in.machine.instructions THEN @
                          ELSE IF @.pc \in DOMAIN program.hooks THEN ConsoleHooks(program, @, in.program.does)
                          ELSE ConsoleRuns(program, @)] : m \in Steps(program, in.machine)}
Replayed(writes, mem) ==
  FoldLeft(LAMBDA now, w : [c \in DOMAIN now |-> IF c \in w.address .. w.address + w.size - 1 THEN CellOf(w.value, c - w.address) ELSE now[c]],
           mem, writes)
MachineIsConsole(in) ==
  LET m == in.machine
      r == in.console
  IN /\ m.status \in {"running", "returned"} =>
          m.pc = r.pc /\ m.mem = r.mem /\ m.gpr = Landed(r) /\ m.trace = r.trace
     /\ m.status # "store differs"
     /\ m.status = "returned" => Replayed(m.writes, StartMemory) = m.mem
==============================================================================
