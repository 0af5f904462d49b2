------------------------------ MODULE Booleans ------------------------------
(***************************************************************************)
(* scripts/kf/booleans.py: which values every integral object of the C     *)
(* sources is seen to take.  The extractor turns each declaration,         *)
(* expression and statement into facts, the solver closes the pointers and *)
(* the value flow over the facts of all units, and every slot is classed.  *)
(*                                                                         *)
(* A program is [objects, functions, fields, views].  An object is         *)
(* [type, role, size, extent, initial]: type "integer", "array",           *)
(* "pointer", "record" or "record pointer"; initial its initializer's      *)
(* [field, value] entries.  A function is [defined, result, parameters,    *)
(* const, short, body].  An expression or statement is [op, name, value,   *)
(* args].  A value is abstracted to a set of masks.                        *)
(***************************************************************************)
EXTENDS Integers, Sequences, FiniteSets, SequencesExt

Listed(S) == FoldSet(LAMBDA x, s : Append(s, x), <<>>, S)
Term(op, name, value, args) == [op |-> op, name |-> name, value |-> value, args |-> args]
Constant(n) == Term("int", "", n, <<>>)
Unknown == Term("unknown", "", 0, <<>>)
Name(x) == Term("name", x, 0, <<>>)
SlotTerm(key) == Term(key[1], key[2], 0, <<>>)

(***************************************************************************)
(* What the declarations say.                                              *)
(***************************************************************************)
Type(p, x) == p.objects[x].type
IsObject(p, e) == e.op = "name" /\ e.name \in DOMAIN p.objects
IsArray(p, e) == IsObject(p, e) /\ Type(p, e.name) = "array"
PointerTypes == {"pointer", "record pointer"}
FieldSlots(p) == {<<"slot", x>> : x \in Range(p.fields)}
Slots(p) == {<<"slot", x>> : x \in {y \in DOMAIN p.objects : Type(p, y) \in {"integer", "array"}}}
            \cup {<<"return", f>> : f \in {g \in DOMAIN p.functions : p.functions[g].result = "integer"}}
            \cup {<<"pointee", x>> : x \in {y \in DOMAIN p.objects : Type(p, y) = "pointer" /\ p.objects[y].role = "parameter"}}
Defined(p) == {f \in DOMAIN p.functions : p.functions[f].defined}
FunctionOf(p, x) == CHOOSE f \in DOMAIN p.functions : x \in Range(p.functions[f].parameters)
SizeOf(p, key) == IF key[1] = "return" THEN 1 ELSE p.objects[key[2]].size
TargetsForType(p, type) == IF type = "record" THEN FieldSlots(p) ELSE {}
IsPointer(p, e) ==
  \/ IsObject(p, e) /\ Type(p, e.name) \in PointerTypes \cup {"array"}
  \/ e.op = "address"
  \/ e.op = "call" /\ e.name \in DOMAIN p.functions /\ p.functions[e.name].result = "pointer"
  \/ e.op \in {"binary", "step"} /\ IsObject(p, e.args[1]) /\ Type(p, e.args[1].name) \in PointerTypes \cup {"array"}
  \/ e.op = "conditional" /\ e.args[2].op = "address"

(***************************************************************************)
(* Facts.                                                                  *)
(***************************************************************************)
NoFacts == [writes |-> <<>>, uses |-> {}, targets |-> {}, edges |-> {}, stores |-> <<>>, loads |-> {}, calls |-> <<>>, taken |-> {}]
Plus(a, b) == [writes |-> a.writes \o b.writes, uses |-> a.uses \cup b.uses, targets |-> a.targets \cup b.targets, edges |-> a.edges \cup b.edges,
               stores |-> a.stores \o b.stores, loads |-> a.loads \cup b.loads, calls |-> a.calls \o b.calls, taken |-> a.taken \cup b.taken]
All(facts) == FoldLeft(Plus, NoFacts, facts)
Write(keys, e) == [NoFacts EXCEPT !.writes = Listed({[target |-> k, value |-> e] : k \in keys})]
UsedAs(keys, kind) == [NoFacts EXCEPT !.uses = {<<k, kind>> : k \in keys}]
Edge(to, from) == [NoFacts EXCEPT !.edges = {<<to, from>>}]

RECURSIVE Targets(_, _)
Targets(p, e) ==
  CASE e.op = "cast" -> Targets(p, e.args[1])
    [] IsObject(p, e) -> IF Type(p, e.name) \in {"integer", "array"} THEN {<<"slot", e.name>>} ELSE TargetsForType(p, Type(p, e.name))
    [] e.op = "index" /\ IsArray(p, e.args[1]) -> Targets(p, e.args[1])
    [] e.op \in {"index", "deref"} /\ IsObject(p, e.args[1]) /\ Type(p, e.args[1].name) = "record pointer" -> FieldSlots(p)
    [] OTHER -> {}

RECURSIVE PointerKey(_, _), PointerFacts(_, _)
PointerKey(p, e) ==
  CASE e.op = "cast" -> PointerKey(p, e.args[1])
    [] IsObject(p, e) /\ Type(p, e.name) \in PointerTypes -> <<"pointer", e.name>>
    [] e.op = "call" -> <<"pointer return", e.name>>
    [] OTHER -> <<"expression", e>>
PointerFacts(p, e) ==
  LET key == PointerKey(p, e)
      To(child) == Plus(Edge(key, PointerKey(p, child)), PointerFacts(p, child))
  IN IF key[1] # "expression" \/ e.op = "cast" THEN NoFacts
     ELSE LET operand == e.args[1] IN
          CASE e.op = "address" /\ Targets(p, operand) = {} /\ operand.op = "index" -> To(operand.args[1])
            [] e.op = "address" -> [NoFacts EXCEPT !.targets = {key} \X Targets(p, operand)]
            [] e.op = "step" -> To(operand)
            [] e.op = "conditional" -> Plus(To(e.args[2]), To(e.args[3]))
            [] e.op = "binary" -> All([k \in DOMAIN e.args |-> IF IsPointer(p, e.args[k]) THEN To(e.args[k]) ELSE NoFacts])
            [] OTHER -> [NoFacts EXCEPT !.targets = {key} \X Targets(p, e)]

Comparisons == {"EQ", "NE", "LT", "LE", "GT", "GE"}
Logical == {"LAnd", "LOr"}
Purpose(e, usage) ==
  CASE e.name \in Logical -> "truth"
    [] e.name \in {"EQ", "NE"} /\ \E k \in {1, 2} : e.args[k].op = "int" /\ e.args[k].value \in {0, 1} -> "truth-comparison"
    [] e.name \in Comparisons -> "numeric-comparison"
    [] e.name = "Comma" -> usage
    [] OTHER -> "arithmetic"

\* Pointers move along edges, integers by writes, whatever a pointer reaches by stores.
Assign(p, operator, lhs, rhs) ==
  LET value == IF operator = "Assign" THEN rhs ELSE Term("binary", operator, 0, <<lhs, rhs>>)
      base == lhs.args[1]
  IN IF IsObject(p, lhs) /\ Type(p, lhs.name) \in PointerTypes THEN Plus(Edge(PointerKey(p, lhs), PointerKey(p, rhs)), PointerFacts(p, rhs))
     ELSE IF Targets(p, lhs) # {} THEN Write(Targets(p, lhs), value)
     ELSE Plus([NoFacts EXCEPT !.stores = <<[target |-> PointerKey(p, base), value |-> value]>>], PointerFacts(p, base))

\* The value that a memset over the whole of an object gives every byte of it.
Fill(p, e) ==
  LET destination == e.args[1]
      whole == IF destination.op = "address" THEN destination.args[1] ELSE destination
  IN IF e.name = "memset" /\ e.args[3].value = p.objects[whole.name].size * p.objects[whole.name].extent THEN <<e.args[2]>> ELSE <<>>

RECURSIVE Scan(_, _, _), ScanAddress(_, _), Call(_, _)
ScanAddress(p, e) ==
  CASE e.op = "cast" -> ScanAddress(p, e.args[1])
    [] e.op = "index" -> Plus(ScanAddress(p, e.args[1]), Scan(p, e.args[2], "index"))
    [] e.op \in {"deref", "address", "step"} -> ScanAddress(p, e.args[1])
    [] e.op = "binary" -> All([k \in DOMAIN e.args |-> IF IsPointer(p, e.args[k]) THEN ScanAddress(p, e.args[k]) ELSE Scan(p, e.args[k], "index")])
    [] e.op = "call" -> Call(p, e)
    [] OTHER -> NoFacts
Call(p, e) ==
  LET known == e.name \in DOMAIN p.functions
      formals == IF known THEN p.functions[e.name].parameters ELSE <<>>
      Argument(k) ==
        LET a == e.args[k]
            formal == IF k <= Len(formals) THEN <<formals[k]>> ELSE <<>>
        IN All(<<IF formal # <<>> /\ Type(p, formals[k]) = "integer" THEN Write({<<"slot", formals[k]>>}, a) ELSE NoFacts,
                 IF IsPointer(p, a) THEN PointerFacts(p, a) ELSE NoFacts,
                 IF IsPointer(p, a) /\ formal # <<>> THEN Edge(<<"pointer", formals[k]>>, PointerKey(p, a)) ELSE NoFacts,
                 Scan(p, a, "argument")>>)
      mutable == {k \in DOMAIN e.args : IsPointer(p, e.args[k]) /\ ~(known /\ p.functions[e.name].const)}
  IN Plus(All([k \in DOMAIN e.args |-> Argument(k)]),
          [NoFacts EXCEPT !.calls = <<[callee |-> e.name, pointers |-> {PointerKey(p, e.args[k]) : k \in mutable}, fill |-> Fill(p, e)]>>])
Read(p, e, usage) ==
  LET keys == Targets(p, e)
      through == keys = {} /\ e.op \in {"index", "deref"}
  IN IF IsPointer(p, e) /\ ~IsArray(p, e) THEN ScanAddress(p, e)
     ELSE All(<<UsedAs(keys, usage), IF through THEN Plus([NoFacts EXCEPT !.loads = {<<PointerKey(p, e.args[1]), usage>>}], PointerFacts(p, e.args[1])) ELSE NoFacts,
                ScanAddress(p, e)>>)
Scan(p, e, usage) ==
  LET Each(kind) == All([k \in DOMAIN e.args |-> Scan(p, e.args[k], kind)])
  IN CASE e.op = "assign" -> All(<<Assign(p, e.name, e.args[1], e.args[2]), IF e.name = "Assign" THEN NoFacts ELSE Scan(p, e.args[1], "arithmetic"),
                                   Scan(p, e.args[2], IF e.name = "Assign" THEN "copy" ELSE "arithmetic"), ScanAddress(p, e.args[1])>>)
       [] e.op = "step" -> Plus(Write(Targets(p, e.args[1]), Unknown), Each("arithmetic"))
       [] e.op = "address" /\ e.args[1].op = "name" /\ e.args[1].name \in DOMAIN p.functions -> [NoFacts EXCEPT !.taken = {e.args[1].name}]
       [] e.op = "address" -> Plus(UsedAs(Targets(p, e.args[1]), "address"), ScanAddress(p, e.args[1]))
       [] e.op = "name" /\ e.name \in DOMAIN p.functions -> [NoFacts EXCEPT !.taken = {e.name}]
       [] e.op \in {"name", "index", "deref"} -> Read(p, e, usage)
       [] e.op = "call" -> Plus(Call(p, e), UsedAs({<<"return", e.name>>} \cap Slots(p), usage))
       [] e.op = "unary" -> Each(IF e.name = "!" THEN "truth" ELSE "arithmetic")
       [] e.op = "binary" -> Each(Purpose(e, usage))
       [] e.op = "conditional" -> All(<<Scan(p, e.args[1], "truth"), Scan(p, e.args[2], usage), Scan(p, e.args[3], usage)>>)
       [] e.op = "if" -> Each("truth")
       [] e.op = "switch" -> Each("switch")
       [] OTHER -> Each(usage)

\* A return writes its function's result; a bare one leaves it unknown.
Return(p, f, e) ==
  LET result == {<<"return", f>>} \cap Slots(p)
  IN IF e.args = <<>> THEN Write(result, Unknown)
     ELSE All(<<IF result # {} THEN Write(result, e.args[1])
                ELSE IF IsPointer(p, e.args[1]) THEN Plus(Edge(<<"pointer return", f>>, PointerKey(p, e.args[1])), PointerFacts(p, e.args[1])) ELSE NoFacts,
                Scan(p, e.args[1], "return")>>)
FunctionFacts(p, f) ==
  LET body == p.functions[f].body
      pointers == {x \in Range(p.functions[f].parameters) : Type(p, x) \in PointerTypes}
      Pointee(x) == IF Type(p, x) = "pointer" THEN {<<"pointee", x>>} ELSE FieldSlots(p)
  IN All(<<[NoFacts EXCEPT !.targets = UNION {{<<"pointer", x>>} \X Pointee(x) : x \in pointers}],
           IF p.functions[f].defined /\ p.functions[f].short THEN Write({<<"return", f>>} \cap Slots(p), Unknown) ELSE NoFacts>>
         \o IF p.functions[f].defined THEN [n \in DOMAIN body |-> IF body[n].op = "return" THEN Return(p, f, body[n]) ELSE Scan(p, body[n], "value")] ELSE <<>>)
\* Static storage starts at zero; a list gives its entries and zero to what it leaves out.
Initialize(p, x) ==
  LET o == p.objects[x]
      zero == o.role = "global"
      AtField(n) == IF o.initial[n].field # "" THEN o.initial[n].field ELSE p.fields[n]
      given == {AtField(n) : n \in DOMAIN o.initial}
  IN CASE o.role = "parameter" \/ o.role = "field" -> NoFacts
       [] o.type \in PointerTypes -> Plus([NoFacts EXCEPT !.targets = IF o.type = "pointer" THEN {} ELSE {<<"pointer", x>>} \X FieldSlots(p)],
                                          IF o.initial = <<>> THEN NoFacts ELSE Assign(p, "Assign", Name(x), o.initial[1].value))
       [] o.initial = <<>> -> IF zero THEN Write(Targets(p, Name(x)), Constant(0)) ELSE NoFacts
       [] o.type = "record" -> Plus(All([n \in DOMAIN o.initial |-> Write({<<"slot", AtField(n)>>}, o.initial[n].value)]),
                                    Write({<<"slot", f>> : f \in Range(p.fields) \ given}, Constant(0)))
       [] OTHER -> Plus(All([n \in DOMAIN o.initial |-> Write({<<"slot", x>>}, o.initial[n].value)]),
                        IF Len(o.initial) < o.extent THEN Write({<<"slot", x>>}, Constant(0)) ELSE NoFacts)
Extract(p) ==
  LET objects == Listed(DOMAIN p.objects)
      functions == Listed(DOMAIN p.functions)
      initial(x) == IF p.objects[x].initial = <<>> THEN NoFacts ELSE All([n \in DOMAIN p.objects[x].initial |-> Scan(p, p.objects[x].initial[n].value, "initialization")])
  IN Plus(All([n \in DOMAIN objects |-> Plus(Initialize(p, objects[n]), initial(objects[n]))]), All([n \in DOMAIN functions |-> FunctionFacts(p, functions[n])]))
Overlaps(p) == UNION {{<<a, b>> \in (v[1] \X v[2]) \cup (v[2] \X v[1]) : a # b} : v \in p.views}

(***************************************************************************)
(* Values.                                                                 *)
(***************************************************************************)
Boolean == {"zero", "one"}
Mask(n) == CASE n = 0 -> {"zero"} [] n = 1 -> {"one"} [] OTHER -> {"other"}
MembersOf(mask) == {n \in {0, 1} : Mask(n) \subseteq mask}
Vague(mask) == mask \cap {"other", "unknown"} # {}
VagueOf(mask) == {"unknown"} \cup (mask \cap {"other"})
Invert(mask) == IF mask = {"zero"} THEN {"one"} ELSE IF mask # {} /\ mask \cap {"zero", "unknown"} = {} THEN {"zero"} ELSE Boolean
Operated(operator, x, y) ==
  CASE operator = "Add" -> x + y [] operator = "Sub" -> x - y [] operator = "Mul" -> x * y [] operator = "Shl" -> x * (1 + y)
    [] operator = "And" -> IF x = 1 THEN y ELSE 0 [] operator \in {"Or", "Xor"} -> IF x = y THEN (IF operator = "Or" THEN x ELSE 0) ELSE 1
    [] operator = "Shr" -> IF y = 0 THEN x ELSE 0 [] operator = "Div" -> x [] operator = "Rem" -> 0
Binary(operator, left, right) ==
  IF left = {} \/ right = {} THEN {}
  ELSE IF Vague(left) \/ Vague(right) THEN VagueOf(left \cup right)
  ELSE IF operator \in {"Div", "Rem"} /\ "zero" \in right THEN {"unknown"}
  ELSE UNION {Mask(Operated(operator, x, y)) : x \in MembersOf(left), y \in MembersOf(right)}
Reached(pointers, key) == {t[2] : t \in {u \in pointers : u[1] = key}}
Get(values, key) == IF key \in DOMAIN values THEN values[key] ELSE {"unknown"}

RECURSIVE Evaluate(_, _, _, _)
Evaluate(p, e, values, pointers) ==
  LET Arg(k) == Evaluate(p, e.args[k], values, pointers)
      Through(pointer) == LET reached == Reached(pointers, pointer) IN IF reached = {} THEN {"unknown"} ELSE UNION {Get(values, key) : key \in reached}
  IN CASE e.op = "int" -> Mask(e.value)
       [] e.op = "name" -> Get(values, <<"slot", e.name>>)
       [] e.op \in {"slot", "pointee"} -> Get(values, <<e.op, e.name>>)
       [] e.op = "call" -> Get(values, <<"return", e.name>>)
       [] e.op = "index" /\ Targets(p, e) # {} -> UNION {Get(values, key) : key \in Targets(p, e)}
       [] e.op \in {"index", "deref"} -> Through(PointerKey(p, e.args[1]))
       [] e.op = "union" -> UNION {Arg(k) : k \in DOMAIN e.args}
       [] e.op = "cast" -> IF e.name = "bool" THEN (IF Arg(1) = {} THEN {} ELSE Boolean) ELSE Arg(1)
       [] e.op = "fill" -> IF Arg(1) = {"zero"} THEN {"zero"} ELSE IF Arg(1) = {"one"} THEN (IF e.value = 1 THEN {"one"} ELSE {"other"}) ELSE {"unknown"}
       [] e.op = "conditional" -> IF Arg(1) = {} THEN {} ELSE IF Arg(1) = {"one"} THEN Arg(2) ELSE IF Arg(1) = {"zero"} THEN Arg(3) ELSE Arg(2) \cup Arg(3)
       [] e.op = "unary" /\ e.name = "!" -> Invert(Arg(1))
       [] e.op = "unary" -> IF Vague(Arg(1)) THEN VagueOf(Arg(1)) ELSE UNION {Mask(IF e.name = "-" THEN 0 - n ELSE IF e.name = "~" THEN -1 - n ELSE n) : n \in MembersOf(Arg(1))}
       [] e.op = "binary" /\ e.name \in Comparisons \cup Logical -> Boolean
       [] e.op = "binary" /\ e.name = "Comma" -> Arg(2)
       [] e.op = "binary" /\ e.name = "And" /\ \E k \in {1, 2} : e.args[k] = Constant(1) -> Boolean
       [] e.op = "binary" -> Binary(e.name, Arg(1), Arg(2))
       [] e.op = "assign" /\ e.name = "Assign" -> Arg(2)
       [] e.op = "assign" -> IF Arg(1) = {} \/ Arg(2) = {} THEN {} ELSE VagueOf(Arg(1) \cup Arg(2))
       [] e.op = "step" -> VagueOf(Arg(1))
       [] OTHER -> {"unknown"}

(***************************************************************************)
(* The solver.                                                             *)
(***************************************************************************)
RECURSIVE Closed(_, _), Flow(_, _, _, _), Consumers(_, _, _)
Closed(pointers, edges) ==
  LET next == pointers \cup UNION {{e[1]} \X Reached(pointers, e[2]) : e \in edges}
  IN IF next = pointers THEN pointers ELSE Closed(next, edges)
Flow(p, writes, values, pointers) ==
  LET next == FoldLeft(LAMBDA known, w : [known EXCEPT ![w.target] = @ \cup Evaluate(p, w.value, known, pointers)], values, writes)
  IN IF next = values THEN values ELSE Flow(p, writes, next, pointers)
RECURSIVE CopiedSlots(_, _)
CopiedSlots(p, e) ==
  CASE e.op = "name" -> {<<"slot", e.name>>}
    [] e.op = "call" -> {<<"return", e.name>>}
    [] e.op \in {"slot", "pointee"} -> {<<e.op, e.name>>}
    [] e.op = "index" -> Targets(p, e)
    [] e.op \in {"cast", "union"} -> UNION {CopiedSlots(p, e.args[k]) : k \in DOMAIN e.args}
    [] OTHER -> {}
Numeric == {"arithmetic", "index", "switch", "numeric-comparison"}
Consumers(p, writes, known) ==
  LET next == known \cup UNION {CopiedSlots(p, w.value) : w \in {x \in Range(writes) : x.target \in known}}
  IN IF next = known THEN known ELSE Consumers(p, writes, next)

Distinct(s) == FoldLeft(LAMBDA kept, x : IF Contains(kept, x) THEN kept ELSE Append(kept, x), <<>>, s)
\* Reached through a pointer, handed to code without a body, or called from where nobody looks.
PointeeInputs(p, pointers) ==
  LET pointees == {k \in Slots(p) : k[1] = "pointee"}
      Inputs(k) == Reached(pointers, <<"pointer", k[2]>>) \ {k}
      Terms(k) == LET keys == Listed(Inputs(k)) IN [n \in DOMAIN keys |-> SlotTerm(keys[n])]
  IN Listed({[target |-> k, value |-> Term("union", "", 0, Terms(k))] : k \in {j \in pointees : Inputs(j) # {}}})
Stored(facts, pointers) ==
  FlattenSeq([n \in DOMAIN facts.stores |-> Listed({[target |-> k, value |-> facts.stores[n].value] : k \in Reached(pointers, facts.stores[n].target)})])
UnobservedIfUncalled(p, facts) ==
  {<<"slot", x>> : x \in {y \in UNION {Range(p.functions[f].parameters) : f \in DOMAIN p.functions \ {c.callee : c \in Range(facts.calls)}} : Type(p, y) = "integer"}}
Unobserved(p, facts) ==
  LET called == {c.callee : c \in Range(facts.calls)}
      unseen == {f \in DOMAIN p.functions : f \in facts.taken \/ f \notin called}
  IN {<<"slot", x>> : x \in {y \in UNION {Range(p.functions[f].parameters) : f \in unseen} : Type(p, y) = "integer"}}
FromCall(p, c, pointers) ==
  LET reached == UNION {Reached(pointers, k) : k \in c.pointers}
      Value(key) == IF c.fill = <<>> THEN Unknown ELSE Term("fill", "", SizeOf(p, key), c.fill)
  IN IF c.callee \in Defined(p) THEN <<>> ELSE Listed({[target |-> k, value |-> Value(k)] : k \in reached})
Overlapped(p, writes) ==
  LET written == {w.target : w \in Range(writes)}
  IN {o[2] : o \in {x \in Overlaps(p) : x[1] \in written}}
AsUnknown(keys) == Listed({[target |-> k, value |-> Unknown] : k \in keys})
WithoutBody(p) ==
  {k \in Slots(p) : IF k[1] = "return" THEN k[2] \notin Defined(p)
                    ELSE p.objects[k[2]].role = "parameter" /\ FunctionOf(p, k[2]) \notin Defined(p)}
Solve(p, facts) ==
  LET pointers == Closed(facts.targets, facts.edges)
      direct == Distinct(facts.writes) \o PointeeInputs(p, pointers) \o Stored(facts, pointers) \o AsUnknown(Unobserved(p, facts))
                \o FlattenSeq([n \in DOMAIN facts.calls |-> FromCall(p, facts.calls[n], pointers)])
      writes == direct \o AsUnknown(Overlapped(p, direct))
      bodiless == {k \in WithoutBody(p) : k[1] = "return"}
      flowed == Flow(p, writes, [k \in Slots(p) |-> IF k \in bodiless THEN {"unknown"} ELSE {}], pointers)
      empty == {k \in Slots(p) : flowed[k] = {}}
      uses == facts.uses \cup UNION {Reached(pointers, l[1]) \X {l[2]} : l \in facts.loads}
      consumers == {u[1] : u \in {v \in uses : v[2] \in Numeric}}
  IN [pointers |-> pointers, writes |-> Range(writes),
      values |-> IF empty = {} THEN flowed ELSE Flow(p, writes, [k \in Slots(p) |-> IF k \in empty THEN {"unknown"} ELSE flowed[k]], pointers),
      uses |-> uses \cup ((Consumers(p, writes, consumers) \ consumers) \X {"numeric-flow"})]

Observed(e) == (e.op = "int" /\ e.value \in {0, 1}) \/ (e.op = "unary" /\ e.name = "!") \/ (e.op = "binary" /\ e.name \in Comparisons \cup Logical)
\* marks is what the declaration alone says: [domain, home, bits].
Classification(p, solved, key, marks) ==
  LET value == solved.values[key]
      observed == \E w \in solved.writes : w.target = key /\ Observed(w.value)
  IN CASE marks.domain # "" -> "already-" \o marks.domain
       [] marks.home = "vendor/include" \/ key \in WithoutBody(p) -> "external-boundary"
       [] marks.home = "vendor" -> "vendored"
       [] "other" \in value -> "non-boolean"
       [] "unknown" \in value -> IF observed THEN "review-unknown-writers" ELSE "unknown"
       [] \E u \in solved.uses : u[1] = key /\ u[2] \in Numeric \cup {"numeric-flow"} -> "review-numeric-use"
       [] marks.bits -> "review-storage-conversion"
       [] value \in {{"zero"}, {"one"}} -> "review-single-value"
       [] OTHER -> "candidate"
=============================================================================
