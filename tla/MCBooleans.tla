----------------------------- MODULE MCBooleans -----------------------------
EXTENDS Booleans
(***************************************************************************)
(* Programs of one function that nobody else calls, "m", a function "f" of *)
(* an integer and a pointer, and functions without a body.                 *)
(***************************************************************************)
N(x) == Name(x)
Set(x, e) == Term("assign", "Assign", 0, <<x, e>>)
Op(o, a, b) == Term("binary", o, 0, <<a, b>>)
Not(e) == Term("unary", "!", 0, <<e>>)
Deref(e) == Term("deref", "", 0, <<e>>)
At(e, i) == Term("index", "", 0, <<e, i>>)
AddressOf(e) == Term("address", "", 0, <<e>>)
CallOf(f, args) == Term("call", f, 0, args)
Cond(a, b, c) == Term("conditional", "", 0, <<a, b, c>>)
One == Constant(1)
Thing(type, role, size, extent, initial) == [type |-> type, role |-> role, size |-> size, extent |-> extent, initial |-> initial]
Entry(e) == [field |-> "", value |-> e]
Global(type, initial) == Thing(type, "global", 2, 1, initial)
Formal(type) == Thing(type, "parameter", 2, 1, <<>>)
InField(role) == Thing("integer", role, 1, 1, <<>>)
Objects == [g |-> Global("integer", <<>>), h |-> Global("integer", <<Entry(One)>>), b |-> Thing("integer", "global", 1, 1, <<>>),
            v |-> Thing("array", "global", 2, 2, <<Entry(One)>>), t |-> Thing("integer", "local", 2, 1, <<>>),
            p |-> Global("pointer", <<>>), c |-> Thing("record", "global", 2, 1, <<[field |-> "y", value |-> One]>>), s |-> Global("record pointer", <<>>),
            x |-> InField("field"), y |-> InField("field"), u |-> InField("field"), w |-> InField("field"),
            a |-> Formal("integer"), q |-> Formal("pointer"), e |-> Formal("integer"), r |-> Formal("pointer")]
Function(defined, result, parameters, const, short, body) ==
  [defined |-> defined, result |-> result, parameters |-> parameters, const |-> const, short |-> short, body |-> body]
Program(main, body, short, const) ==
  [objects |-> Objects, fields |-> <<"x", "y">>, views |-> {<<{<<"slot", "u">>}, {<<"slot", "w">>}>>},
   functions |-> [m |-> Function(TRUE, "void", <<>>, FALSE, FALSE, main), f |-> Function(TRUE, "integer", <<"a", "q">>, FALSE, short, body),
                  k |-> Function(FALSE, "integer", <<"e", "r">>, const, FALSE, <<>>), l |-> Function(TRUE, "pointer", <<>>, FALSE, FALSE, <<Term("return", "", 0, <<Cond(N("t"), AddressOf(N("t")), N("p"))>>)>>)]]
Menu == <<Set(N("p"), AddressOf(N("g"))), Set(N("p"), AddressOf(At(N("p"), One))), Set(N("p"), Op("Add", N("v"), N("b"))), Set(N("p"), CallOf("l", <<>>)), Set(N("s"), AddressOf(N("c"))),
         Set(Deref(N("p")), Constant(2)), Set(At(N("p"), N("t")), N("h")), Set(N("g"), Deref(N("p"))), Set(N("g"), Op("Add", N("h"), N("b"))), Set(N("t"), Op("Sub", N("g"), One)),
         Set(N("b"), Not(N("g"))), Set(N("b"), Op("And", N("t"), One)), Set(N("t"), Cond(N("h"), N("b"), Constant(3))), Set(N("h"), Set(N("t"), N("g"))),
         Set(At(N("v"), N("g")), Op("LT", N("h"), Constant(2))), Term("assign", "Or", 0, <<N("b"), N("h")>>), Term("assign", "Add", 0, <<Deref(N("p")), One>>), Term("step", "++", 0, <<N("h")>>),
         Set(N("u"), One), Set(N("w"), Constant(0)), Set(N("x"), N("y")), Set(N("b"), CallOf("f", <<N("g"), AddressOf(N("t"))>>)), CallOf("f", <<Not(N("h")), N("p")>>),
         CallOf("k", <<N("g"), N("p")>>), Set(N("y"), CallOf("k", <<One, N("v")>>)), CallOf("memset", <<AddressOf(N("g")), N("h"), Constant(2)>>), CallOf("memset", <<AddressOf(N("c")), One, Constant(2)>>),
         CallOf("memset", <<N("s"), Constant(0), Constant(1)>>), Set(N("h"), Op("EQ", N("g"), One)), Term("if", "", 0, <<Op("GT", N("t"), N("b"))>>), Term("switch", "", 0, <<N("g")>>),
         Set(N("t"), Term("cast", "bool", 0, <<N("g")>>)), CallOf("register", <<AddressOf(N("f"))>>), Set(N("h"), Term("unary", "~", 0, <<N("b")>>))>>
Bodies == {<<>>, <<Set(Deref(N("q")), N("a"))>>, <<Term("return", "", 0, <<Deref(N("q"))>>)>>, <<Term("return", "", 0, <<Op("NE", N("a"), Constant(3))>>)>>,
           <<Term("return", "", 0, <<>>)>>, <<Term("return", "", 0, <<N("a")>>)>>}
ProgramInput(in) ==
  \E i, j, k \in DOMAIN Menu, body \in Bodies, short, const \in BOOLEAN :
    i <= j /\ j <= k /\ (short => const) /\ (const => i = j) /\ (body # <<>> => i = j) /\ in = <<<<Menu[i], Menu[j], Menu[k]>>, body, short, const>>

(***************************************************************************)
(* What the statements, in any order and any number of times, put where.   *)
(* A value is [n, via]: n modulo 4 and the slots it was copied through by  *)
(* name, call or cast.  Stored is every value that a slot holds, points    *)
(* every place that a pointer holds, counted the slots whose value is used *)
(* as a number.                                                            *)
(***************************************************************************)
Width == 4
Plain(n) == [n |-> n % Width, via |-> {}]
Anything == {Plain(n) : n \in 0 .. Width - 1}
Nothing == [values |-> {}, places |-> {}, stored |-> {}, points |-> {}, counted |-> {}]
And2(a, b) == [values |-> {}, places |-> {}, stored |-> a.stored \cup b.stored, points |-> a.points \cup b.points, counted |-> a.counted \cup b.counted]
Giving(world, values) == [world EXCEPT !.values = values, !.places = {}]
Joined(worlds) == FoldLeft(And2, Nothing, worlds)
Sources(values) == UNION {v.via : v \in values}
Held(state, key) == {[n |-> s[2].n, via |-> s[2].via \cup {key}] : s \in {t \in state.stored : t[1] = key}}
Kept(e, values) == IF e.op \in {"name", "call", "cast"} \/ (e.op = "index" /\ e.args[1] = N("v")) THEN values ELSE {Plain(v.n) : v \in values}
BitOr(x, y) == CHOOSE z \in 0 .. 3 : z % 2 = (IF 1 \in {x % 2, y % 2} THEN 1 ELSE 0) /\ z \div 2 = (IF 1 \in {x \div 2, y \div 2} THEN 1 ELSE 0)
Compute(o, x, y) == CASE o = "Add" -> x + y [] o = "Sub" -> x - y + Width [] o = "And" -> x % 2 [] o = "Or" -> BitOr(x, y)
                      [] OTHER -> IF (CASE o = "LT" -> x < y [] o = "GT" -> x > y [] o = "EQ" -> x = y [] o = "NE" -> x # y) THEN 1 ELSE 0
Truth(o, args) == o \in {"EQ", "NE"} /\ \E k \in {1, 2} : args[k] \in {Constant(0), One}

RECURSIVE Ran(_, _, _)
Ran(p, state, e) ==
  LET R(k) == Ran(p, state, e.args[k])
      Into(keys, values) == [Nothing EXCEPT !.stored = keys \X values]
      Place(l) == CASE l.op = "name" -> {<<"slot", l.name>>} [] l.op = "index" /\ l.args[1] = N("v") -> {<<"slot", "v">>} [] OTHER -> Ran(p, state, l.args[1]).places
      Counting(ks) == [Nothing EXCEPT !.counted = UNION {Sources(R(k).values) : k \in ks}]
      Combined == {Plain(Compute(e.name, x.n, y.n)) : x \in R(1).values, y \in R(2).values}
  IN CASE e.op = "int" -> Giving(Nothing, {Plain(e.value)})
       [] IsObject(p, e) /\ Type(p, e.name) \in PointerTypes -> [Nothing EXCEPT !.places = {t[2] : t \in {u \in state.points : u[1] = <<"pointer", e.name>>}}]
       [] IsArray(p, e) -> [Nothing EXCEPT !.places = {<<"slot", "v">>}]
       [] e.op = "name" -> Giving(Nothing, IF e.name \in DOMAIN p.objects THEN Held(state, <<"slot", e.name>>) ELSE {})
       [] e.op = "address" /\ e.args[1] = N("c") -> [Nothing EXCEPT !.places = FieldSlots(p)]
       [] e.op = "address" -> [Nothing EXCEPT !.places = IF e.args[1].name \in DOMAIN p.functions THEN {} ELSE Place(e.args[1])]
       [] e.op = "deref" -> Giving(R(1), UNION {Held(state, l) : l \in R(1).places})
       [] e.op = "index" -> Giving(Joined(<<R(1), R(2), Counting({2})>>), UNION {Held(state, l) : l \in Place(e)})
       [] e.op = "unary" /\ e.name = "!" -> Giving(R(1), {Plain(IF v.n = 0 THEN 1 ELSE 0) : v \in R(1).values})
       [] e.op = "unary" -> Giving(And2(R(1), Counting({1})), {Plain(Width - 1 - v.n) : v \in R(1).values})
       [] e.op = "cast" -> Giving(R(1), {[v EXCEPT !.n = IF @ = 0 THEN 0 ELSE 1] : v \in R(1).values})
       [] e.op = "binary" /\ IsPointer(p, e) -> [Joined(<<R(1), R(2), Counting({2})>>) EXCEPT !.places = R(1).places]
       [] e.op = "binary" /\ Truth(e.name, e.args) -> Giving(And2(R(1), R(2)), Combined)
       [] e.op = "binary" -> Giving(Joined(<<R(1), R(2), Counting({1, 2})>>), Combined)
       [] e.op = "conditional" -> LET arms == {k \in {2, 3} : \E v \in R(1).values : (v.n # 0) = (k = 2)}
                                  IN [Joined(<<R(1), R(2), R(3)>>) EXCEPT !.values = UNION {R(k).values : k \in arms}, !.places = UNION {R(k).places : k \in arms}]
       [] e.op = "step" -> Joined(<<R(1), Counting({1}), Into(Place(e.args[1]), {Plain(v.n + 1) : v \in R(1).values})>>)
       [] e.op = "assign" /\ IsPointer(p, e.args[1]) -> And2(R(2), [Nothing EXCEPT !.points = {<<"pointer", e.args[1].name>>} \X R(2).places])
       [] e.op = "assign" /\ e.name = "Assign" -> Giving(Joined(<<R(1), R(2), Into(Place(e.args[1]), Kept(e.args[2], R(2).values))>>), {Plain(v.n) : v \in R(2).values})
       [] e.op = "assign" -> Joined(<<R(1), R(2), Counting({1, 2}), Into(Place(e.args[1]), Combined)>>)
       [] e.op = "switch" -> And2(R(1), Counting({1}))
       [] e.op = "call" /\ e.name = "memset" -> LET whole == IF e.args[1].op = "address" THEN p.objects[e.args[1].args[1].name] ELSE p.objects[e.args[1].name]
                                                    Bytes(key, n) == IF n = 0 \/ p.objects[key[2]].size = 1 THEN n ELSE 2
                                                    filled == {<<key, Plain(Bytes(key, v.n))>> : key \in R(1).places, v \in R(2).values}
                                                    partly == R(1).places \X Anything
                                                IN Joined(<<R(1), R(2), [Nothing EXCEPT !.stored = IF e.args[3].value = whole.size * whole.extent THEN filled ELSE partly]>>)
       [] e.op = "call" /\ e.name \in DOMAIN p.functions ->
            LET callee == p.functions[e.name]
                Passed(k) == IF IsPointer(p, e.args[k]) THEN [Nothing EXCEPT !.points = {<<"pointer", callee.parameters[k]>>} \X R(k).places]
                             ELSE Into({<<"slot", callee.parameters[k]>>}, Kept(e.args[k], R(k).values))
                reached == UNION {R(k).places : k \in DOMAIN e.args}
            IN [Joined([k \in DOMAIN e.args |-> And2(R(k), Passed(k))] \o <<IF callee.defined \/ callee.const THEN Nothing ELSE Into(reached, Anything)>>) EXCEPT
                  !.values = IF callee.defined THEN Held(state, <<"return", e.name>>) ELSE Anything,
                  !.places = {t[2] : t \in {u \in state.points : u[1] = <<"pointer return", e.name>>}}]
       [] OTHER -> Joined([k \in DOMAIN e.args |-> R(k)])
Statement(p, state, f, e) ==
  LET target == <<"return", f>>
      Returned(result) ==
        And2(result, [Nothing EXCEPT !.stored = {target} \X Kept(e.args[1], result.values), !.points = {<<"pointer return", f>>} \X result.places])
  IN CASE e.op # "return" -> Ran(p, state, e)
       [] e.args = <<>> -> [Nothing EXCEPT !.stored = {target} \X Anything]
       [] OTHER -> Returned(Ran(p, state, e.args[1]))
Everything(p, state) ==
  LET Body(f) == IF p.functions[f].defined THEN p.functions[f].body ELSE <<>>
  IN Joined(FlattenSeq([k \in 1 .. 3 |-> LET f == <<"m", "f", "l">>[k] IN [n \in DOMAIN Body(f) |-> Statement(p, state, f, Body(f)[n])]]))
After1(state, step) ==
  LET seen(x) == {<<"slot", x>>} \cap {t[1] : t \in step.stored} # {}
      shared == UNION {{<<"slot", o[2]>>} \X Anything : o \in {v \in {<<"u", "w">>, <<"w", "u">>} : seen(v[1])}}
  IN [stored |-> state.stored \cup step.stored \cup shared, points |-> state.points \cup step.points, counted |-> state.counted \cup step.counted]
RECURSIVE Executed(_, _)
Executed(p, state) ==
  LET On(next) == IF next = state THEN state ELSE Executed(p, next)
  IN On(After1(state, Everything(p, state)))
Begun(p) ==
  LET zeroed == {"g", "b", "v", "x"}
      calls == UNION {{e \in {p.functions["m"].body[n], p.functions["m"].body[n].args[2]} : e.op = "call"} : n \in {i \in DOMAIN p.functions["m"].body : Len(p.functions["m"].body[i].args) > 1}}
      given == {c \in calls : c.name = "f"}
      foreign == given = {} \/ CallOf("register", <<AddressOf(N("f"))>>) \in Range(p.functions["m"].body)
  IN [stored |-> {<<<<"slot", x>>, Plain(0)>> : x \in zeroed} \cup ({<<"slot", "h">>, <<"slot", "v">>, <<"slot", "y">>} \X {Plain(1)})
                 \cup (IF foreign THEN {<<"slot", "a">>} \X Anything ELSE {}) \cup (IF p.functions["f"].short THEN {<<"return", "f">>} \X Anything ELSE {}),
      points |-> {}, counted |-> {}]
Sound(p, solved, run) ==
  LET Marks == [domain |-> "", home |-> "src", bits |-> FALSE]
      Class(key) == Classification(p, solved, key, Marks)
  IN /\ \A s \in run.stored : Mask(s[2].n) \subseteq solved.values[s[1]] \/ "unknown" \in solved.values[s[1]]
     /\ run.points \subseteq solved.pointers
     /\ \A t \in run.points, s \in run.stored : t[1] = <<"pointer", "q">> /\ s[1] = t[2] => Mask(s[2].n) \subseteq solved.values[<<"pointee", "q">>] \/ "unknown" \in solved.values[<<"pointee", "q">>]
     /\ \A key \in Slots(p) : Class(key) \in {"candidate", "review-single-value"} => key \notin run.counted /\ \A s \in run.stored : s[1] = key => s[2].n \in {0, 1}
DomainsAreSound(in) ==
  LET Checked(p) == Sound(p, Solve(p, Extract(p)), Executed(p, Begun(p)))
  IN Checked(Program(in[1], in[2], in[3], in[4]))
=============================================================================
