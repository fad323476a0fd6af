------------------------------ MODULE GraphQL -------------------------------
(*****************************************************************************)
(* The gqlparser package: schema, query, validation and execution, then      *)
(* the data loader. The parts share no state; each has its own               *)
(* specification.                                                            *)
(*****************************************************************************)
EXTENDS Integers, Sequences, FiniteSets, SequencesExt

(***************************************************************************)
(* gqlparser from the text of a query to its result: the recursive descent *)
(* parser over tokens (the scanner is left out, so a name is one token     *)
(* whatever it starts with), the validator and the executor.  A behaviour  *)
(* is one call of Execute for one document, printed to tokens.             *)
(***************************************************************************)

CONSTANTS
    NameTok,        \* name tokens; "on", "query" and "mutation" are names too
    MaxDepth,
    Inner,          \* names of fields tried below the root
    Failing         \* sets of <<type, field>> whose resolver fails, to try

VARIABLES
    sdl,            \* the order of the definitions
    schema,         \* Schema: types, and the root type of each operation type
    op, given, failing,
    doc,            \* parseDocument's answer
    result,         \* what Execute returned, and the calls of resolvers it made
    phase

queryVars == <<sdl, schema, op, given, failing, doc, result, phase>>

-----------------------------------------------------------------------------
(* Values of arguments, types and selections *)
Val(k, n, l) == [k |-> k, n |-> n, l |-> l]
Null == Val("null", "", <<>>)
Named(types, n) == [kind |-> IF n \in DOMAIN types THEN types[n].kind ELSE "object", name |-> n, of |-> <<>>]
Wrap(kind, t) == [kind |-> kind, name |-> "", of |-> <<t>>]
Field(alias, name, args, sel) == [kind |-> "field", alias |-> alias, name |-> name, args |-> args, sel |-> sel]
Selection(kind, name, sel) == [kind |-> kind, alias |-> "", name |-> name, args |-> <<>>, sel |-> sel]
NoDefault == <<>>

With(f, k, v) == [x \in DOMAIN f \cup {k} |-> IF x = k THEN v ELSE f[x]]

RECURSIVE Unwrap(_)
Unwrap(t) == IF t.kind \in {"nonnull", "list"} THEN Unwrap(t.of[1]) ELSE t

-----------------------------------------------------------------------------
(* The schema text, definition by definition: a first pass registers the   *)
(* names, so that a type can be referred to before its definition.         *)
Scalars == {"Int", "String", "Boolean"}

Prescan(defs) ==
    LET named(d) == {defs[i].name : i \in {j \in DOMAIN defs : defs[j].d = d}}
    IN [n \in Scalars \cup named("scalar") \cup named("type") |->
           [kind |-> IF n \in Scalars \cup named("scalar") THEN "scalar" ELSE "object", fields |-> <<>>]]

RECURSIVE Kinds(_, _)
Kinds(types, t) == IF t.kind \in {"nonnull", "list"} THEN Wrap(t.kind, Kinds(types, t.of[1])) ELSE Named(types, t.name)

parseField(types, f) ==
    [type |-> Kinds(types, f.type), args |-> [a \in DOMAIN f.args |-> [f.args[a] EXCEPT !.type = Kinds(types, f.args[a].type)]]]

(* A type defined again gets the fields of both definitions. *)
parseObjectType(s, d) ==
    LET fields == [f \in DOMAIN d.fields |-> parseField(s.types, d.fields[f])]
        known == d.name \in DOMAIN s.types
        old == IF known THEN s.types[d.name] ELSE [kind |-> "object", fields |-> <<>>]
        both == [f \in DOMAIN old.fields \cup DOMAIN fields |-> IF f \in DOMAIN fields THEN fields[f] ELSE old.fields[f]]
    IN [s EXCEPT !.types = With(s.types, d.name, [old EXCEPT !.fields = both])]

parseSchemaDefinition(s, d) ==
    IF d.name \notin DOMAIN s.types THEN s
    ELSE [s EXCEPT !.types[d.name].kind = d.root, !.roots = With(s.roots, d.root, d.name)]

parseDefinition(s, d) ==
    CASE d.d = "type" -> parseObjectType(s, d)
      [] d.d = "schema" -> parseSchemaDefinition(s, d)
      [] OTHER -> s

RECURSIVE parseDefinitions(_, _)
parseDefinitions(s, defs) == IF defs = <<>> THEN s ELSE parseDefinitions(parseDefinition(s, Head(defs)), Tail(defs))
SchemaOf(defs) == parseDefinitions([types |-> Prescan(defs), roots |-> <<>>], defs)

-----------------------------------------------------------------------------
(* The parser.  Reads(t)[<<rule, i>>] is what the rule's method does on the *)
(* tokens t at position i: whether it succeeds, the position behind what it *)
(* read, and what it read.  A comma behind an element may be left out, and  *)
(* a name given twice has its last value.                                   *)
Got(v, i) == [ok |-> TRUE, at |-> i, val |-> v]
Fail == [ok |-> FALSE, at |-> 0, val |-> <<>>]
Peek(t, i) == IF i <= Len(t) THEN t[i] ELSE "end"
SkipComma(t, i) == IF Peek(t, i) = "," THEN i + 1 ELSE i
parseName(t, i) == IF Peek(t, i) \in NameTok THEN Got(t[i], i + 1) ELSE Fail
Make(r, k, n) == IF r.ok THEN Got(Val(k, n, r.val), r.at) ELSE Fail
Prefix(v, rest) == IF rest.ok THEN Got(<<v>> \o rest.val, rest.at) ELSE Fail
Keep(p, rest) == IF rest.ok THEN Got(IF p[1] \in DOMAIN rest.val THEN rest.val ELSE With(rest.val, p[1], p[2]), rest.at) ELSE Fail
NonNull(t, base) == IF base.ok /\ Peek(t, base.at) = "!" THEN Got(Wrap("nonnull", base.val), base.at + 1) ELSE base
MapRule == {"args", "object"}
Closes == [args |-> ")", object |-> "}", list |-> "]", defs |-> ")", sels |-> "}"]
Reads(t) ==
    LET R[x \in {"value", "list", "object", "args", "pair", "type", "def", "defs", "sel", "field", "sels", "op", "doc"} \X Nat] ==
        LET i == x[2]
            c == Peek(t, i)
            name == parseName(t, i)
            next == parseName(t, i + 1)
        IN CASE x[1] = "value" ->
                  (CASE c = "$" -> IF next.ok THEN Got(Val("var", next.val, <<>>), next.at) ELSE Fail
                     [] c \in {"true", "false"} -> Got(Val("bool", c, <<>>), i + 1)
                     [] c = "null" -> Got(Null, i + 1)
                     [] c = "[" -> Make(R[<<"list", i + 1>>], "list", "")
                     [] c = "{" -> Make(R[<<"object", i + 1>>], "obj", "")
                     [] c = "1" -> Got(Val("int", "1", <<>>), i + 1)
                     [] c \in NameTok -> Got(Val("str", c, <<>>), i + 1)
                     [] OTHER -> Fail)
             [] x[1] = "pair" ->
                  LET v == R[<<"value", name.at + 1>>]
                  IN IF name.ok /\ Peek(t, name.at) = ":" /\ v.ok THEN Got(<<name.val, v.val>>, v.at) ELSE Fail
             [] x[1] \in DOMAIN Closes ->
                  LET e == R[<<CASE x[1] = "list" -> "value" [] x[1] \in MapRule -> "pair" [] x[1] = "defs" -> "def" [] OTHER -> "sel", i>>]
                      rest == R[<<x[1], IF x[1] = "sels" THEN e.at ELSE SkipComma(t, e.at)>>]
                  IN IF c = Closes[x[1]] THEN Got(<<>>, i + 1)
                     ELSE IF ~ e.ok THEN Fail
                     ELSE IF x[1] \in MapRule THEN Keep(e.val, rest) ELSE Prefix(e.val, rest)
             [] x[1] = "type" ->
                  LET inner == R[<<"type", i + 1>>]
                      base == IF c # "[" THEN IF name.ok THEN Got(Named(schema.types, name.val), name.at) ELSE Fail
                              ELSE IF inner.ok /\ Peek(t, inner.at) = "]" THEN Got(Wrap("list", inner.val), inner.at + 1) ELSE Fail
                  IN NonNull(t, base)
             [] x[1] = "def" ->
                  LET type == R[<<"type", next.at + 1>>]
                      dflt == R[<<"value", type.at + 1>>]
                  IN IF ~ (c = "$" /\ next.ok /\ Peek(t, next.at) = ":" /\ type.ok) THEN Fail
                     ELSE IF Peek(t, type.at) # "=" THEN Got([name |-> next.val, type |-> type.val, dflt |-> NoDefault], type.at)
                     ELSE IF ~ dflt.ok THEN Fail
                     ELSE Got([name |-> next.val, type |-> type.val, dflt |-> IF dflt.val = Null THEN NoDefault ELSE <<dflt.val>>], dflt.at)
             [] x[1] = "sel" ->
                  LET cond == parseName(t, i + 2)
                      sels == R[<<"sels", cond.at + 1>>]
                  IN IF c # "..." THEN R[<<"field", i>>]
                     ELSE IF Peek(t, i + 1) # "on" THEN IF next.ok THEN Got(Selection("spread", next.val, <<>>), next.at) ELSE Fail
                     ELSE IF cond.ok /\ Peek(t, cond.at) = "{" /\ sels.ok THEN Got(Selection("fragment", cond.val, sels.val), sels.at)
                     ELSE Fail
             [] x[1] = "field" ->
                  LET aliased == name.ok /\ Peek(t, name.at) = ":"
                      nm == IF aliased THEN parseName(t, name.at + 1) ELSE name
                      args == IF nm.ok /\ Peek(t, nm.at) = "(" THEN R[<<"args", nm.at + 1>>] ELSE Got(<<>>, nm.at)
                      sels == IF args.ok /\ Peek(t, args.at) = "{" THEN R[<<"sels", args.at + 1>>] ELSE Got(<<>>, args.at)
                  IN IF nm.ok /\ args.ok /\ sels.ok
                     THEN Got(Field(IF aliased THEN name.val ELSE "", nm.val, args.val, sels.val), sels.at) ELSE Fail
             [] x[1] = "op" ->
                  LET typed == c \in {"query", "mutation"}
                      j == IF ~ typed THEN i ELSE IF next.ok THEN i + 2 ELSE i + 1
                      defs == IF Peek(t, j) = "(" THEN R[<<"defs", j + 1>>] ELSE Got(<<>>, j)
                      sels == R[<<"sels", defs.at + 1>>]
                  IN IF (typed \/ c = "{") /\ defs.ok /\ Peek(t, defs.at) = "{" /\ sels.ok /\ sels.val # <<>>
                     THEN Got([type |-> IF typed THEN c ELSE "query", defs |-> defs.val, sel |-> sels.val], sels.at) ELSE Fail
             [] x[1] = "doc" ->
                  LET o == R[<<"op", i>>]
                  IN IF i > Len(t) THEN Got(<<>>, i) ELSE IF o.ok THEN Prefix(o.val, R[<<"doc", o.at>>]) ELSE Fail
    IN R

parseDocument(t) == IF t = <<>> THEN Fail ELSE Reads(t)[<<"doc", 1>>]

-----------------------------------------------------------------------------
(* The tokens of a document, the way queries are written in the docs *)
RECURSIVE TypeTokens(_), ValueTokens(_), SelectionTokens(_)
TypeTokens(t) == CASE t.kind = "nonnull" -> Append(TypeTokens(t.of[1]), "!")
                   [] t.kind = "list" -> <<"[">> \o TypeTokens(t.of[1]) \o <<"]">>
                   [] OTHER -> <<t.name>>
Keyed(f, Op(_)) == FlattenSeq([j \in 1 .. Cardinality(DOMAIN f) |->
                       LET n == SetToSeq(DOMAIN f)[j] IN <<n, ":">> \o Op(f[n]) \o <<",">>])
ValueTokens(v) == CASE v.k = "var" -> <<"$", v.n>>
                    [] v.k = "null" -> <<"null">>
                    [] v.k = "list" -> <<"[">> \o FlattenSeq([j \in DOMAIN v.l |-> Append(ValueTokens(v.l[j]), ",")]) \o <<"]">>
                    [] v.k = "obj" -> <<"{">> \o Keyed(v.l, ValueTokens) \o <<"}">>
                    [] OTHER -> <<v.n>>
SelectionTokens(s) ==
    LET inner == IF s.sel = <<>> THEN <<>> ELSE <<"{">> \o FlattenSeq([j \in DOMAIN s.sel |-> SelectionTokens(s.sel[j])]) \o <<"}">>
    IN CASE s.kind = "spread" -> <<"...", s.name>>
         [] s.kind = "fragment" -> <<"...", "on", s.name>> \o inner
         [] OTHER -> (IF s.alias = "" THEN <<>> ELSE <<s.alias, ":">>) \o <<s.name>>
                     \o (IF DOMAIN s.args = {} THEN <<>> ELSE <<"(">> \o Keyed(s.args, ValueTokens) \o <<")">>) \o inner
DefTokens(d) == <<"$", d.name, ":">> \o TypeTokens(d.type) \o (IF d.dflt = NoDefault THEN <<>> ELSE <<"=">> \o ValueTokens(d.dflt[1]))
OperationTokens(o) ==
    <<o.type>> \o (IF o.defs = <<>> THEN <<>> ELSE <<"(">> \o FlattenSeq([j \in DOMAIN o.defs |-> Append(DefTokens(o.defs[j]), ",")]) \o <<")">>)
    \o <<"{">> \o FlattenSeq([j \in DOMAIN o.sel |-> SelectionTokens(o.sel[j])]) \o <<"}">>
DocumentTokens(d) == FlattenSeq([j \in DOMAIN d |-> OperationTokens(d[j])])

-----------------------------------------------------------------------------
(* The validator; only whether there are errors matters. *)
IsObject(t) == t.kind \in {"object", "query", "mutation"}

RECURSIVE isVariableTypeCompatible(_, _)
isVariableTypeCompatible(expected, variable) ==
    LET v == IF variable.kind = "nonnull" /\ expected.kind # "nonnull" THEN variable.of[1] ELSE variable
        both == expected.kind = "nonnull"
        e1 == IF both THEN expected.of[1] ELSE expected
        v1 == IF both THEN v.of[1] ELSE v
    IN /\ both => v.kind = "nonnull"
       /\ IF e1.kind = "list" /\ v1.kind = "list" THEN isVariableTypeCompatible(e1.of[1], v1.of[1]) ELSE e1.name = v1.name

ScalarOf == [Int |-> "int", String |-> "str", Boolean |-> "bool"]

RECURSIVE validateArgumentValue(_, _, _)
validateArgumentValue(type, v, vt) ==
    LET t == IF type.kind = "nonnull" THEN type.of[1] ELSE type
    IN IF v.k = "var" THEN v.n \in DOMAIN vt /\ isVariableTypeCompatible(type, vt[v.n])
       ELSE IF v = Null THEN type.kind # "nonnull"
       ELSE CASE t.kind = "list" -> v.k = "list" /\ \A i \in DOMAIN v.l : validateArgumentValue(t.of[1], v.l[i], vt)
              [] t.kind \in {"scalar", "object"} -> t.name \in DOMAIN ScalarOf => v.k = ScalarOf[t.name]
              [] OTHER -> TRUE

Required(arg) == arg.type.kind = "nonnull" /\ ~ arg.dflt

validateArguments(field, s, vt) ==
    /\ \A a \in DOMAIN field.args : Required(field.args[a]) =>
           a \in DOMAIN s.args /\ (s.args[a].k = "var" => s.args[a].n \in DOMAIN vt /\ vt[s.args[a].n].kind = "nonnull")
    /\ \A a \in DOMAIN s.args : a \in DOMAIN field.args /\ validateArgumentValue(field.args[a].type, s.args[a], vt)

RECURSIVE validateSelectionSet(_, _, _, _)
validateField(types, parent, s, vt, depth) ==
    IF s.name \notin DOMAIN parent.fields THEN s.name = "__typename"
    ELSE LET field == parent.fields[s.name]
             inner == Unwrap(field.type).name
         IN /\ validateArguments(field, s, vt)
            /\ s.sel # <<>> => /\ inner \in DOMAIN types
                               /\ validateSelectionSet(types, types[inner], <<s.sel, vt>>, depth + 1)

validateSelectionSet(types, parent, what, depth) ==
    LET sel == what[1]  vt == what[2]
    IN IF depth > MaxDepth THEN FALSE
       ELSE IF sel = <<>> THEN ~ (IsObject(parent) /\ DOMAIN parent.fields # {})
       ELSE /\ IsObject(parent)
            /\ \A i \in DOMAIN sel :
                   CASE sel[i].kind = "field" -> validateField(types, parent, sel[i], vt, depth)
                     [] sel[i].kind = "fragment" -> /\ sel[i].name \in DOMAIN types
                                                   /\ validateSelectionSet(types, types[sel[i].name], <<sel[i].sel, vt>>, depth + 1)
                     [] OTHER -> FALSE

validateOperation(o) ==
    LET names == {o.defs[i].name : i \in DOMAIN o.defs}
        last(n) == CHOOSE i \in DOMAIN o.defs : o.defs[i].name = n /\ \A j \in DOMAIN o.defs : o.defs[j].name = n => j <= i
        vt == [n \in names |-> Kinds(schema.types, o.defs[last(n)].type)]
    IN /\ o.type \in DOMAIN schema.roots
       /\ validateSelectionSet(schema.types, schema.types[schema.roots[o.type]], <<o.sel, vt>>, 0)

validateVariables(o) ==
    \A i \in DOMAIN o.defs :
        o.defs[i].type.kind = "nonnull" /\ o.defs[i].dflt = NoDefault
        => o.defs[i].name \in DOMAIN given /\ given[o.defs[i].name] # Null

-----------------------------------------------------------------------------
(* The executor.  A result is a map from response names to the values it   *)
(* may hold: fields of one level run concurrently and the last to end wins *)
(* a name they share.  Defaults of variables are known at the root only.   *)
resolveArguments(args, defs) ==
    LET dflt(n) == {defs[i].dflt[1] : i \in {j \in DOMAIN defs : defs[j].name = n /\ defs[j].dflt # NoDefault}}
        bound == {a \in DOMAIN args : args[a].k # "var" \/ args[a].n \in DOMAIN given \/ dflt(args[a].n) # {}}
    IN [a \in bound |-> IF args[a].k # "var" THEN args[a]
                        ELSE IF args[a].n \in DOMAIN given THEN given[args[a].n] ELSE CHOOSE d \in dflt(args[a].n) : TRUE]

Nil == [k |-> "nil", l |-> <<>>]
Map(l) == [k |-> "map", l |-> l]
ResponseName(s) == IF s.alias = "" THEN s.name ELSE s.alias
FieldsOf(sel) == SelectSeq(sel, LAMBDA s : s.kind = "field")
Done(val, calls, failed) == [val |-> val, calls |-> calls, failed |-> failed]

getFieldFromParent(parent, name) == IF parent.k = "obj" /\ name \in DOMAIN parent.l THEN parent.l[name] ELSE Nil

RECURSIVE executeObject(_, _, _)

Calls(rs) == UNION {rs[i].calls : i \in DOMAIN rs}
Failed(rs) == \E i \in DOMAIN rs : rs[i].failed
executeList(rs) == Done([k |-> "list", l |-> [i \in DOMAIN rs |-> rs[i].val]], Calls(rs), Failed(rs))
IsList(type) == type.kind = "list" \/ (type.kind = "nonnull" /\ type.of[1].kind = "list")

executeSelectionSetOnValue(type, sel, v) ==
    IF ~ IsList(type) THEN executeObject(Unwrap(type).name, sel, v)
    ELSE IF v.k # "list" THEN Done(Nil, {}, TRUE)
    ELSE executeList([i \in DOMAIN v.l |-> executeObject(Unwrap(type).name, sel, v.l[i])])

After(call, r) == Done(r.val, r.calls \cup {call}, r.failed)
executeField(ty, s, v, args) ==
    IF <<ty, s.name>> \in failing THEN Done(Nil, {[type |-> ty, field |-> s.name, args |-> args]}, TRUE)
    ELSE After([type |-> ty, field |-> s.name, args |-> args],
               IF s.sel = <<>> \/ v = Nil THEN Done(v, {}, FALSE)
               ELSE executeSelectionSetOnValue(schema.types[ty].fields[s.name].type, s.sel, v))

(* The results of the fields of one level by response name *)
Collect(fs, rs) ==
    Done([n \in {ResponseName(fs[i]) : i \in DOMAIN fs} |-> {rs[i].val : i \in {j \in DOMAIN fs : ResponseName(fs[j]) = n}}],
         Calls(rs), Failed(rs))
Level(ty, sel, parent, defs) ==
    Collect(FieldsOf(sel), [i \in DOMAIN FieldsOf(sel) |->
        executeField(ty, FieldsOf(sel)[i], getFieldFromParent(parent, FieldsOf(sel)[i].name), resolveArguments(FieldsOf(sel)[i].args, defs))])

(* Fields first, then the inline fragments, whatever the type of the value  *)
(* is; a fragment replaces the names it has.                                *)
Replace(level, rs) ==
    LET over(n) == {i \in DOMAIN rs : n \in DOMAIN rs[i].val.l}
    IN Done(Map([n \in DOMAIN level.val \cup UNION {DOMAIN rs[i].val.l : i \in DOMAIN rs} |->
                     IF over(n) = {} THEN level.val[n] ELSE rs[CHOOSE i \in over(n) : \A j \in over(n) : j <= i].val.l[n]]),
            level.calls \cup Calls(rs), level.failed \/ Failed(rs))
FragmentsOf(sel) == SelectSeq(sel, LAMBDA s : s.kind = "fragment" /\ s.name \in DOMAIN schema.types)

executeObject(ty, sel, parent) ==
    Replace(Level(ty, sel, parent, <<>>),
            [i \in DOMAIN FragmentsOf(sel) |-> executeObject(FragmentsOf(sel)[i].name, FragmentsOf(sel)[i].sel, parent)])

(* The data tried: it fits the schema below. *)
Leaf(n) == [k |-> n, l |-> <<>>]
Obj(l) == [k |-> "obj", l |-> l]
Data == [a |-> Obj([d |-> Leaf("1"), a |-> Nil, e |-> Leaf("2")]),
         b |-> [k |-> "list", l |-> <<Obj([d |-> Leaf("3"), a |-> Obj([d |-> Leaf("4")])]), Obj([d |-> Nil])>>],
         c |-> Leaf("5")]

(* At the root only fields are executed. *)
executeOperation(o) == Level(schema.roots[o.type], o.sel, [k |-> "obj", l |-> Data], o.defs)

-----------------------------------------------------------------------------
(* What is tried: a schema with lists, required arguments, a scalar and a  *)
(* type defined in two places, data that fits it, and documents of two     *)
(* levels over it, right and wrong ones.                                   *)
One == Val("int", "1", <<>>)
VarV == Val("var", "v", <<>>)
Plain(n) == [kind |-> "named", name |-> n, of |-> <<>>]
Arg(t, dflt) == [type |-> t, dflt |-> dflt]
X == [x |-> Arg(Wrap("nonnull", Plain("Int")), FALSE)]
Simple(t) == [type |-> t, args |-> <<>>]
Definitions == <<
    [d |-> "scalar", name |-> "S"],
    [d |-> "type", name |-> "T", fields |-> [d |-> [type |-> Plain("Int"), args |-> X], a |-> Simple(Plain("T"))]],
    [d |-> "type", name |-> "T", fields |-> [e |-> Simple(Plain("S"))]],
    [d |-> "type", name |-> "Q", fields |->
        [a |-> [type |-> Plain("T"), args |-> [y |-> Arg(Wrap("list", Plain("Int")), FALSE)] @@ X],
         b |-> [type |-> Wrap("nonnull", Wrap("list", Wrap("nonnull", Plain("T")))), args |-> <<>>],
         c |-> Simple(Plain("Int"))]],
    [d |-> "schema", name |-> "Q", root |-> "query"] >>

ArgsTried == {<<>>, [x |-> One], [x |-> VarV], [x |-> Null]}
TopArgs == ArgsTried \cup {[x |-> One, y |-> Val("list", "", <<One, VarV>>)], [x |-> VarV, y |-> VarV],
                           [x |-> Val("obj", "", [a |-> One, on |-> Val("list", "", <<>>)])]}
Leaves == {Field(al, n, args, <<>>) : al \in {"", "c"}, n \in Inner, args \in ArgsTried}
Deep(l) == Field("", "a", <<>>, <<l>>)
InnerSels == {<<>>} \cup UNION {{<<l>>, <<Deep(l), Selection("fragment", "T", <<l>>)>>, <<Field("c", "e", <<>>, <<>>), l>>,
                                        <<Deep(Deep(l))>>} : l \in Leaves}
DefsTried == {<<>>} \cup {<<[name |-> "v", type |-> t, dflt |-> NoDefault]>> :
                             t \in {Plain("Int"), Wrap("nonnull", Plain("Int")), Wrap("list", Wrap("nonnull", Plain("Int")))}}
             \cup {<<[name |-> "v", type |-> Wrap("nonnull", Plain("Int")), dflt |-> <<One>>]>>}
Query(defs, sel) == [type |-> "query", defs |-> defs, sel |-> sel]
Documents ==
    {<<Query(defs, <<Field("", n, args, sel)>>)>> : defs \in DefsTried, n \in {"a", "b"}, args \in TopArgs, sel \in InnerSels}
    \cup {<<Query(<<>>, <<Field("c", "b", <<>>, <<l>>), Selection(kind, n, <<l>>), Field("", "c", <<>>, <<>>)>>)>> :
              l \in Leaves, kind \in {"fragment"}, n \in {"T", "on"}}
    \cup {<<Query(<<>>, <<Field("", "c", <<>>, <<>>), Selection("spread", "a", <<>>)>>)>>}
    \cup {<<Query(<<>>, <<Field("", "c", <<>>, <<>>)>>), [type |-> t, defs |-> <<>>, sel |-> <<Field("", "b", <<>>, <<>>)>>]>> : t \in {"query", "mutation"}}
Sample == <<Query(<<>>, <<Field("", "c", <<>>, <<>>)>>)>>

Orders == {s \in [DOMAIN Definitions -> {Definitions[i] : i \in DOMAIN Definitions}] :
               \A i, j \in DOMAIN Definitions : i # j => s[i] # s[j]}

QueryInit ==
    /\ \/ sdl = Definitions /\ op \in Documents
       \/ sdl \in Orders /\ op = Sample
    /\ schema = [types |-> <<>>, roots |-> <<>>]
    /\ given \in {<<>>, [v |-> One]}
    /\ failing \in Failing
    /\ doc = Fail
    /\ result = Done(<<>>, {}, FALSE)
    /\ phase = "schema"

ParseSDL ==
    /\ phase = "schema"
    /\ schema' = SchemaOf(sdl)
    /\ phase' = "parse"
    /\ UNCHANGED <<sdl, op, given, failing, doc, result>>

ParseQuery ==
    /\ phase = "parse"
    /\ doc' = parseDocument(DocumentTokens(op))
    /\ phase' = IF doc'.ok THEN "validate" ELSE "refused"
    /\ UNCHANGED <<sdl, schema, op, given, failing, result>>

Validate ==
    /\ phase = "validate"
    /\ phase' = IF \A i \in DOMAIN doc.val : validateOperation(doc.val[i]) /\ validateVariables(doc.val[i])
                THEN "execute" ELSE "refused"
    /\ UNCHANGED <<sdl, schema, op, given, failing, doc, result>>

(* The operations run one after the other; a later one replaces names. *)
Together(rs) ==
    LET has(n) == {i \in DOMAIN rs : n \in DOMAIN rs[i].val}
    IN Done([n \in UNION {DOMAIN rs[i].val : i \in DOMAIN rs} |-> rs[CHOOSE i \in has(n) : \A j \in has(n) : j <= i].val[n]],
            Calls(rs), Failed(rs))
Execute ==
    /\ phase = "execute"
    /\ result' = Together([i \in DOMAIN doc.val |-> executeOperation(doc.val[i])])
    /\ phase' = "done"
    /\ UNCHANGED <<sdl, schema, op, given, failing, doc>>

QueryNext == ParseSDL \/ ParseQuery \/ Validate \/ Execute

-----------------------------------------------------------------------------
QueryTypeOK ==
    /\ phase \in {"schema", "parse", "validate", "execute", "done", "refused"}
    /\ result.failed \in BOOLEAN

(* parseDocument reads back every document it is given in print: commas,   *)
(* aliases, arguments, nested values, types and fragments survive.         *)
RoundTrip == phase \notin {"schema", "parse"} =>
    doc.ok /\ doc.val = [i \in DOMAIN op |-> [op[i] EXCEPT !.defs = [j \in DOMAIN op[i].defs |->
                             [op[i].defs[j] EXCEPT !.type = Kinds(schema.types, op[i].defs[j].type)]]]]

(* What a schema means does not depend on the order of its definitions,    *)
(* a root type named before its type is defined included.                  *)
OrderIsFree ==
    LET shape(s) == [n \in DOMAIN s.types |-> <<s.types[n].kind, DOMAIN s.types[n].fields>>]
    IN phase # "schema" => /\ schema.roots = SchemaOf(Definitions).roots
                           /\ shape(schema) = shape(SchemaOf(Definitions))

(* A resolver the executor calls for a validated query gets every required *)
(* argument, and not as null (below the root only if the query declares no *)
(* defaults: executeObject resolves arguments without them).               *)
ArgsArrive ==
    phase = "done" => \A c \in result.calls :
        \/ c.field = "__typename"
        \/ LET field == schema.types[c.type].fields[c.field]
           IN \A a \in DOMAIN field.args :
                  Required(field.args[a]) /\ (c.type = schema.roots["query"] \/ \A o \in DOMAIN op : \A d \in DOMAIN op[o].defs : op[o].defs[d].dflt = NoDefault)
                  => a \in DOMAIN c.args /\ c.args[a] # Null

(* What a selection gives, read from the data alone *)
RECURSIVE Selected(_, _), Members(_)
Members(sel) == {sel[i] : i \in {j \in DOMAIN sel : sel[j].kind = "field"}}
                \cup UNION {Members(sel[i].sel) : i \in {j \in DOMAIN sel : sel[j].kind = "fragment"}}
Selected(v, sel) ==
    CASE v = Nil \/ sel = <<>> -> v
      [] v.k = "list" -> [k |-> "list", l |-> [i \in DOMAIN v.l |-> Selected(v.l[i], sel)]]
      [] OTHER -> Map([n \in {ResponseName(s) : s \in Members(sel)} |->
                         {Selected(getFieldFromParent(v, s.name), s.sel) : s \in {m \in Members(sel) : ResponseName(m) = n}}])

RECURSIVE Within(_, _)
Within(a, b) ==
    /\ a.k = b.k
    /\ CASE a.k = "map" -> /\ DOMAIN a.l = DOMAIN b.l
                           /\ \A n \in DOMAIN a.l : \A x \in a.l[n] : \E y \in b.l[n] : Within(x, y)
         [] a.k = "list" -> DOMAIN a.l = DOMAIN b.l /\ \A i \in DOMAIN a.l : Within(a.l[i], b.l[i])
         [] OTHER -> a = b

(* A validated query without failing resolvers returns exactly the names   *)
(* and the values the selection picks out of the data (documents of one    *)
(* operation; fragments at the root are not executed).                     *)
DataArrives ==
    phase = "done" /\ failing = {} /\ Len(op) = 1
    => Within(Map(result.val), Selected([k |-> "obj", l |-> Data], FieldsOf(op[1].sel)))

-----------------------------------------------------------------------------
(***************************************************************************)
(* gqlparser's DataLoader, shared by the levels of running queries.        *)
(* runConcurrentlyWithFlush reads the loader's window, shortens it for the *)
(* goroutines of its level, waits for them, puts back what it read and     *)
(* flushes.  A level below another one runs in one of its goroutines.      *)
(***************************************************************************)

CONSTANTS
    Lv,         \* levels of selection sets
    Par,        \* level -> the level it is nested in, or 0 (a query)
    Req,        \* requests, each of one goroutine
    Own,        \* request -> the level of its goroutine
    Key,        \* request -> its key
    Window,     \* batchWindow the loader was made with: 0 is none, 1 the default
    MaxClears   \* calls of Clear and ClearAll

VARIABLES
    window,     \* batchWindow; 2 is levelBatchWindow
    timer,      \* batchTimer: "nil", "armed" or "fired"
    late,       \* Flush calls of fired timers not yet begun
    pending,    \* requests not yet taken
    batches,    \* requests taken by Flush calls whose fn is running
    answer,     \* request -> what its channel got
    lv,         \* level -> where it is
    saved,      \* level -> the window it read
    mine,       \* level -> the batch its own Flush took
    clears

loaderVars == <<window, timer, late, pending, batches, answer, lv, saved, mine, clears>>

Answers == {"idle", "waiting", "value", "error", "notready", "cleared"}

LoaderTypeOK ==
    /\ window \in 0 .. 2 /\ timer \in {"nil", "armed", "fired"} /\ late \in Nat
    /\ pending \subseteq Req /\ batches \subseteq SUBSET Req
    /\ answer \in [Req -> Answers] /\ saved \in [Lv -> 0 .. 2] /\ clears \in 0 .. MaxClears
    /\ lv \in [Lv -> {"new", "read", "set", "running", "restored", "flushing", "done"}] /\ mine \in [Lv -> SUBSET Req]

Running(l) == lv[l] = "running"
Finished(l) ==
    /\ \A r \in Req : Own[r] = l => answer[r] \notin {"idle", "waiting"}
    /\ \A m \in Lv : Par[m] = l => lv[m] = "done"

-----------------------------------------------------------------------------
(* Load, and LoadMany for a set of keys: the timer is armed if there is    *)
(* none and the loader has a window.                                       *)
LoadMany(l, rs) ==
    /\ Running(l) /\ rs # {} /\ \A r \in rs : Own[r] = l /\ answer[r] = "idle"
    /\ pending' = pending \cup rs
    /\ answer' = [r \in Req |-> IF r \in rs THEN "waiting" ELSE answer[r]]
    /\ timer' = IF timer = "nil" /\ window > 0 THEN "armed" ELSE timer
    /\ UNCHANGED <<window, late, batches, lv, saved, mine, clears>>

TimerFires ==
    /\ timer = "armed"
    /\ timer' = "fired" /\ late' = late + 1
    /\ UNCHANGED <<window, pending, batches, answer, lv, saved, mine, clears>>

Take ==
    /\ timer' = "nil" /\ pending' = {}
    /\ batches' = IF pending = {} THEN batches ELSE batches \cup {pending}

LateFlush ==
    /\ late > 0 /\ late' = late - 1
    /\ Take
    /\ UNCHANGED <<window, answer, lv, saved, mine, clears>>

(* fn returns an error, or values for some of the keys. *)
Returns(b) ==
    /\ b \in batches /\ batches' = batches \ {b}
    /\ \/ answer' = [r \in Req |-> IF r \in b THEN "error" ELSE answer[r]]
       \/ \E got \in {b, {}} \cup {{r} : r \in b} :
              answer' = [r \in Req |-> IF r \in got THEN "value" ELSE IF r \in b THEN "notready" ELSE answer[r]]
    /\ UNCHANGED <<window, timer, late, pending, lv, saved, mine, clears>>

Drop(gone) ==
    /\ clears < MaxClears /\ clears' = clears + 1
    /\ answer' = [r \in Req |-> IF r \in gone THEN "cleared" ELSE answer[r]]
    /\ pending' = pending \ gone
    /\ UNCHANGED <<window, late, batches, lv, saved, mine>>
Clear(k) == /\ Drop({r \in pending : Key[r] = k})
            /\ timer' = IF pending' = {} THEN "nil" ELSE timer
ClearAll == Drop(pending) /\ timer' = "nil"

-----------------------------------------------------------------------------
SetTo(w) == window' = w /\ timer' = IF w = 0 THEN "nil" ELSE timer

(* runConcurrentlyWithFlush: the window is read without the lock, *)
SaveWindow(l) ==
    /\ lv[l] = "new" /\ (Par[l] # 0 => Running(Par[l]))
    /\ saved' = [saved EXCEPT ![l] = window] /\ lv' = [lv EXCEPT ![l] = "read"]
    /\ UNCHANGED <<window, timer, late, pending, batches, answer, mine, clears>>

SetBatchWindow(l) ==
    /\ lv[l] = "read" /\ SetTo(2) /\ lv' = [lv EXCEPT ![l] = "set"]
    /\ UNCHANGED <<late, pending, batches, answer, saved, mine, clears>>

ResetBatchWindow(l) ==
    /\ lv[l] = "set" /\ lv' = [lv EXCEPT ![l] = "running"]
    /\ timer' = IF window > 0 THEN "armed" ELSE timer
    /\ UNCHANGED <<window, late, pending, batches, answer, saved, mine, clears>>

Restore(l) == SetTo(saved[l])
RestoreWindow(l) ==
    /\ Running(l) /\ Finished(l) /\ Restore(l) /\ lv' = [lv EXCEPT ![l] = "restored"]
    /\ UNCHANGED <<late, pending, batches, answer, saved, mine, clears>>

FlushLoaders(l) ==
    /\ lv[l] = "restored" /\ Take
    /\ lv' = [lv EXCEPT ![l] = IF pending = {} THEN "done" ELSE "flushing"]
    /\ mine' = [mine EXCEPT ![l] = pending]
    /\ UNCHANGED <<window, late, answer, saved, clears>>

Flushed(l) ==
    /\ lv[l] = "flushing" /\ mine[l] \notin batches /\ lv' = [lv EXCEPT ![l] = "done"]
    /\ UNCHANGED <<window, timer, late, pending, batches, answer, saved, mine, clears>>

LoaderInit ==
    /\ window = Window /\ timer = "nil" /\ late = 0 /\ pending = {} /\ batches = {}
    /\ answer = [r \in Req |-> "idle"] /\ lv = [l \in Lv |-> "new"]
    /\ saved = [l \in Lv |-> 0] /\ mine = [l \in Lv |-> {}] /\ clears = 0

LoaderNext ==
    \/ \E l \in Lv : \/ SaveWindow(l) \/ SetBatchWindow(l) \/ ResetBatchWindow(l) \/ RestoreWindow(l) \/ FlushLoaders(l) \/ Flushed(l)
                     \/ \E rs \in SUBSET Req : LoadMany(l, rs)
    \/ TimerFires \/ LateFlush \/ (\E b \in batches : Returns(b))
    \/ ClearAll \/ \E k \in {Key[r] : r \in Req} : Clear(k)

-----------------------------------------------------------------------------
(* Every goroutine blocked in Load is waiting for something that will come: *)
(* its request is in a batch, or pending with the timer armed or a Flush    *)
(* about to begin, whatever levels started, ended or cleared meanwhile.     *)
NoStrandedLoad ==
    \A r \in Req : answer[r] = "waiting" =>
        \/ \E b \in batches : r \in b
        \/ r \in pending /\ (timer = "armed" \/ late > 0 \/ \E l \in Lv : lv[l] = "restored")

(* When a query has ended the loader has the window it was made with, in    *)
(* whatever order the levels below it ended.                                *)
WindowRestored ==
    \A l \in Lv : Par[l] = 0 /\ lv[l] \in {"restored", "flushing", "done"} => window = Window
=============================================================================
