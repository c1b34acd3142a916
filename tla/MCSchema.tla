------------------------------ MODULE MCSchema ------------------------------
(***************************************************************************)
(* The schema modules over families of small schemas, values and JSON      *)
(* Schema documents.  A user compiles a schema, or a document, and applies *)
(* the generated validators, serializer and parser to values.              *)
(***************************************************************************)
EXTENDS SchemaJSON, JsonSchema

VARIABLES document, \* [js, defs]: the document the schema came from
          schema,   \* the schema compiled, or Failed
          call      \* the last call of the generated functions and its result

vars == <<document, schema, call>>

MCKeyOrder == <<"k", "a", "b", "__proto__">>

Empty == [x \in {} |-> 0]
NoCall == [op |-> "none"]

\* Values: primitives, short arrays, objects of three keys, some of them unusual.
Primitives == {Undefined, Null, Func, NaN, Bool(TRUE), Num(0), Num(1), Frac(0), Frac(1),
               Str(""), Str("x"), Str("xy")}
Elements == {Null, Num(1), Str("x")}
Arrays == {Arr(<< >>), Arr(<<Undefined>>)} \cup {Arr(<<x>>) : x \in Elements}
          \cup {Arr(<<x, y>>) : x \in Elements, y \in {Num(1), Str("xy")}}
Plain == UNION {{Obj(f) : f \in [ks -> {Num(1), Str("x")}]} : ks \in SUBSET {"k", "a", "b"}}
Unusual == {[Obj([a |-> Str("x")]) EXCEPT !.inh = [b |-> Num(1)], !.plain = p] : p \in BOOLEAN}
           \cup {Obj([a |-> Str("x"), b |-> Undefined]), Obj([a |-> Undefined, b |-> Str("x")]),
                 Obj([a |-> Func]), Obj([a |-> Null]), Obj([a |-> Arr(<<Num(1)>>)]),
                 Obj([a |-> Obj([b |-> Str("x")])]), Arr(<<Obj([a |-> Num(1)])>>),
                 Obj([a |-> Str("x"), __proto__ |-> Num(1)])}
Values == Primitives \cup Arrays \cup Plain \cup Unusual

\* Schemas: leaves, one combinator over leaves, objects, one combinator over objects.
S == String(Empty)
I == Integer(Empty)
Leaves == {S, I, Unknown, Boolean, Null_, String([minLength |-> 2]), String([pattern |-> {"x"}]),
           Number([minimum |-> 1, multipleOf |-> 1]), Number([exclusiveMaximum |-> 1]),
           Literal(Str("x")), Literal(Null), Enum(<<Str("x"), Num(1)>>),
           Enum(<<Str("x"), Str("xy"), Num(1)>>)}
Few == {S, I, String([minLength |-> 2]), Nullable(I)}
Over(T, U) == UNION {{Union(<<x, y>>), OneOf(<<x, y>>), AllOf(<<x, y>>),
                      Conditional(x, y, Null_)} : x \in T, y \in U}
Wrapped == UNION {{Optional(x), Nullable(x), Not(x), Array(x, Empty), Record(x)} : x \in Leaves}
Props == {S, Optional(S), Union(<<Optional(I), S>>), AllOf(<<Optional(S), Unknown>>),
          Nullable(Optional(S)), Unknown, OneOf(<<Optional(S), Optional(I)>>),
          Conditional(Optional(S), Optional(Unknown), S)}
Objects == {Object([a |-> x, b |-> y], open) : x \in {S, Optional(Unknown)}, y \in Props,
                                               open \in BOOLEAN}
Tagged(v, x) == Object([k |-> Literal(v), a |-> x], FALSE)
Shaped == {Tagged(Str("x"), S), Tagged(Num(1), Optional(I)), Object([a |-> S], TRUE),
           Object([b |-> Optional(I)], TRUE), Object([a |-> S, b |-> Optional(I)], FALSE),
           Record(Union(<<S, I>>)), Array(I, [minItems |-> 1]), Tuple(<<S, Optional(I)>>),
           Object(Empty, TRUE), Never}
Nested == {Object([a |-> x], FALSE) :
              x \in {Array(I, Empty), Object([b |-> S], FALSE), Union(<<S, I>>), Union(<< >>),
                     OneOf(<< >>), AllOf(<<Object([b |-> S], TRUE), Record(S)>>)}}
          \cup {Array(Union(<<S, Tagged(Str("x"), S)>>), [maxItems |-> 1]),
                Array(Object([a |-> I], FALSE), Empty),
                Conditional(Object([a |-> S], TRUE), Record(S), Record(I)),
                AllOf(<<Array(I, Empty), Tuple(<<I>>)>>),
                AllOf(<<Object([a |-> S], TRUE),
                        Conditional(Object(Empty, TRUE), Object([b |-> I], TRUE), Unknown)>>)}
\* Unions with a variant that accepts nothing, compiled at once, later or never.
NoneOr(x) == Union(<<Union(<< >>), x>>)
Hollow == {NoneOr(S), Array(NoneOr(I), Empty), Object([a |-> Optional(NoneOr(S)), b |-> S], FALSE),
           AllOf(<<Nullable(Array(NoneOr(I), Empty)), Unknown>>), Not(NoneOr(S)),
           AllOf(<<Object([a |-> NoneOr(S)], TRUE), Object([b |-> Optional(I)], TRUE)>>),
           Conditional(NoneOr(S), Unknown, OneOf(<<I, Enum(<< >>)>>))}
Schemas == Leaves \cup Wrapped \cup Over(Few, Leaves) \cup Objects
           \cup Over(Shaped, Shaped) \cup Nested \cup Hollow

\* Documents that toJsonSchema does not produce.
StringDoc == [type |-> <<"string">>]
Fan(name) == [allOf |-> <<[ref |-> name], [ref |-> name]>>]
Documents ==
    {[js |-> js, defs |-> [x |-> [minLength |-> 2], y |-> [ref |-> "y"], f1 |-> Fan("x"),
                           f2 |-> Fan("f1"), f3 |-> Fan("f2")]] : js \in {
        [minimum |-> 1], [minLength |-> 2, minimum |-> 1], [required |-> {"a"}],
        [type |-> <<"string", "null">>], [type |-> <<"null", "integer", "string">>],
        [type |-> <<"string">>, const |-> Str("x")], [type |-> <<"string">>, const |-> Num(1)],
        [type |-> <<"integer">>, enum |-> <<Num(1), Null>>], [enum |-> << >>],
        [oneOf |-> <<[type |-> <<"null">>], StringDoc>>],
        [oneOf |-> <<[minLength |-> 2], [type |-> <<"null">>]>>],
        [anyOf |-> <<[type |-> <<"null">>], [minimum |-> 1]>>],
        [prefixItems |-> <<StringDoc, [minimum |-> 1]>>, items |-> Always(FALSE)],
        [prefixItems |-> <<StringDoc>>, items |-> Always(FALSE), minItems |-> 2],
        [prefixItems |-> <<StringDoc>>],
        [items |-> StringDoc, maxItems |-> 1],
        [properties |-> [a |-> StringDoc], additionalProperties |-> Always(FALSE)],
        [type |-> <<"object">>, properties |-> [a |-> StringDoc], required |-> {"b"},
         additionalProperties |-> Always(FALSE)],
        [additionalProperties |-> StringDoc, required |-> {"a"}],
        [properties |-> [a |-> StringDoc], additionalProperties |-> StringDoc],
        [ref |-> "x"], [ref |-> "x", type |-> <<"string">>], [ref |-> "y"], [ref |-> "z"],
        [ref |-> "f2"], [ref |-> "f3"],
        [allOf |-> <<[ref |-> "x"], [not |-> [const |-> Str("xy")]]>>],
        [if |-> StringDoc, then |-> [minLength |-> 2]], [if |-> StringDoc], [anyOf |-> << >>],
        [if |-> StringDoc, else |-> [minimum |-> 1]], [contains |-> StringDoc],
        [properties |-> [a |-> [ref |-> "y"]], type |-> <<"string">>],
        [type |-> <<"object">>, const |-> Null],
        [type |-> <<"object", "string">>, enum |-> <<Str("x"), Null>>],
        [type |-> <<"object">>, const |-> Null, required |-> {"a"}],
        [type |-> <<"object", "null">>, enum |-> <<Null>>],
        [not |-> [type |-> <<"object">>, const |-> Null]],
        [oneOf |-> <<[type |-> <<"object">>, const |-> Null], [type |-> <<"null">>]>>],
        [const |-> Arr(<< >>)], [enum |-> <<Str("x"), Obj(Empty)>>], [type |-> <<"date">>],
        [type |-> <<"string">>, malformed |-> {"minLength"}],
        [type |-> <<"string">>, malformed |-> {"minimum"}],
        [minimum |-> 1, malformed |-> {"maximum"}], [malformed |-> {"enum"}],
        [malformed |-> {"then"}], [if |-> StringDoc, malformed |-> {"then"}],
        [items |-> NotASchema], [properties |-> [a |-> NotASchema], type |-> <<"string">>]}}
-----------------------------------------------------------------------------
Converted(s) == [js |-> ToJsonSchema(s), defs |-> Empty]

Init == \/ /\ schema \in Schemas
           /\ document = Converted(schema) /\ call = NoCall
        \/ /\ document \in Documents
           /\ schema = FromJsonSchema(document.js, document.defs) /\ call = NoCall

\* The schema is exported and imported again.
Import == /\ call = NoCall /\ schema # Failed
          /\ schema' = FromJsonSchema(ToJsonSchema(schema), Empty)
          /\ schema' # schema
          /\ call' = [op |-> "import"]
          /\ UNCHANGED document

Check(v) == /\ schema # Failed /\ call.op \in {"none", "import"}
            /\ call' = [op |-> "check", v |-> v, first |-> Validated(schema, v),
                        all |-> ValidatedAll(schema, v), bool |-> BooleanCheck(schema, v)]
            /\ UNCHANGED <<document, schema>>

\* The serializer is meant for values that were validated.
Stringify == /\ call.op = "check" /\ call.first = << >>
             /\ call' = [op |-> "stringify", v |-> call.v, text |-> StringifyWith(schema, call.v)]
             /\ UNCHANGED <<document, schema>>

Receive == /\ call.op = "stringify" /\ call.text # Threw
           /\ call' = [op |-> "parse", v |-> call.v, text |-> call.text,
                       result |-> Parse(schema, call.text)]
           /\ UNCHANGED <<document, schema>>

Next == Import \/ Stringify \/ Receive \/ \E v \in Values : Check(v)

Spec == Init /\ [][Next]_vars
-----------------------------------------------------------------------------


(***************************************************************************)
(* Schema.ts toJsonSchema and fromJsonSchema: on JSON values, a document   *)
(* and the schema it is lowered to, or was made from, accept the same, but *)
(* for null taken for an object (NullTakenForObject).                      *)
(***************************************************************************)
DocumentsMeanTheSame ==
    call.op \in {"none", "import"} /\ schema # Failed =>
        \A v \in {v \in Values : IsJson(v)} :
            Accepts(schema, v) <=> JsonAccepts(document.js, document.defs, v)
=============================================================================
