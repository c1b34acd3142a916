------------------------------- MODULE Schema -------------------------------
(***************************************************************************)
(* src/src/schema/Schema.ts: schema terms, what can be read off them, and  *)
(* the conversion to and from JSON Schema.  JavaScript values are tagged   *)
(* records.  The names of an object's properties are taken from KeyOrder,  *)
(* which is also the order in which objects list them; schemas that are    *)
(* equal terms stand for one shared node.                                  *)
(***************************************************************************)
EXTENDS Integers, Sequences, SequencesExt, FiniteSets, TLC

CONSTANTS KeyOrder, MAX_EXPANDED_NODES, MAX_SCHEMA_DEPTH

-----------------------------------------------------------------------------
\* Values.  An object has own properties p; inh is what its prototypes add, and
\* plain says that its prototype is Object.prototype.
Undefined == [t |-> "undefined"]
Null == [t |-> "null"]
Func == [t |-> "function"]
Bool(b) == [t |-> "boolean", b |-> b]
Num(n) == [t |-> "number", c |-> "int", n |-> n]
Frac(n) == [t |-> "number", c |-> "frac", n |-> n] \* n and a half
NaN == [t |-> "number", c |-> "nan", n |-> 0]
Str(s) == [t |-> "string", s |-> s]
Arr(e) == [t |-> "array", e |-> e]
Obj(p) == [t |-> "object", p |-> p, inh |-> << >>, plain |-> TRUE]

Own(o, k) == IF k \in DOMAIN o.p THEN o.p[k] ELSE Undefined
Keys(f) == SelectSeq(KeyOrder, LAMBDA k : k \in DOMAIN f)
Count(seq, Test(_)) == Cardinality({i \in DOMAIN seq : Test(seq[i])})

\* A number, doubled: halves are the only fractions.
Twice(v) == 2 * v.n + (IF v.c = "frac" THEN 1 ELSE 0)

\* One constraint of a string or a number; a pattern is the set of strings it matches.
Meets(v, kw, x) ==
    CASE kw = "minLength" -> Len(v.s) >= x
      [] kw = "maxLength" -> Len(v.s) <= x
      [] kw \in {"pattern", "format"} -> v.s \in x
      [] kw = "minimum" -> Twice(v) >= 2 * x
      [] kw = "maximum" -> Twice(v) <= 2 * x
      [] kw = "exclusiveMinimum" -> Twice(v) > 2 * x
      [] kw = "exclusiveMaximum" -> Twice(v) < 2 * x
      [] kw = "multipleOf" -> Twice(v) % (2 * x) = 0
      [] kw = "minItems" -> Len(v.e) >= x
      [] kw = "maxItems" -> Len(v.e) <= x

STRING_KW == <<"minLength", "maxLength", "pattern", "format">>
NUMBER_KW == <<"minimum", "maximum", "exclusiveMinimum", "exclusiveMaximum", "multipleOf">>
COUNT_KW == <<"minItems", "maxItems">>
OBJECT_KW == {"properties", "required", "additionalProperties"}
ARRAY_KW == {"items", "prefixItems", "minItems", "maxItems"}
-----------------------------------------------------------------------------
\* Constructors.  The constraints of a schema are a function from keywords.
String(meta) == [kind |-> "string", meta |-> meta]
Number(meta) == [kind |-> "number", meta |-> meta]
Integer(meta) == [kind |-> "integer", meta |-> meta]
Boolean == [kind |-> "boolean"]
Null_ == [kind |-> "null"]
Literal(v) == [kind |-> "literal", value |-> v]
Enum(vs) == [kind |-> "enum", values |-> vs]
Object(props, open) ==
    [kind |-> "object", properties |-> props, additionalProperties |-> open]
Array(items, meta) == [kind |-> "array", items |-> items, meta |-> meta]
Tuple(slots) == [kind |-> "tuple", slots |-> slots]
Record(elem) == [kind |-> "record", elem |-> elem]
Union(vs) == [kind |-> "union", variants |-> vs, exclusive |-> FALSE]
OneOf(vs) == [kind |-> "union", variants |-> vs, exclusive |-> TRUE]
Optional(s) == [kind |-> "optional", inner |-> s]
Nullable(s) == [kind |-> "nullable", inner |-> s]
Unknown == [kind |-> "unknown"]
AllOf(vs) == [kind |-> "allOf", variants |-> vs]
Not(s) == [kind |-> "not", inner |-> s]
Conditional(i, t, e) == [kind |-> "conditional", if |-> i, then |-> t, else |-> e]

Never == Not(Unknown)

\* collectSchemaChildren
Children(s) ==
    CASE s.kind = "object" -> [i \in DOMAIN Keys(s.properties) |->
                                  s.properties[Keys(s.properties)[i]]]
      [] s.kind = "array" -> <<s.items>>
      [] s.kind = "tuple" -> s.slots
      [] s.kind = "record" -> <<s.elem>>
      [] s.kind \in {"union", "allOf"} -> s.variants
      [] s.kind \in {"optional", "nullable", "not"} -> <<s.inner>>
      [] s.kind = "conditional" -> <<s.if, s.then, s.else>>
      [] OTHER -> << >>

\* checkExpansion: a shared node counts once per use.
RECURSIVE Size(_), Depth(_)
Size(s) == FoldFunction(+, 1, [i \in DOMAIN Children(s) |-> Size(Children(s)[i])])
Depth(s) == 1 + FoldFunction(LAMBDA x, y : IF x > y THEN x ELSE y, 0,
                             [i \in DOMAIN Children(s) |-> Depth(Children(s)[i])])

CheckExpansion(s) == Size(s) <= MAX_EXPANDED_NODES /\ Depth(s) <= MAX_SCHEMA_DEPTH

\* Does the schema accept undefined, so that a property of it may be absent?
RECURSIVE PropertyMayBeAbsent(_)
PropertyMayBeAbsent(s) ==
    CASE s.kind = "optional" -> TRUE
      [] s.kind = "nullable" -> PropertyMayBeAbsent(s.inner)
      [] s.kind = "conditional" -> IF PropertyMayBeAbsent(s.if) THEN PropertyMayBeAbsent(s.then)
                                   ELSE PropertyMayBeAbsent(s.else)
      [] s.kind = "allOf" -> \A i \in DOMAIN s.variants : PropertyMayBeAbsent(s.variants[i])
      [] s.kind = "union" ->
            LET matches == Count(s.variants, PropertyMayBeAbsent)
            IN  IF s.exclusive THEN matches = 1 ELSE matches > 0
      [] OTHER -> FALSE

\* A key that is a literal, different in each variant; "none" if there is no such key.
FindDiscriminant(vs) ==
    LET Tags(k) == [i \in DOMAIN vs |-> vs[i].properties[k].value]
        Fits(k) == /\ \A i \in DOMAIN vs :
                         /\ k \in DOMAIN vs[i].properties
                         /\ vs[i].properties[k].kind = "literal"
                         /\ vs[i].properties[k].value # NaN
                   /\ IsInjective(Tags(k))
        tags == SelectSeq(Keys(vs[1].properties), Fits)
    IN  IF Len(vs) < 2 \/ \E i \in DOMAIN vs : vs[i].kind # "object" THEN "none"
        ELSE IF tags = << >> THEN "none" ELSE tags[1]
-----------------------------------------------------------------------------
\* JSON Schema documents are functions from keywords; [always |-> b] is a boolean one.
Always(b) == [always |-> b]

RECURSIVE ToJsonSchema(_)
ToJsonSchema(s) ==
    LET All(seq) == [i \in DOMAIN seq |-> ToJsonSchema(seq[i])]
    IN  CASE s.kind \in {"string", "number", "integer"} -> [type |-> <<s.kind>>] @@ s.meta
          [] s.kind \in {"boolean", "null"} -> [type |-> <<s.kind>>]
          [] s.kind = "literal" -> [const |-> s.value]
          [] s.kind = "enum" -> [enum |-> s.values]
          [] s.kind = "object" ->
                [type |-> <<"object">>,
                 properties |-> [k \in DOMAIN s.properties |-> ToJsonSchema(s.properties[k])],
                 required |-> {k \in DOMAIN s.properties : ~ PropertyMayBeAbsent(s.properties[k])},
                 additionalProperties |-> Always(s.additionalProperties)]
          [] s.kind = "array" -> [type |-> <<"array">>, items |-> ToJsonSchema(s.items)] @@ s.meta
          [] s.kind = "tuple" -> [type |-> <<"array">>, prefixItems |-> All(s.slots),
                                  items |-> Always(FALSE), minItems |-> Len(s.slots)]
          [] s.kind = "record" -> [type |-> <<"object">>,
                                   additionalProperties |-> ToJsonSchema(s.elem)]
          [] s.kind = "union" -> IF s.exclusive THEN [oneOf |-> All(s.variants)]
                                 ELSE [anyOf |-> All(s.variants)]
          [] s.kind = "allOf" -> [allOf |-> All(s.variants)]
          [] s.kind = "unknown" -> [k \in {} |-> 0]
          [] s.kind = "not" -> [not |-> ToJsonSchema(s.inner)]
          [] s.kind = "conditional" -> [if |-> ToJsonSchema(s.if), then |-> ToJsonSchema(s.then),
                                        else |-> ToJsonSchema(s.else)]
          [] s.kind = "optional" -> ToJsonSchema(s.inner)
          [] s.kind = "nullable" -> [anyOf |-> <<ToJsonSchema(s.inner), [type |-> <<"null">>]>>]
=============================================================================
