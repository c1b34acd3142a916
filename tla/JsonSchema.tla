----------------------------- MODULE JsonSchema -----------------------------
(***************************************************************************)
(* fromJsonSchema of src/src/schema/Schema.ts, and what JSON Schema says   *)
(* that a document means.  A document is lowered together with its         *)
(* definitions `defs', the targets of its $refs.  Any node that cannot be  *)
(* lowered makes the whole call return Err, the nodes whose result is      *)
(* thrown away included.  A `type' is a sequence of names, of length one   *)
(* for a name alone.  The field `malformed' of a node holds the keywords   *)
(* whose value is not of the form that the keyword asks for, and stands    *)
(* for those values.  NotASchema is a node neither an object nor a boolean. *)
(***************************************************************************)
EXTENDS Schema

CONSTANT UNSUPPORTED \* keywords without a lowering

Failed == [kind |-> "failed"]

NotASchema == [notASchema |-> TRUE]
TYPE_NAMES == {"string", "number", "integer", "boolean", "null", "object", "array"}

Has(js, kw) == kw \in DOMAIN js
Get(js, kw, default) == IF Has(js, kw) THEN js[kw] ELSE default
Malformed(js) == Get(js, "malformed", {})
HasAny(js, kws) == kws \cap (DOMAIN js \cup Malformed(js)) # {}

Pick(js, kws) == [kw \in Range(kws) \cap DOMAIN js |-> js[kw]]

GroupOf(type) ==
    CASE type = "string" -> Range(STRING_KW)
      [] type \in {"number", "integer"} -> Range(NUMBER_KW)
      [] type = "object" -> OBJECT_KW
      [] type = "array" -> ARRAY_KW
      [] OTHER -> {}

\* Is the keyword group of this type lowered: named by `type', or present without one?
Lowers(js, type) == IF Has(js, "type") THEN type \in Range(js.type)
                    ELSE HasAny(js, GroupOf(type))

ApSchema(js) == Has(js, "additionalProperties") /\ ~ Has(js.additionalProperties, "always")
Closed(js) == Get(js, "additionalProperties", Always(TRUE)) = Always(FALSE)

\* The subschemas that lowering a node visits, its $ref apart.
Visited(js) ==
    LET In(f) == {f[x] : x \in DOMAIN f}
        If(c, S) == IF c THEN S ELSE {}
        ofArray == If(Lowers(js, "array"),
            IF Has(js, "prefixItems") THEN In(js.prefixItems)
            ELSE If(Has(js, "items"), {js.items}))
        ofObject == If(Lowers(js, "object"),
            IF ApSchema(js) THEN {js.additionalProperties}
            ELSE In(Get(js, "properties", << >>)))
        lists == UNION {If(Has(js, kw), Range(js[kw])) : kw \in {"anyOf", "oneOf", "allOf"}}
        branches == If(Has(js, "if") /\ HasAny(js, {"then", "else"}),
                       {js[kw] : kw \in {"if", "then", "else"} \cap DOMAIN js})
    IN  ofArray \cup ofObject \cup lists \cup branches \cup If(Has(js, "not"), {js.not})

IsPrimitiveValue(v) == v.t \in {"string", "number", "boolean", "null"}

\* A value that a keyword cannot have, where the keyword is read.
MisfitValue(js) ==
    \/ Malformed(js) \cap {"ref", "type", "enum", "anyOf", "oneOf", "allOf", "not"} # {}
    \/ \E type \in TYPE_NAMES : Lowers(js, type) /\ Malformed(js) \cap GroupOf(type) # {}
    \/ /\ HasAny(js, {"if"}) /\ HasAny(js, {"then", "else"})
       /\ Malformed(js) \cap {"if", "then", "else"} # {}
    \/ Has(js, "type") /\ ~ /\ js.type # << >> /\ IsInjective(js.type)
                            /\ Range(js.type) \subseteq TYPE_NAMES
    \/ \E kw \in {"anyOf", "oneOf", "allOf"} : Has(js, kw) /\ js[kw] = << >>
    \/ Has(js, "const") /\ ~ IsPrimitiveValue(js.const)
    \/ Has(js, "enum") /\ \E i \in DOMAIN js.enum : ~ IsPrimitiveValue(js.enum[i])

\* fail, anywhere below a node; `active' are the $ref targets being lowered.
RECURSIVE LowerFails(_, _, _)
LowerFails(js, defs, active) ==
    /\ ~ Has(js, "always")
    /\ \/ HasAny(js, UNSUPPORTED)
       \/ js = NotASchema
       \/ MisfitValue(js)
       \/ Lowers(js, "object") /\ ApSchema(js) /\ Get(js, "properties", << >>) # << >>
       \/ /\ Lowers(js, "array") /\ Has(js, "prefixItems")
          /\ Get(js, "items", Always(TRUE)) # Always(FALSE)
       \/ /\ Has(js, "ref")
          /\ \/ js.ref \notin DOMAIN defs
             \/ js.ref \in active
             \/ LowerFails(defs[js.ref], defs, active \cup {js.ref})
       \/ \E c \in Visited(js) : LowerFails(c, defs, active)

\* typeof null is "object"; the integers of the model are safe ones.
ValueMatchesType(v, type) ==
    CASE type = "integer" -> v.t = "number" /\ v.c = "int"
      [] type = "null" -> v = Null
      [] OTHER -> type = (IF v = Null THEN "object" ELSE v.t)

\* An enum of other primitives than strings and numbers is a union of literals.
LowerEnum(vs) ==
    IF vs = << >> THEN Never
    ELSE IF \A i \in DOMAIN vs : vs[i].t \in {"string", "number"} THEN Enum(vs)
    ELSE Union([i \in DOMAIN vs |-> Literal(vs[i])])

CombineTypes(vs, types) ==
    IF Len(vs) = 1 THEN vs[1]
    ELSE IF Len(vs) = 2 /\ types[2] = "null" THEN Nullable(vs[1])
    ELSE IF Len(vs) = 2 /\ types[1] = "null" THEN Nullable(vs[2])
    ELSE Union(vs)

IsPureNull(js) == js = [type |-> <<"null">>]

\* A choice that takes oneOf [T, null] for anyOf.
RejectsNullAlways(s) == TRUE

RECURSIVE RejectsNull(_)
RejectsNull(s) ==
    CASE s.kind \in {"null", "nullable", "unknown", "not", "optional"} -> FALSE
      [] s.kind = "literal" -> s.value # Null
      [] s.kind = "union" -> \A i \in DOMAIN s.variants : RejectsNull(s.variants[i])
      [] s.kind = "allOf" -> \E i \in DOMAIN s.variants : RejectsNull(s.variants[i])
      [] s.kind = "conditional" -> RejectsNull(s.then) /\ RejectsNull(s.else)
      [] OTHER -> TRUE

RECURSIVE Lower(_, _)

LowerObject(js, defs) ==
    LET props == Get(js, "properties", << >>)
        required == Get(js, "required", {})
        undeclared == required \ DOMAIN props
    IN  IF ApSchema(js)
        THEN LET rec == Record(Lower(js.additionalProperties, defs))
             IN  IF required = {} THEN rec
                 ELSE AllOf(<<rec, Object([k \in required |-> Unknown], TRUE)>>)
        ELSE IF Closed(js) /\ undeclared # {} THEN Never
        ELSE Object([k \in DOMAIN props \cup undeclared |->
                        IF k \in undeclared THEN Unknown
                        ELSE IF k \in required THEN Lower(props[k], defs)
                        ELSE Optional(Lower(props[k], defs))],
                    ~ Closed(js))

\* prefixItems says nothing of presence: one tuple for each length allowed.
LowerArray(js, defs) ==
    IF Has(js, "prefixItems")
    THEN LET n == Len(js.prefixItems)
             lo == Get(js, "minItems", 0)
             max == Get(js, "maxItems", n)
             hi == IF max < n THEN max ELSE n
             Upto(k) == Tuple([i \in 1..k |-> Lower(js.prefixItems[i], defs)])
         IN  IF lo > hi THEN Never
             ELSE IF lo = hi THEN Upto(lo)
             ELSE Union([i \in 1..(hi - lo + 1) |-> Upto(lo + i - 1)])
    ELSE Array(IF Has(js, "items") THEN Lower(js.items, defs) ELSE Unknown,
               Pick(js, COUNT_KW))

LowerTyped(js, defs, type) ==
    CASE type = "string" -> String(Pick(js, STRING_KW))
      [] type = "number" -> Number(Pick(js, NUMBER_KW))
      [] type = "integer" -> Integer(Pick(js, NUMBER_KW))
      [] type = "boolean" -> Boolean
      [] type = "null" -> Null_
      [] type = "object" -> LowerObject(js, defs)
      [] type = "array" -> LowerArray(js, defs)

\* anyOf and oneOf; a pair with null is nullable(T) when T rejects null.
LowerChoice(js, defs, kw) ==
    LET list == js[kw]
        nullAt == IF Len(list) # 2 THEN 0
                  ELSE IF IsPureNull(list[2]) THEN 2 ELSE IF IsPureNull(list[1]) THEN 1 ELSE 0
        other == Lower(list[3 - nullAt], defs)
        lowered == [i \in DOMAIN list |-> Lower(list[i], defs)]
    IN  IF nullAt # 0 /\ (kw = "anyOf" \/ RejectsNull(other)) THEN Nullable(other)
        ELSE IF kw = "anyOf" THEN Union(lowered) ELSE OneOf(lowered)

\* The groups of keywords of an untyped node, each under a guard for its type.
Guards(js, defs) ==
    LET Guard(type, guard) ==
            IF Lowers(js, type)
            THEN <<Conditional(guard, LowerTyped(js, defs, type), Unknown)>> ELSE << >>
    IN  Guard("string", String(<< >>)) \o Guard("number", Number(<< >>))
        \o Guard("object", Object(<< >>, TRUE)) \o Guard("array", Array(Unknown, << >>))

AllOrOne(parts) == IF Len(parts) = 1 THEN parts[1] ELSE AllOf(parts)

\* The values of const and enum.
Listed(js) == (IF Has(js, "const") THEN <<js.const>> ELSE << >>) \o Get(js, "enum", << >>)

\* A type without keywords of its own, which every value listed satisfies.
Redundant(js) ==
    /\ Has(js, "type") /\ \A i \in DOMAIN js.type : ~ HasAny(js, GroupOf(js.type[i]))
    /\ HasAny(js, {"const", "enum"})
    /\ \A i \in DOMAIN Listed(js) : \E j \in DOMAIN js.type :
          ValueMatchesType(Listed(js)[i], js.type[j])

LowerNode(js, defs) ==
    LET If(c, x) == IF c THEN <<x>> ELSE << >>
        typed == IF Has(js, "type")
                 THEN <<CombineTypes([i \in DOMAIN js.type |->
                                         LowerTyped(js, defs, js.type[i])], js.type)>>
                 ELSE IF Guards(js, defs) = << >> THEN << >>
                 ELSE <<AllOrOne(Guards(js, defs))>>
        values == If(Has(js, "const"), Literal(js.const)) \o If(Has(js, "enum"), LowerEnum(js.enum))
        parts == If(Has(js, "ref"), Lower(defs[js.ref], defs))
              \o (IF Redundant(js) THEN << >> ELSE typed) \o values
              \o If(Has(js, "anyOf"), LowerChoice(js, defs, "anyOf"))
              \o If(Has(js, "oneOf"), LowerChoice(js, defs, "oneOf"))
              \o If(Has(js, "allOf"),
                    AllOrOne([i \in DOMAIN js.allOf |-> Lower(js.allOf[i], defs)]))
              \o If(Has(js, "not"), Not(Lower(js.not, defs)))
              \o If(Has(js, "if") /\ HasAny(js, {"then", "else"}),
                    Conditional(Lower(js.if, defs),
                                Lower(Get(js, "then", Always(TRUE)), defs),
                                Lower(Get(js, "else", Always(TRUE)), defs)))
    IN  IF parts = << >> THEN Unknown ELSE AllOrOne(parts)

Lower(js, defs) ==
    IF Has(js, "always") THEN IF js.always THEN Unknown ELSE Never ELSE LowerNode(js, defs)

FromJsonSchema(js, defs) ==
    IF LowerFails(js, defs, {}) THEN Failed
    ELSE LET s == Lower(js, defs) IN IF CheckExpansion(s) THEN s ELSE Failed
-----------------------------------------------------------------------------
(***************************************************************************)
(* The meaning of a document, keyword by keyword: a keyword constrains the *)
(* values of its own type only.  There is one exception to it: null is     *)
(* taken for an object where it is listed by const or enum beside a type   *)
(* that names "object", not "null", and that is dropped as redundant.      *)
(***************************************************************************)
IsOfType(v, type) ==
    IF type = "integer" THEN v.t = "number" /\ v.c = "int" ELSE v.t = type

NullTakenForObject(js) ==
    Redundant(js) /\ "object" \in Range(js.type) /\ Contains(Listed(js), Null)

RECURSIVE JsonAccepts(_, _, _)
JsonAccepts(js, defs, v) ==
    LET Ok(d, x) == JsonAccepts(d, defs, x)
        matching(kw) == {i \in DOMAIN js[kw] : Ok(js[kw][i], v)}
        prefix == Get(js, "prefixItems", << >>)
        props == Get(js, "properties", << >>)
    IN  IF Has(js, "always") THEN js.always
        ELSE /\ Has(js, "ref") => Ok(defs[js.ref], v)
             /\ Has(js, "type") => \/ \E i \in DOMAIN js.type : IsOfType(v, js.type[i])
                                   \/ v = Null /\ NullTakenForObject(js)
             /\ Has(js, "const") => v = js.const
             /\ Has(js, "enum") => v \in Range(js.enum)
             /\ \A kw \in DOMAIN js :
                   \/ v.t = "string" /\ kw \in Range(STRING_KW)
                   \/ v.t = "number" /\ kw \in Range(NUMBER_KW)
                   \/ v.t = "array" /\ kw \in Range(COUNT_KW)
                   => Meets(v, kw, js[kw])
             /\ v.t = "object" =>
                   /\ Get(js, "required", {}) \subseteq DOMAIN v.p
                   /\ \A k \in DOMAIN v.p :
                         IF k \in DOMAIN props THEN Ok(props[k], v.p[k])
                         ELSE Ok(Get(js, "additionalProperties", Always(TRUE)), v.p[k])
             /\ v.t = "array" =>
                   \A i \in DOMAIN v.e :
                      IF i <= Len(prefix) THEN Ok(prefix[i], v.e[i])
                      ELSE Ok(Get(js, "items", Always(TRUE)), v.e[i])
             /\ Has(js, "anyOf") => matching("anyOf") # {}
             /\ Has(js, "oneOf") => Cardinality(matching("oneOf")) = 1
             /\ Has(js, "allOf") => matching("allOf") = DOMAIN js.allOf
             /\ Has(js, "not") => ~ Ok(js.not, v)
             /\ Has(js, "if") => IF Ok(js.if, v) THEN Ok(Get(js, "then", Always(TRUE)), v)
                                 ELSE Ok(Get(js, "else", Always(TRUE)), v)
=============================================================================
