----------------------------- MODULE SchemaJSON -----------------------------
(***************************************************************************)
(* src/src/schema/JSON.ts: the serializer and the parser generated from a  *)
(* schema.  JSON text is modelled by the value it denotes.  Absent stands  *)
(* for no text at all, Threw for an exception of the serializer, which     *)
(* assumes a value that the schema accepts: one in an element or a member  *)
(* ends the whole call, and so does one while the serializer is compiled.  *)
(***************************************************************************)
EXTENDS Validate

Absent == Undefined
Threw == [t |-> "threw"]
NoSchema == [kind |-> "none"]

\* Direct property read: own, or inherited.
Member(o, k) == IF k \in DOMAIN o.p THEN o.p[k]
                ELSE IF k \in DOMAIN o.inh THEN o.inh[k] ELSE Undefined

\* The text of an array, and of an object with the keys whose text is not absent.
Items(e) == IF Contains(e, Threw) THEN Threw ELSE Arr(e)
Fields(f) == IF \E k \in DOMAIN f : f[k] = Threw THEN Threw
             ELSE Obj([k \in {k \in DOMAIN f : f[k] # Absent} |-> f[k]])

\* Native JSON.stringify.
RECURSIVE Native(_)
Native(v) ==
    CASE v.t \in {"undefined", "function"} -> Absent
      [] v = NaN -> Null
      [] v.t = "array" -> Arr([i \in DOMAIN v.e |->
                                 IF Native(v.e[i]) = Absent THEN Null ELSE Native(v.e[i])])
      [] v.t = "object" -> Fields([k \in DOMAIN v.p |-> Native(v.p[k])])
      [] OTHER -> v

UnknownToJson(v) == IF Native(v) = Absent THEN Null ELSE Native(v)
NumberToJson(v) == IF v = NaN THEN Null ELSE v

RECURSIVE MayHaveNoJson(_)
MayHaveNoJson(s) == IF s.kind \in {"optional", "nullable"} THEN MayHaveNoJson(s.inner)
                    ELSE s.kind \in {"unknown", "not"}
-----------------------------------------------------------------------------
RECURSIVE WalkStringify(_, _), StringifyShapes(_, _), MergeAllOf(_)

\* The keys of an object: one that may be absent is left out when it has no value.
WalkObject(props, v) ==
    LET Text(k) ==
            LET s == props[k]
                x == Member(v, k)
            IN  IF s.kind = "optional" /\ MayHaveNoJson(s) THEN Native(x)
                ELSE IF PropertyMayBeAbsent(s) /\ x = Undefined THEN Absent
                ELSE WalkStringify(IF s.kind = "optional" THEN s.inner ELSE s, x)
    IN  Fields([k \in DOMAIN props |-> Text(k)])

WalkRecord(s, v) ==
    LET Text(x) == IF MayHaveNoJson(s.elem) THEN Native(x)
                   ELSE IF x = Undefined THEN Absent ELSE WalkStringify(s.elem, x)
    IN  Fields([k \in DOMAIN v.p |-> Text(v.p[k])])

ValueTag(v) == v.t

\* The types that a value of the schema can have.
RECURSIVE TypeTags(_)
TypeTags(s) ==
    CASE s.kind \in {"string", "boolean", "null"} -> {s.kind}
      [] s.kind \in {"number", "integer"} -> {"number"}
      [] s.kind = "literal" -> {ValueTag(s.value)}
      [] s.kind = "enum" -> {ValueTag(s.values[i]) : i \in DOMAIN s.values}
      [] s.kind \in {"object", "record"} -> {"object"}
      [] s.kind \in {"array", "tuple"} -> {"array"}
      [] s.kind = "union" -> UNION {TypeTags(s.variants[i]) : i \in DOMAIN s.variants}
      [] s.kind = "optional" -> TypeTags(s.inner) \cup {"undefined"}
      [] s.kind = "nullable" -> TypeTags(s.inner) \cup {"null"}
      [] OTHER -> {"string", "number", "boolean", "null", "array", "object"}


\* A variant whose types no other one has is chosen by type, the others by validation.
Selects(vs, i, v) ==
    LET overlaps == \E j \in DOMAIN vs \ {i} : TypeTags(vs[i]) \cap TypeTags(vs[j]) # {}
    IN  IF overlaps THEN Validated(vs[i], v) = << >> ELSE v.t \in TypeTags(vs[i])

WalkUnion(s, v) ==
    LET vs == s.variants
        d == FindDiscriminant(vs)
        First(chosen) == IF chosen = {} THEN Threw
                         ELSE WalkStringify(vs[Min(chosen)], v)
    IN  First({i \in DOMAIN vs : IF d # "none" THEN vs[i].properties[d].value = Member(v, d)
                                 ELSE Selects(vs, i, v)})

WalkStringify(s, v) ==
    LET Merged(m) == IF m = NoSchema THEN StringifyShapes(<<s>>, v) ELSE WalkStringify(m, v)
    IN  CASE s.kind \in {"string", "boolean"} -> v
          [] s.kind \in {"number", "integer", "enum"} -> NumberToJson(v)
          [] s.kind = "null" -> Null
          [] s.kind = "literal" -> Native(s.value)
          [] s.kind = "object" -> WalkObject(s.properties, v)
          [] s.kind = "array" -> Items([i \in DOMAIN v.e |-> WalkStringify(s.items, v.e[i])])
          [] s.kind = "tuple" -> Items([i \in DOMAIN s.slots |-> WalkStringify(s.slots[i], v.e[i])])
          [] s.kind = "record" -> WalkRecord(s, v)
          [] s.kind = "union" -> WalkUnion(s, v)
          [] s.kind = "optional" -> IF v = Undefined THEN Null ELSE WalkStringify(s.inner, v)
          [] s.kind = "nullable" -> IF v = Null THEN Null ELSE WalkStringify(s.inner, v)
          [] s.kind \in {"unknown", "not"} -> UnknownToJson(v)
          [] s.kind = "allOf" -> Merged(MergeAllOf(s))
          [] s.kind = "conditional" -> Merged(NoSchema)
-----------------------------------------------------------------------------
(***************************************************************************)
(* mergeAllOf: the one shape of an allOf whose shapes do not depend on the *)
(* value, or NoSchema.  Static has ok: whether there is such a list, the   *)
(* shapes, and the conditionals still to be decided.                       *)
(***************************************************************************)
RECURSIVE Static(_, _)
Static(s, acc) ==
    CASE ~ acc.ok -> acc
      [] acc.ok /\ s.kind = "allOf" -> FoldLeft(LAMBDA r, x : Static(x, r), acc, s.variants)
      [] acc.ok /\ s.kind = "optional" -> Static(s.inner, acc)
      [] acc.ok /\ s.kind \in {"unknown", "not"} -> acc
      [] acc.ok /\ s.kind = "conditional" -> [acc EXCEPT !.guarded = Append(@, s)]
      [] acc.ok /\ s.kind \in {"union", "nullable"} -> [acc EXCEPT !.ok = FALSE]
      [] OTHER -> [acc EXCEPT !.shapes = Append(@, s)]

ShapeType(shapes) ==
    LET types == SelectSeq([i \in DOMAIN shapes |->
                     IF shapes[i].kind \in {"object", "record"} THEN "object"
                     ELSE IF shapes[i].kind \in {"array", "tuple"} THEN "array" ELSE "none"],
                     LAMBDA x : x # "none")
    IN  IF types = << >> THEN "none" ELSE types[1]

GuardType(s) ==
    IF s.kind = "object" /\ s.additionalProperties /\ DOMAIN s.properties = {} THEN "object"
    ELSE IF s.kind \in {"string", "number"} /\ DOMAIN s.meta = {} THEN s.kind
    ELSE "none"

\* A conditional on a bare type is decided by the type that another shape fixes.
RECURSIVE Decide(_)
Decide(acc) ==
    IF ~ acc.ok \/ acc.guarded = << >> THEN acc
    ELSE LET known == ShapeType(acc.shapes)
             cond == Last(acc.guarded)
             guard == GuardType(cond.if)
             rest == [acc EXCEPT !.guarded = Front(@)]
         IN  IF known = "none" \/ guard = "none" THEN [acc EXCEPT !.ok = FALSE]
             ELSE Decide(Static(IF guard = known THEN cond.then ELSE cond.else, rest))

MergeAllOf(s) ==
    LET acc == Decide(Static(s, [ok |-> TRUE, shapes |-> << >>, guarded |-> << >>]))
        shapes == acc.shapes
        Declares(k) == SelectSeq(shapes, LAMBDA x : k \in DOMAIN x.properties)
        Decl(k) == LET list == [i \in DOMAIN Declares(k) |-> Declares(k)[i].properties[k]]
                   IN  IF Len(list) = 1 THEN list[1] ELSE AllOf(list)
        keys == UNION {DOMAIN shapes[i].properties : i \in DOMAIN shapes}
        merged == IF Len(shapes) = 1 THEN shapes[1]
                  ELSE Object([k \in keys |-> Decl(k)], TRUE)
    IN  IF ~ acc.ok \/ shapes = << >> THEN NoSchema
        ELSE IF Len(shapes) > 1 /\ \E i \in DOMAIN shapes : shapes[i].kind # "object" THEN NoSchema
        ELSE IF PropertyMayBeAbsent(s) THEN Optional(merged) ELSE merged

\* Can the serializer of the schema be compiled?  A variant that no type can have
\* is dispatched by `if () return', which is no JavaScript.  What an allOf without
\* one shape, a conditional or a not holds is not compiled before it is needed.
RECURSIVE Compiles(_)
Compiles(s) ==
    LET merged == MergeAllOf(s)
    IN  /\ s.kind = "union" => \A i \in DOMAIN s.variants : TypeTags(s.variants[i]) # {}
        /\ CASE s.kind = "allOf" -> merged = NoSchema \/ Compiles(merged)
             [] s.kind \in {"not", "conditional"} -> TRUE
             [] OTHER -> \A i \in DOMAIN Children(s) : Compiles(Children(s)[i])

\* stringify(s)(v): compiled, and applied.
StringifyWith(s, v) == IF Compiles(s) THEN WalkStringify(s, v) ELSE Threw

\* The shapes that describe this value: collectShapes.
RECURSIVE Shapes(_, _)
Shapes(s, v) ==
    LET Accepting(ss) == SelectSeq(ss, LAMBDA x : Validated(x, v) = << >>)
        Of(ss) == IF ss = << >> THEN <<NoSchema>> ELSE Shapes(ss[1], v)
    IN  CASE s.kind = "allOf" -> FlattenSeq([i \in DOMAIN s.variants |-> Shapes(s.variants[i], v)])
          [] s.kind = "conditional" ->
                Shapes(IF Accepting(<<s.if>>) # << >> THEN s.then ELSE s.else, v)
          [] s.kind = "union" -> Of(Accepting(s.variants))
          [] s.kind = "optional" -> IF v = Undefined THEN << >> ELSE Shapes(s.inner, v)
          [] s.kind = "nullable" -> IF v = Null THEN << >> ELSE Shapes(s.inner, v)
          [] s.kind \in {"unknown", "not"} -> << >>
          [] OTHER -> <<s>>

\* What the shapes say of the element at an index, and of the member at a key.
ElemShapes(shapes, i) ==
    LET with == SelectSeq(shapes, LAMBDA s : \/ s.kind = "array"
                                             \/ s.kind = "tuple" /\ i <= Len(s.slots))
    IN  [j \in DOMAIN with |-> IF with[j].kind = "array" THEN with[j].items ELSE with[j].slots[i]]

MemberShapes(shapes, k) ==
    LET with == SelectSeq(shapes, LAMBDA s : \/ s.kind = "record"
                                             \/ s.kind = "object" /\ k \in DOMAIN s.properties)
    IN  [j \in DOMAIN with |-> IF with[j].kind = "record" THEN with[j].elem
                               ELSE with[j].properties[k]]

StringifyArrayShapes(shapes, v) ==
    Items([i \in DOMAIN v.e |-> StringifyShapes(ElemShapes(shapes, i), v.e[i])])

\* The keys that the object shapes declare, or all own keys when a record applies.
StringifyObjectShapes(shapes, v) ==
    LET keys == {k \in DOMAIN v.p : MemberShapes(shapes, k) # << >>}
    IN  Fields([k \in keys |-> IF v.p[k].t \in {"undefined", "function"} THEN Absent
                               ELSE StringifyShapes(MemberShapes(shapes, k), v.p[k])])

StringifyShapes(schemas, v) ==
    LET By(shapes) ==
            IF Contains(shapes, NoSchema) THEN Threw
            ELSE IF Len(shapes) = 1 THEN StringifyWith(shapes[1], v)
            ELSE IF shapes = << >> THEN UnknownToJson(v)
            ELSE IF v.t = "array" THEN StringifyArrayShapes(shapes, v)
            ELSE StringifyObjectShapes(shapes, v)
    IN  IF v.t \in {"undefined", "function"} THEN Null
        ELSE IF v.t \notin {"array", "object"} THEN NumberToJson(v)
        ELSE By(FlattenSeq([i \in DOMAIN schemas |-> Shapes(schemas[i], v)]))
-----------------------------------------------------------------------------
\* stripProto
RECURSIVE StripProto(_)
StripProto(v) ==
    CASE v.t = "array" -> Arr([i \in DOMAIN v.e |-> StripProto(v.e[i])])
      [] v.t = "object" -> Obj([k \in DOMAIN v.p \ {"__proto__"} |-> StripProto(v.p[k])])
      [] OTHER -> v

\* parse of a text that is valid JSON; native JSON.parse gives the value it denotes.
Parse(s, text) ==
    LET v == StripProto(text)
    IN  [errs |-> Validated(s, v), value |-> v]
-----------------------------------------------------------------------------
\* A value that JSON can represent: no undefined, function or NaN, nothing inherited.
RECURSIVE IsJson(_)
IsJson(v) ==
    CASE v.t = "array" -> \A i \in DOMAIN v.e : IsJson(v.e[i])
      [] v.t = "object" -> v.plain /\ DOMAIN v.inh = {} /\ \A k \in DOMAIN v.p : IsJson(v.p[k])
      [] OTHER -> v.t \notin {"undefined", "function"} /\ v # NaN

\* No object of the schema lets undeclared keys pass.
RECURSIVE IsClosed(_)
IsClosed(s) == /\ s.kind = "object" => ~ s.additionalProperties
               /\ \A i \in DOMAIN Children(s) : IsClosed(Children(s)[i])

\* Dropping undeclared keys cannot make the schema reject: no not, conditional or oneOf.
RECURSIVE IsMonotone(_)
IsMonotone(s) == /\ s.kind \notin {"not", "conditional"}
                 /\ s.kind = "union" => ~ s.exclusive
                 /\ \A i \in DOMAIN Children(s) : IsMonotone(Children(s)[i])

\* A union inside the schema has a variant that accepts nothing, of no type.
RECURSIVE HasUntypedVariant(_)
HasUntypedVariant(s) ==
    \/ s.kind = "union" /\ \E i \in DOMAIN s.variants : TypeTags(s.variants[i]) = {}
    \/ \E i \in DOMAIN Children(s) : HasUntypedVariant(Children(s)[i])

\* x is v without some keys of its objects.
RECURSIVE IsPruned(_, _)
IsPruned(x, v) ==
    CASE x.t = "array" /\ v.t = "array" ->
            DOMAIN x.e = DOMAIN v.e /\ \A i \in DOMAIN x.e : IsPruned(x.e[i], v.e[i])
      [] x.t = "object" /\ v.t = "object" ->
            DOMAIN x.p \subseteq DOMAIN v.p /\ \A k \in DOMAIN x.p : IsPruned(x.p[k], v.p[k])
      [] OTHER -> x = v

(***************************************************************************)
(* What is serialized can be parsed back, whichever way unions, allOf and  *)
(* conditional are dispatched.  For a schema without open objects, the     *)
(* text of a JSON value that it accepts gives the same value.  With open   *)
(* objects, whose undeclared keys are left out, the rest is still accepted *)
(* by a schema that cannot mind.  No __proto__ key comes out of parse.     *)
(***************************************************************************)
RoundTrips(s, v, parsed) ==
    /\ IsJson(v) /\ v = StripProto(v) =>
          /\ IsClosed(s) => parsed.errs = << >> /\ parsed.value = v
          /\ IsMonotone(s) => parsed.errs = << >> /\ IsPruned(parsed.value, v)
    /\ StripProto(parsed.value) = parsed.value
=============================================================================
