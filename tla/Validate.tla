------------------------------ MODULE Validate ------------------------------
(***************************************************************************)
(* src/src/schema/Validate.ts: the validators generated from a schema, as  *)
(* what the generated code does with a value.  `mode' is the code emitted: *)
(* "first" returns the first error, "bool" only whether there is one,      *)
(* "nest" collects all of them, and "single" is the part of a collecting   *)
(* validator that reports at most one (below a union).  A check yields the *)
(* errors it records and `out': whether it returned or left the block of   *)
(* the value.                                                              *)
(***************************************************************************)
EXTENDS Schema

CONSTANT ENUM_INLINE_MAX

Pass == [errs |-> << >>, out |-> FALSE]

\* failStmt; a soft failure of a collecting validator goes on with the value.
Fail(path, label, mode, soft) ==
    [errs |-> <<[path |-> path, expected |-> label]>>, out |-> ~ (soft /\ mode = "nest")]

FailIf(cond, path, label, mode, soft) == IF cond THEN Fail(path, label, mode, soft) ELSE Pass

Seq2(r, next) == IF r.out THEN r ELSE [errs |-> r.errs \o next.errs, out |-> next.out]

\* The checks whose results are given, one after the other.
InTurn(results) == FoldLeft(Seq2, Pass, results)

\* emitSoftFail for each constraint that the schema has, in the order of the keywords.
Constraints(v, meta, kws, path, mode) ==
    LET has == SelectSeq(kws, LAMBDA kw : kw \in DOMAIN meta)
        Check(i) == FailIf(~ Meets(v, has[i], meta[has[i]]), path, has[i], mode, TRUE)
    IN  InTurn([i \in DOMAIN has |-> Check(i)])

DistinctVariants(vs) ==
    FoldLeft(LAMBDA seen, s : IF Contains(seen, s) THEN seen ELSE Append(seen, s), << >>, vs)

IsFinite(v) == v.t = "number" /\ v.c # "nan"
IsSafeInteger(v) == v.t = "number" /\ v.c = "int"
HasRegex(meta) == {"pattern", "format"} \cap DOMAIN meta # {}


\* May a property of this schema be absent?  Errs on the side of yes.
RECURSIVE AcceptsUndefined(_)
AcceptsUndefined(s) ==
    CASE s.kind = "optional" -> TRUE
      [] s.kind = "nullable" -> AcceptsUndefined(s.inner)
      [] s.kind = "union" -> \E i \in DOMAIN s.variants : AcceptsUndefined(s.variants[i])
      [] s.kind = "allOf" -> \A i \in DOMAIN s.variants : AcceptsUndefined(s.variants[i])
      [] s.kind = "conditional" -> AcceptsUndefined(s.then) \/ AcceptsUndefined(s.else)
      [] OTHER -> FALSE

\* emitPlainFlag: may these keys be read directly, prototypes included?
PlainFlag(o, keys) == o.plain /\ DOMAIN o.inh \cap keys = {}

\* emitOwnRead
Read(o, k, plainFlag) ==
    IF plainFlag /\ k \notin DOMAIN o.p /\ k \in DOMAIN o.inh THEN o.inh[k] ELSE Own(o, k)
-----------------------------------------------------------------------------
RECURSIVE EmitValidation(_, _, _, _), ExactCheck(_, _)

\* A child reports on its own, in a block of its own, when errors are collected.
EmitChild(s, v, path, mode) ==
    LET r == EmitValidation(s, v, path, mode)
    IN  IF mode = "nest" THEN [r EXCEPT !.out = FALSE] ELSE r

EmitSingle(s, v, path, mode) ==
    EmitValidation(s, v, path, IF mode = "nest" THEN "single" ELSE mode)

BooleanValidator(s, v) == ~ EmitValidation(s, v, << >>, "bool").out

BooleanCheck(s, v) ==
    LET check == ExactCheck(s, v)
    IN  IF check = "null" THEN BooleanValidator(s, v) ELSE check = "true"

NotObject(v) == v.t # "object"

(***************************************************************************)
(* emitProperties and emitExtraKeyCheck.  The properties the schema        *)
(* declares, `skip' apart, are checked in order; the number of them that   *)
(* must be present is then compared with the number of enumerable keys,    *)
(* and only if they differ is an undeclared own key looked for.            *)
(***************************************************************************)
ExtraKeys(s, v, present, path, mode) ==
    LET extras == SelectSeq(Keys(v.p), LAMBDA k : k \notin DOMAIN s.properties)
        Report(i) == Fail(Append(path, extras[i]), "no additional properties", mode, TRUE)
    IN  IF \/ s.additionalProperties \/ extras = << >>
           \/ Cardinality(DOMAIN v.p \cup DOMAIN v.inh) = present
        THEN Pass
        ELSE IF mode = "nest" THEN InTurn([i \in DOMAIN extras |-> Report(i)]) ELSE Report(1)

EmitProperties(s, v, skip, plainFlag, path, mode) ==
    LET keys == SelectSeq(Keys(s.properties), LAMBDA k : k # skip)
        child(i) == s.properties[keys[i]]
        local(i) == Read(v, keys[i], plainFlag)
        Check(i) == EmitChild(child(i), local(i), Append(path, keys[i]), mode)
        counted == {i \in DOMAIN keys : \/ local(i) # Undefined
                                        \/ ~ (AcceptsUndefined(child(i)) \/ mode = "nest")}
        present == Cardinality(counted) + (IF skip = "none" THEN 0 ELSE 1)
    IN  Seq2(InTurn([i \in DOMAIN keys |-> Check(i)]), ExtraKeys(s, v, present, path, mode))

EmitObject(s, v, path, mode) ==
    Seq2(FailIf(NotObject(v), path, "object", mode, FALSE),
         EmitProperties(s, v, "none", PlainFlag(v, DOMAIN s.properties), path, mode))

EmitArray(s, v, path, mode) ==
    LET Check(i) == EmitChild(s.items, v.e[i], Append(path, ToString(i - 1)), mode)
    IN  Seq2(FailIf(v.t # "array", path, "array", mode, FALSE),
             Seq2(Constraints(v, s.meta, COUNT_KW, path, mode),
                  InTurn([i \in DOMAIN v.e |-> Check(i)])))

EmitTuple(s, v, path, mode) ==
    LET Check(i) == EmitChild(s.slots[i], v.e[i], Append(path, ToString(i - 1)), mode)
        fits == v.t = "array" /\ Len(v.e) = Len(s.slots)
    IN  Seq2(FailIf(~ fits, path, "tuple", mode, FALSE),
             InTurn([i \in DOMAIN s.slots |-> Check(i)]))

EmitRecord(s, v, path, mode) ==
    LET Check(k) == EmitChild(s.elem, v.p[k], Append(path, k), mode)
        keys == Keys(v.p)
    IN  Seq2(FailIf(NotObject(v), path, "object", mode, FALSE),
             InTurn([i \in DOMAIN keys |-> Check(keys[i])]))

\* The tag is read once; the variant with that tag is checked without it.
EmitDiscriminated(vs, d, v, path, mode) ==
    LET tagFlag == PlainFlag(v, {d})
        tag == Read(v, d, tagFlag)
        cases == {i \in DOMAIN vs : vs[i].properties[d].value = tag}
        s == vs[CHOOSE i \in cases : TRUE]
    IN  Seq2(FailIf(NotObject(v), path, "object", mode, FALSE),
             IF cases = {} THEN Fail(Append(path, d), "one of", mode, FALSE)
             ELSE EmitProperties(s, v, d, tagFlag /\ PlainFlag(v, DOMAIN s.properties \ {d}),
                                 path, mode))

EmitExclusive(vs, v, path, mode) ==
    LET count == Count(vs, LAMBDA s : BooleanCheck(s, v))
    IN  IF vs = << >> THEN Fail(path, "never", mode, FALSE)
        ELSE IF mode = "bool" THEN FailIf(count # 1, path, "oneOf", mode, FALSE)
        ELSE IF count = 0 THEN EmitSingle(Last(vs), v, path, mode)
        ELSE FailIf(count > 1, path, "oneOf", mode, FALSE)

\* All variants but the last are tried; the last one is checked for its error.
EmitUnion(s, v, path, mode) ==
    LET vs == s.variants
        d == FindDiscriminant(vs)
    IN  IF d # "none" THEN EmitDiscriminated(vs, d, v, path, mode)
        ELSE IF s.exclusive THEN EmitExclusive(vs, v, path, mode)
        ELSE IF vs = << >> THEN Fail(path, "never", mode, FALSE)
        ELSE IF \E i \in 1..(Len(vs) - 1) : BooleanCheck(vs[i], v) THEN Pass
        ELSE EmitSingle(Last(vs), v, path, mode)

EmitValidation(s, v, path, mode) ==
    LET Type(cond) == FailIf(~ cond, path, s.kind, mode, FALSE)
        Inner(x) == EmitValidation(x, v, path, mode)
        vs == DistinctVariants(s.variants)
    IN  CASE s.kind = "string" -> Seq2(Type(v.t = "string"),
                                       Constraints(v, s.meta, STRING_KW, path, mode))
          [] s.kind = "number" -> Seq2(Type(IsFinite(v)),
                                       Constraints(v, s.meta, NUMBER_KW, path, mode))
          [] s.kind = "integer" -> Seq2(Type(IsSafeInteger(v)),
                                        Constraints(v, s.meta, NUMBER_KW, path, mode))
          [] s.kind \in {"boolean", "null"} -> Type(v.t = s.kind)
          [] s.kind = "literal" -> Type(v = s.value)
          [] s.kind = "enum" -> Type(v \in ToSet(s.values))
          [] s.kind = "object" -> EmitObject(s, v, path, mode)
          [] s.kind = "array" -> EmitArray(s, v, path, mode)
          [] s.kind = "tuple" -> EmitTuple(s, v, path, mode)
          [] s.kind = "record" -> EmitRecord(s, v, path, mode)
          [] s.kind = "union" -> EmitUnion(s, v, path, mode)
          [] s.kind = "optional" -> IF v = Undefined THEN Pass ELSE Inner(s.inner)
          [] s.kind = "nullable" -> IF v = Null THEN Pass ELSE Inner(s.inner)
          [] s.kind = "unknown" -> Type(v # Undefined)
          [] s.kind = "allOf" -> InTurn([i \in DOMAIN vs |-> Inner(vs[i])])
          [] s.kind = "not" -> Type(v # Undefined /\ ~ BooleanCheck(s.inner, v))
          [] s.kind = "conditional" ->
                IF s.then = s.else \/ BooleanCheck(s.if, v) THEN Inner(s.then) ELSE Inner(s.else)

(***************************************************************************)
(* exactCheck: the truth of an expression equivalent to the whole check,   *)
(* or "null" where the schema has no such expression, whatever the value.  *)
(***************************************************************************)
ExactCheck(s, v) ==
    LET Truth(cond) == IF cond THEN "true" ELSE "false"
        Exact(vs) == [i \in DOMAIN vs |-> ExactCheck(vs[i], v)]
        If(checks, Cond(_)) == IF Contains(checks, "null") THEN "null" ELSE Truth(Cond(checks))
        Trues(checks) == Count(checks, LAMBDA c : c = "true")
    IN  CASE s.kind = "string" ->
                IF HasRegex(s.meta) THEN "null"
                ELSE Truth(v.t = "string" /\ \A kw \in DOMAIN s.meta : Meets(v, kw, s.meta[kw]))
          [] s.kind = "number" -> IF DOMAIN s.meta # {} THEN "null" ELSE Truth(IsFinite(v))
          [] s.kind = "integer" -> IF DOMAIN s.meta # {} THEN "null" ELSE Truth(IsSafeInteger(v))
          [] s.kind \in {"boolean", "null"} -> Truth(v.t = s.kind)
          [] s.kind = "literal" -> Truth(v = s.value)
          [] s.kind = "enum" -> IF Len(s.values) > ENUM_INLINE_MAX THEN "null"
                                ELSE Truth(v \in ToSet(s.values))
          [] s.kind = "optional" ->
                If(Exact(<<s.inner>>), LAMBDA c : v = Undefined \/ c[1] = "true")
          [] s.kind = "nullable" ->
                If(Exact(<<s.inner>>), LAMBDA c : v = Null \/ c[1] = "true")
          [] s.kind = "union" ->
                IF s.exclusive THEN If(Exact(s.variants), LAMBDA c : Trues(c) = 1)
                ELSE If(Exact(DistinctVariants(s.variants)), LAMBDA c : Trues(c) > 0)
          [] s.kind = "allOf" ->
                If(Exact(DistinctVariants(s.variants)), LAMBDA c : Trues(c) = Len(c))
          [] s.kind = "unknown" -> Truth(v # Undefined)
          [] s.kind = "not" ->
                If(Exact(<<s.inner>>), LAMBDA c : v # Undefined /\ c[1] = "false")
          [] s.kind = "conditional" ->
                IF s.then = s.else THEN ExactCheck(s.then, v)
                ELSE If(Exact(<<s.if, s.then, s.else>>),
                        LAMBDA c : IF c[1] = "true" THEN c[2] = "true" ELSE c[3] = "true")
          [] OTHER -> "null"

\* validate(schema), and validate(schema, {allErrors: true}).
Validated(s, v) == EmitValidation(s, v, << >>, "first").errs
ValidatedAll(s, v) == EmitChild(s, v, << >>, "nest").errs
-----------------------------------------------------------------------------
(***************************************************************************)
(* The meaning of a schema, whatever code is generated from it.            *)
(***************************************************************************)
RECURSIVE Accepts(_, _)
Accepts(s, v) ==
    LET matching == {i \in DOMAIN s.variants : Accepts(s.variants[i], v)}
        Meet == \A kw \in DOMAIN s.meta : Meets(v, kw, s.meta[kw])
    IN  CASE s.kind = "string" -> v.t = "string" /\ Meet
          [] s.kind = "number" -> v.t = "number" /\ v # NaN /\ Meet
          [] s.kind = "integer" -> v.t = "number" /\ v.c = "int" /\ Meet
          [] s.kind \in {"boolean", "null"} -> v.t = s.kind
          [] s.kind = "literal" -> v = s.value
          [] s.kind = "enum" -> v \in ToSet(s.values)
          [] s.kind = "object" ->
                /\ v.t = "object"
                /\ \A k \in DOMAIN s.properties : Accepts(s.properties[k], Own(v, k))
                /\ s.additionalProperties \/ DOMAIN v.p \subseteq DOMAIN s.properties
          [] s.kind = "array" ->
                v.t = "array" /\ Meet /\ \A i \in DOMAIN v.e : Accepts(s.items, v.e[i])
          [] s.kind = "tuple" ->
                /\ v.t = "array" /\ Len(v.e) = Len(s.slots)
                /\ \A i \in DOMAIN v.e : Accepts(s.slots[i], v.e[i])
          [] s.kind = "record" ->
                v.t = "object" /\ \A k \in DOMAIN v.p : Accepts(s.elem, v.p[k])
          [] s.kind = "union" -> IF s.exclusive THEN Cardinality(matching) = 1 ELSE matching # {}
          [] s.kind = "optional" -> v = Undefined \/ Accepts(s.inner, v)
          [] s.kind = "nullable" -> v = Null \/ Accepts(s.inner, v)
          [] s.kind = "unknown" -> v # Undefined
          [] s.kind = "allOf" -> matching = DOMAIN s.variants
          [] s.kind = "not" -> v # Undefined /\ ~ Accepts(s.inner, v)
          [] s.kind = "conditional" ->
                IF Accepts(s.if, v) THEN Accepts(s.then, v) ELSE Accepts(s.else, v)

(***************************************************************************)
(* The three validators agree with the schema's meaning and with each      *)
(* other: an error is reported exactly for the values not accepted, the    *)
(* first of all errors is the first error, and all errors name every       *)
(* property that is wrong and every undeclared key of an object.           *)
(***************************************************************************)
Agree(s, v, first, all, bool) ==
    /\ (first = << >>) <=> Accepts(s, v)
    /\ bool <=> Accepts(s, v)
    /\ IF Accepts(s, v) THEN all = << >> ELSE all # << >> /\ all[1] = first[1]
    /\ s.kind = "object" /\ v.t = "object" =>
          \A k \in DOMAIN s.properties \cup DOMAIN v.p :
             (IF k \in DOMAIN s.properties THEN Accepts(s.properties[k], Own(v, k))
              ELSE s.additionalProperties)
             <=> \A i \in DOMAIN all : all[i].path = << >> \/ all[i].path[1] # k
=============================================================================
