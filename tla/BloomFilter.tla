----------------------------- MODULE BloomFilter -----------------------------
(***************************************************************************)
(* src/src/BloomFilter.ts: a filter of m bits, a power of two, probed k    *)
(* times per item at h1, h1 + h2, h1 + 2*h2, ... modulo m.  The hashes are *)
(* arbitrary, with h2 odd as the code forces it; whether a choice of m and *)
(* k keeps the false-positive rate is an oracle, since it is computed in   *)
(* floating point.                                                         *)
(***************************************************************************)
EXTENDS Integers, FiniteSets

CONSTANTS Item,
          H1(_), H2(_), \* the two hashes of an item
          MinBits,      \* the smallest filter (32)
          MAX_BITS,     \* the largest (2^32)
          Undef, Threw,
          Capacity,     \* the capacity given to make
          MaxAdded      \* bound: the items added between two calls of clear

VARIABLES filter, \* the filter, or Threw when make threw
          added   \* the items added since make or clear, for the property

fVars == <<filter, added>>

\* kExact = (m / capacity) * ln 2, with ln 2 as 69/100.
KFloor(m) == LET k == (69 * m) \div (100 * Capacity) IN IF k < 1 THEN 1 ELSE k
KCeil(m) == 1 + (69 * m - 1) \div (100 * Capacity)

Sizes == {m \in MinBits..MAX_BITS : \E e \in 0..27 : m = MinBits * 2 ^ e}

\* make's search from rawM: the smallest m, and floor before ceiling, that the
\* rate allows.
Sized(rawM, meets) ==
    LET fits == {m \in Sizes : m >= rawM /\ {<<m, KFloor(m)>>, <<m, KCeil(m)>>} \cap meets # {}}
        m == CHOOSE m \in fits : \A n \in fits : m <= n
    IN  IF fits = {} THEN Threw
        ELSE [m |-> m, k |-> IF <<m, KFloor(m)>> \in meets THEN KFloor(m) ELSE KCeil(m)]

Make(rawM, meets) ==
    LET s == Sized(rawM, meets)
    IN  IF s = Threw THEN s ELSE [m |-> s.m, k |-> s.k, bits |-> {}, count |-> 0]

\* The bits probed: acc goes up by h2, of which only the low bits matter.
Probes(f, item) == {(H1(item) + i * H2(item)) % f.m : i \in 0..(f.k - 1)}

MightContain(f, item) == Probes(f, item) \subseteq f.bits
-----------------------------------------------------------------------------
\* The filters make can return: any first size, and any verdicts on the rates.
Makes == {Make(rawM, meets) : rawM \in Sizes,
            meets \in SUBSET {p \in Sizes \X (1..KCeil(MAX_BITS)) :
                                p[2] \in {KFloor(p[1]), KCeil(p[1])}}}

Init == filter \in Makes /\ added = {}

\* After a make that threw the caller tries other parameters.
MakeAgain == /\ filter = Threw
             /\ filter' \in Makes
             /\ UNCHANGED added

Add(item) == /\ filter # Threw /\ filter.count < MaxAdded
             /\ filter' = [filter EXCEPT !.bits = @ \cup Probes(filter, item),
                                         !.count = @ + 1]
             /\ added' = added \cup {item}

Clear == /\ filter # Threw
         /\ filter' = [filter EXCEPT !.bits = {}, !.count = 0]
         /\ added' = {}

Next == MakeAgain \/ Clear \/ \E item \in Item : Add(item)

Spec == Init /\ [][Next]_fVars
-----------------------------------------------------------------------------
(***************************************************************************)
(* make settles on at least one probe and on a power of two of bits, an    *)
(* item added is always reported, and a cleared filter reports nothing.    *)
(***************************************************************************)
NoFalseNegatives ==
    filter # Threw =>
        /\ filter.k >= 1 /\ filter.m \in Sizes
        /\ \A item \in added : MightContain(filter, item)
        /\ filter.count = 0 => \A item \in Item : ~ MightContain(filter, item)
=============================================================================
