------------------------------- MODULE BitSet -------------------------------
(***************************************************************************)
(* src/src/BitSet.ts: sets of indices packed into words.  A word is the    *)
(* set of its bits that are 1; WORD is the number of bits in a word (32).  *)
(* Two sets of one capacity are operated on.                               *)
(***************************************************************************)
EXTENDS Integers, FiniteSets

CONSTANTS WORD,
          Capacities \* bound: the capacities the sets are made with

VARIABLES bitA, bitB, bitLen, bOut

bVars == <<bitA, bitB, bitLen, bOut>>

Bits == 0..(WORD - 1)
LastWord == (bitLen + WORD - 1) \div WORD - 1
Words == 0..LastWord

\* A mask that is empty when the capacity fills the last word.
LastMaskOfRest == 0..((bitLen % WORD) - 1)

\* The bits of the last word that are below the capacity.
LastMask == IF bitLen % WORD = 0 THEN Bits ELSE 0..((bitLen % WORD) - 1)

Make == [w \in Words |-> {}]

InBounds(i) == i >= 0 /\ i < bitLen

SetBit(s, i) == [s EXCEPT ![i \div WORD] = @ \cup {i % WORD}]
ClearBit(s, i) == [s EXCEPT ![i \div WORD] = @ \ {i % WORD}]
Has(s, i) == i % WORD \in s[i \div WORD]
ToggleBit(s, i) == IF Has(s, i) THEN ClearBit(s, i) ELSE SetBit(s, i)

Masked(s, w) == IF w = LastWord THEN s[w] \cap LastMask ELSE s[w]

Popcount(s) ==
    LET upTo[n \in 0..(LastWord + 1)] ==
            IF n = 0 THEN 0 ELSE upTo[n - 1] + Cardinality(Masked(s, n - 1))
    IN  upTo[LastWord + 1]

ToSet(s) == UNION {{w * WORD + b : b \in Masked(s, w)} : w \in Words}

And(s, t) == [w \in Words |-> s[w] \cap t[w]]
Or(s, t) == [w \in Words |-> s[w] \cup t[w]]
Xor(s, t) == [w \in Words |-> (s[w] \ t[w]) \cup (t[w] \ s[w])]
Not(s) == [w \in Words |-> IF w = LastWord THEN (Bits \ s[w]) \cap LastMask
                           ELSE Bits \ s[w]]
-----------------------------------------------------------------------------
Init == bitLen \in Capacities /\ bitA = Make /\ bitB = Make /\ bOut = "ok"

\* set, clear or toggle: out of bounds throws and changes nothing.
Change(i, words) == /\ IF InBounds(i) THEN bitA' = words /\ bOut' = "ok"
                       ELSE bitA' = bitA /\ bOut' = "RangeError"
                    /\ UNCHANGED <<bitB, bitLen>>

SetAt(i) == Change(i, SetBit(bitA, i))
ClearAt(i) == Change(i, ClearBit(bitA, i))
ToggleAt(i) == Change(i, ToggleBit(bitA, i))

\* The results of the algebra are new sets, which take the place of the first.
Combine(words) == bitA' = words /\ bOut' = "ok" /\ UNCHANGED <<bitB, bitLen>>
Intersect == Combine(And(bitA, bitB))
Unite == Combine(Or(bitA, bitB))
Differ == Combine(Xor(bitA, bitB))
Negate == Combine(Not(bitA))
Exchange == bitA' = bitB /\ bitB' = bitA /\ bOut' = "ok" /\ UNCHANGED bitLen

Next == \/ \E i \in -1..(WORD * (LastWord + 1)) : SetAt(i) \/ ClearAt(i) \/ ToggleAt(i)
        \/ Intersect \/ Unite \/ Differ \/ Negate \/ Exchange

Spec == Init /\ [][Next]_bVars
-----------------------------------------------------------------------------
(***************************************************************************)
(* The words behave as sets of the indices below the capacity: no          *)
(* operation, not the complement of a word only partly in use either,      *)
(* brings in an index beyond it, and each one does to the indices what it  *)
(* does to sets.                                                           *)
(***************************************************************************)
Indices == 0..(bitLen - 1)
EachCall == bVars' # bVars =>
    LET s == ToSet(bitA)
        t == ToSet(bitB)
        result == ToSet(bitA')
    IN  /\ \A i \in Indices : /\ SetAt(i) => result = s \cup {i}
                              /\ ClearAt(i) => result = s \ {i}
                              /\ ToggleAt(i) => result = (s \ {i}) \cup ({i} \ s)
        /\ Intersect => result = s \cap t
        /\ Unite => result = s \cup t
        /\ Differ => result = (s \ t) \cup (t \ s)
        /\ Negate => result = Indices \ s
        /\ Exchange => result = t /\ ToSet(bitB') = s
        /\ bOut' = "RangeError" => result = s
BehavesAsSets == [][EachCall]_bVars

WordsSound == /\ \A s \in {bitA, bitB} : /\ s[LastWord] \subseteq LastMask
                                         /\ Popcount(s) = Cardinality(ToSet(s))
              /\ \A i \in Indices : Has(bitA, i) <=> i \in ToSet(bitA)
=============================================================================
