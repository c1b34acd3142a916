--------------------------------- MODULE SOA ---------------------------------
(***************************************************************************)
(* src/src/SOA.ts: records kept as one array per column.  A view reads and *)
(* writes the arrays that were the columns when the view was made; the     *)
(* descriptors behind it are cached per SOA and revalidated on every       *)
(* createView.  Arrays have an identity, since a caller may replace a      *)
(* column by another array.                                                *)
(***************************************************************************)
EXTENDS Integers, Sequences, SequencesExt, TLC

CONSTANTS Column, Value, Undef, Threw,
          Arrays,   \* bound: the identities of arrays
          Replaced, \* bound: the columns whose array is ever replaced
          MaxRows   \* bound: the most rows

VARIABLES soa,     \* [cols |-> column to array, data |-> array to its contents]
          views,   \* [cached |-> Undef or the arrays captured, view |-> Undef or a view]
          sOut

sVars == <<soa, views, sOut>>

Row == [Column -> Value]
NoCols == [c \in Column |-> Undef]

Col(c) == soa.data[soa.cols[c]]
Length == Len(Col(CHOOSE c \in Column : TRUE))
\* getRowFactory: the row is read from the columns as they are at the call.
RowAt(i) == [c \in Column |-> IF i \in DOMAIN Col(c) THEN Col(c)[i] ELSE Undef]
Rows == [i \in 1..Length |-> RowAt(i)]

\* The arrays once each column's array has the contents given for the column.
Stored(contents) ==
    [a \in Arrays |-> IF \E c \in Column : soa.cols[c] = a
                      THEN contents[CHOOSE c \in Column : soa.cols[c] = a]
                      ELSE soa.data[a]]
-----------------------------------------------------------------------------
FirstCols == CHOOSE cols \in [Column -> Arrays] :
                 \A c, d \in Column : c # d => cols[c] # cols[d]

Init == /\ soa = [cols |-> FirstCols, data |-> [a \in Arrays |-> << >>]]
        /\ views = [cached |-> NoCols, view |-> Undef]
        /\ sOut = Undef

Push(item) == /\ Length < MaxRows
              /\ soa' = [soa EXCEPT !.data = Stored([c \in Column |-> Append(Col(c), item[c])])]
              /\ sOut' = Undef
              /\ UNCHANGED views

\* pop of an empty SOA returns a row of undefined values.
Pop == /\ soa' = [soa EXCEPT !.data =
                       Stored([c \in Column |-> IF Col(c) = << >> THEN << >> ELSE Front(Col(c))])]
       /\ sOut' = RowAt(Length)
       /\ UNCHANGED views

\* Columns absent from the item are left untouched; out of bounds throws.
Put(i, item) ==
    /\ soa' = IF i \notin 1..Length THEN soa
              ELSE [soa EXCEPT !.data =
                      Stored([c \in Column |-> IF c \in DOMAIN item
                                               THEN [Col(c) EXCEPT ![i] = item[c]] ELSE Col(c)])]
    /\ sOut' = IF i \in 1..Length THEN Undef ELSE Threw
    /\ UNCHANGED views

SwapRemove(i) ==
    LET last == Length
    IN  /\ soa' = IF i \notin 1..last THEN soa
                  ELSE [soa EXCEPT !.data =
                          Stored([c \in Column |-> Front([Col(c) EXCEPT ![i] = Col(c)[last]])])]
        /\ sOut' = IF i \in 1..last THEN Undef ELSE Threw
        /\ UNCHANGED views

Clear == /\ soa' = [soa EXCEPT !.data = Stored([c \in Column |-> << >>])]
         /\ sOut' = Undef
         /\ UNCHANGED views

\* The caller puts another array of the same length in the place of a column's.
Replace(c, a) == /\ \A d \in Column : soa.cols[d] # a
                 /\ soa' = [cols |-> [soa.cols EXCEPT ![c] = a],
                            data |-> [soa.data EXCEPT ![a] = Reverse(Col(c))]]
                 /\ sOut' = Undef
                 /\ UNCHANGED views

\* A cache that is never revalidated: a column replaced later goes unnoticed.
IsFreshOnceMade(arrays) == arrays # NoCols

IsFresh(arrays) == arrays = soa.cols

\* What the view's getters read: the descriptors cached, or built from the columns.
Descriptors == IF IsFresh(views.cached) THEN views.cached ELSE soa.cols

CreateView(i) == /\ views' = [cached |-> Descriptors,
                              view |-> [arrays |-> Descriptors, index |-> i, at |-> soa.cols]]
                 /\ sOut' = Undef
                 /\ UNCHANGED soa

\* An assignment through the view, inside the rows that exist.
WriteView(c, v) ==
    /\ views.view # Undef
    /\ LET a == views.view.arrays[c]
       IN  /\ views.view.index \in DOMAIN soa.data[a]
           /\ soa' = [soa EXCEPT !.data[a][views.view.index] = v]
    /\ sOut' = Undef
    /\ UNCHANGED views

MoveView(i) == /\ views.view # Undef
               /\ views' = [views EXCEPT !.view.index = i]
               /\ sOut' = Undef
               /\ UNCHANGED soa

Partial == UNION {[D -> Value] : D \in SUBSET Column}

Next == \/ \E item \in Row : Push(item)
        \/ Pop \/ Clear
        \/ \E i \in 1..MaxRows : \/ SwapRemove(i) \/ CreateView(i) \/ MoveView(i)
                                 \/ \E item \in Partial : Put(i, item)
        \/ \E c \in Replaced, a \in Arrays : Replace(c, a)
        \/ \E c \in Column, v \in Value : WriteView(c, v)

Spec == Init /\ [][Next]_sVars
-----------------------------------------------------------------------------
(***************************************************************************)
(* Every column has an entry for every row, and a view whose SOA had no    *)
(* column replaced since the view was made shows exactly the row get       *)
(* returns: neither a cached descriptor nor a removal leaves it behind.    *)
(***************************************************************************)
ColumnsSound ==
    /\ \A c, d \in Column : Len(Col(c)) = Len(Col(d))
    /\ views.view # Undef /\ views.view.at = soa.cols =>
          \A c \in Column : soa.data[views.view.arrays[c]] = Col(c)
=============================================================================
