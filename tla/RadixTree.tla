------------------------------ MODULE RadixTree ------------------------------
(***************************************************************************)
(* src/src/RadixTree.ts: a tree of nodes that hold a piece of a key, a     *)
(* value or Undef, and children sorted by the first character of their     *)
(* piece.  Keys are sequences of character codes.                          *)
(***************************************************************************)
EXTENDS Integers, Sequences, SequencesExt, FiniteSets, TLC

CONSTANTS Key,    \* the keys used, a set of sequences of integers
          Value,
          Undef,
          Varied, \* bound: the keys stored with any value,
          Plain   \* bound: and the value the other keys are stored with

VARIABLES tree, tOut

tVars == <<tree, tOut>>

Node(prefix, value, children) ==
    [prefix |-> prefix, value |-> value, children |-> children]

Make == [root |-> Node(<< >>, Undef, << >>), size |-> 0]

Rest(s, n) == SubSeq(s, n + 1, Len(s))
StartsWith(s, p) == Len(s) >= Len(p) /\ SubSeq(s, 1, Len(p)) = p
FirstChar(node) == node.prefix[1]

RECURSIVE Search(_, _, _, _)
Search(children, char, lo, hi) ==
    LET mid == (lo + hi) \div 2
        midChar == FirstChar(children[mid])
    IN  CASE lo > hi         -> 0
          [] lo <= hi /\ midChar = char -> mid
          [] lo <= hi /\ midChar < char -> Search(children, char, mid + 1, hi)
          [] OTHER           -> Search(children, char, lo, mid - 1)

\* The child whose piece begins with char, or 0.
FindChild(children, char) == Search(children, char, 1, Len(children))

FindInsertionIndex(children, char) ==
    1 + Cardinality({i \in DOMAIN children : FirstChar(children[i]) < char})

Spliced(children, node) ==
    InsertAt(children, FindInsertionIndex(children, FirstChar(node)), node)

CommonLen(s, t) ==
    LET agree == {n \in 0..Len(s) : n <= Len(t) /\ SubSeq(s, 1, n) = SubSeq(t, 1, n)}
    IN  CHOOSE n \in agree : \A o \in agree : o <= n

\* The node put in the place of a child that shares only n characters with the key.
SplitNode(child, remaining, value, n) ==
    LET piece == SubSeq(child.prefix, 1, n)
        below == <<[child EXCEPT !.prefix = Rest(child.prefix, n)]>>
    IN  IF n = Len(remaining) THEN Node(piece, value, below)
        ELSE Node(piece, Undef, Spliced(below, Node(Rest(remaining, n), value, << >>)))

\* [node, added]: the node with the rest of the key stored below it.
RECURSIVE InsertBelow(_, _, _)
InsertBelow(node, remaining, value) ==
    LET i == FindChild(node.children, remaining[1])
        child == node.children[i]
        n == CommonLen(remaining, child.prefix)
        deep == InsertBelow(child, Rest(remaining, n), value)
    IN  CASE remaining = << >> ->
               [node |-> [node EXCEPT !.value = value],
                added |-> IF node.value = Undef THEN 1 ELSE 0]
          [] remaining # << >> /\ i = 0 ->
               [node |-> [node EXCEPT !.children = Spliced(@, Node(remaining, value, << >>))],
                added |-> 1]
          [] remaining # << >> /\ i # 0 /\ n = Len(child.prefix) ->
               [node |-> [node EXCEPT !.children[i] = deep.node], added |-> deep.added]
          [] OTHER ->
               [node |-> [node EXCEPT !.children[i] = SplitNode(child, remaining, value, n)],
                added |-> 1]

RECURSIVE LookupBelow(_, _)
LookupBelow(node, rest) ==
    LET i == FindChild(node.children, rest[1])
        piece == node.children[i].prefix
    IN  IF rest = << >> THEN node.value
        ELSE IF i = 0 THEN Undef
        ELSE IF ~ StartsWith(rest, piece) THEN Undef
        ELSE LookupBelow(node.children[i], Rest(rest, Len(piece)))
Lookup(t, key) == LookupBelow(t.root, key)

\* A node other than the root that lost its value and has one child is merged with it.
Merged(node) ==
    IF node.value = Undef /\ Len(node.children) = 1
    THEN LET c == node.children[1] IN Node(node.prefix \o c.prefix, c.value, c.children)
    ELSE node

(***************************************************************************)
(* The value at `rest' taken out below a node that holds it.  A leaf that  *)
(* loses its value leaves its parent, which is merged in turn if it is not *)
(* the root; nothing further up changes.                                   *)
(***************************************************************************)
RECURSIVE RemoveBelow(_, _, _)
RemoveBelow(node, rest, isRoot) ==
    LET i == FindChild(node.children, rest[1])
        child == node.children[i]
        deeper == Rest(rest, Len(child.prefix))
        parent == [node EXCEPT !.children = RemoveAt(@, i)]
    IN  IF rest = << >> THEN IF isRoot THEN [node EXCEPT !.value = Undef]
                             ELSE Merged([node EXCEPT !.value = Undef])
        ELSE IF deeper = << >> /\ child.children = << >>
        THEN IF isRoot THEN parent ELSE Merged(parent)
        ELSE [node EXCEPT !.children[i] = RemoveBelow(child, deeper, FALSE)]

\* The loop of entries and prefixMatch: a stack of nodes with the key that leads to
\* each, a node's own value before its children's.
RECURSIVE Collect(_)
Collect(stack) ==
    IF stack = << >> THEN << >>
    ELSE LET node == Head(stack).node
             key == Head(stack).key
             own == IF node.value = Undef THEN << >> ELSE <<<<key, node.value>>>>
             below == [i \in DOMAIN node.children |->
                         [node |-> node.children[i], key |-> key \o node.children[i].prefix]]
         IN  own \o Collect(below \o Tail(stack))

EntriesBelow(node) == Collect(<<[node |-> node, key |-> << >>]>>)
Entries(t) == EntriesBelow(t.root)

RECURSIVE MatchBelow(_, _)
MatchBelow(node, remaining) ==
    LET i == FindChild(node.children, remaining[1])
        child == node.children[i]
        below == EntriesBelow(node)
    IN  IF remaining = << >> THEN [j \in DOMAIN below |-> below[j][2]]
        ELSE IF i = 0 THEN << >>
        ELSE IF StartsWith(child.prefix, remaining) THEN MatchBelow(child, << >>)
        ELSE IF ~ StartsWith(remaining, child.prefix) THEN << >>
        ELSE MatchBelow(child, Rest(remaining, Len(child.prefix)))
PrefixMatch(t, prefix) == MatchBelow(t.root, prefix)
-----------------------------------------------------------------------------
Init == tree = Make /\ tOut = Undef

Insert(k, v) == /\ v = Plain \/ k \in Varied
                /\ LET r == InsertBelow(tree.root, k, v)
                   IN  tree' = [root |-> r.node, size |-> tree.size + r.added]
                /\ tOut' = Undef

RemoveKey(k) == IF Lookup(tree, k) = Undef THEN UNCHANGED tree /\ tOut' = FALSE
             ELSE /\ tree' = [root |-> RemoveBelow(tree.root, k, TRUE),
                              size |-> tree.size - 1]
                  /\ tOut' = TRUE

\* insert(tree, key, undefined) removes the key and returns nothing.
InsertUndefined(k) == /\ tree' = IF Lookup(tree, k) = Undef THEN tree
                                 ELSE [root |-> RemoveBelow(tree.root, k, TRUE),
                                       size |-> tree.size - 1]
                      /\ tOut' = Undef

Next == \E k \in Key : \/ RemoveKey(k) \/ InsertUndefined(k)
                       \/ \E v \in Value : Insert(k, v)

Spec == Init /\ [][Next]_tVars
-----------------------------------------------------------------------------
Content(t) == [k \in {j \in Key : Lookup(t, j) # Undef} |-> Lookup(t, k)]

(***************************************************************************)
(* The tree implements the map: splitting a node for a new key and merging *)
(* nodes after a removal leave what is stored under every other key alone. *)
(***************************************************************************)
Abstract == INSTANCE Dictionary WITH content <- Content(tree), out <- tOut,
                                    UndefRemoves <- TRUE
EachCall == tVars' # tVars =>
    \A k \in Key : /\ RemoveKey(k) => Abstract!Del(k)
                   /\ InsertUndefined(k) => Abstract!PutUndef(k)
                   /\ \A v \in Value : Insert(k, v) => Abstract!Put(k, v)
IsDictionary == Abstract!Spec /\ [][EachCall]_tVars

(***************************************************************************)
(* The tree is sound: pieces are not empty, children begin with different  *)
(* characters in ascending order, no node but the root is there without a  *)
(* value or two children, size counts the values, entries lists them in    *)
(* the order of the keys, and prefixMatch lists those under a prefix.      *)
(***************************************************************************)
RECURSIVE NodeSound(_)
NodeSound(node) ==
    /\ \A i \in DOMAIN node.children :
          LET c == node.children[i]
          IN  /\ c.prefix # << >>
              /\ c.value # Undef \/ Len(c.children) >= 2
              /\ NodeSound(c)
    /\ \A i, j \in DOMAIN node.children :
          i < j => FirstChar(node.children[i]) < FirstChar(node.children[j])

Before(s, t) == \/ StartsWith(t, s) /\ s # t
                \/ \E n \in 1..Len(s) : /\ n <= Len(t) /\ s[n] < t[n]
                                        /\ SubSeq(s, 1, n - 1) = SubSeq(t, 1, n - 1)

PiecesSound ==
    LET all == Entries(tree)
        stored == {k \in Key : Lookup(tree, k) # Undef}
        Under(p) == SelectSeq(all, LAMBDA e : StartsWith(e[1], p))
    IN  /\ NodeSound(tree.root)
        /\ Len(all) = tree.size
        /\ {all[i] : i \in DOMAIN all} = {<<k, Lookup(tree, k)>> : k \in stored}
        /\ \A i \in 1..Len(all)-1 : Before(all[i][1], all[i + 1][1])
        /\ \A p \in Key : LET under == Under(p)
                         IN  PrefixMatch(tree, p) = [i \in DOMAIN under |-> under[i][2]]
=============================================================================
