----------------------------- MODULE OrderedMap -----------------------------
(***************************************************************************)
(* src/src/OrderedMap.ts: an AVL tree whose nodes are slots of parallel    *)
(* arrays.  Slots are numbered from 0, a missing node is NULL, and freed   *)
(* slots go on a stack.  The arrays double when no slot is free, which     *)
(* happens in the middle of a recursive insert.                            *)
(***************************************************************************)
EXTENDS Integers, Sequences, SequencesExt, FiniteSets, TLC

CONSTANTS Key,      \* a set of integers, compared by defaultCmp
          Value,
          Undef,
          INIT_CAP, \* the slots of a new map (16)
          Varied,   \* bound: the keys stored with any value,
          Plain     \* bound: and the value the other keys are stored with

VARIABLES map, mOut

mVars == <<map, mOut>>

NULL == -1
Slots(m) == 0..(m.len - 1)

Make == [root |-> NULL, size |-> 0, len |-> INIT_CAP,
         free   |-> [i \in 1..INIT_CAP |-> i - 1],
         keys   |-> [s \in 0..INIT_CAP-1 |-> Undef],
         vals   |-> [s \in 0..INIT_CAP-1 |-> Undef],
         left   |-> [s \in 0..INIT_CAP-1 |-> NULL],
         right  |-> [s \in 0..INIT_CAP-1 |-> NULL],
         height |-> [s \in 0..INIT_CAP-1 |-> 0]]

Grown(array, len, default) ==
    [s \in 0..len-1 |-> IF s \in DOMAIN array THEN array[s] ELSE default]

AllocNode(m) ==
    IF m.free # << >> THEN [n |-> Last(m.free), m |-> [m EXCEPT !.free = Front(@)]]
    ELSE LET len == 2 * m.len
         IN  [n |-> m.len,
              m |-> [m EXCEPT !.len = len,
                              !.free = [i \in 1..m.len-1 |-> m.len + i],
                              !.keys = Grown(@, len, Undef), !.vals = Grown(@, len, Undef),
                              !.left = Grown(@, len, NULL), !.right = Grown(@, len, NULL),
                              !.height = Grown(@, len, 0)]]

FreeNode(m, n) ==
    [m EXCEPT !.keys[n] = Undef, !.vals[n] = Undef, !.left[n] = NULL,
              !.right[n] = NULL, !.height[n] = 0, !.free = Append(@, n)]
-----------------------------------------------------------------------------
NodeHeight(m, n) == IF n = NULL THEN 0 ELSE m.height[n]

UpdateHeight(m, n) ==
    LET lh == NodeHeight(m, m.left[n])
        rh == NodeHeight(m, m.right[n])
    IN  [m EXCEPT !.height[n] = 1 + (IF lh > rh THEN lh ELSE rh)]

Other(side) == IF side = "left" THEN "right" ELSE "left"

\* rotateRight when side is "left", rotateLeft when it is "right": the child on
\* the heavy side takes the place of n.
Rotate(m, n, side) ==
    LET c == m[side][n]
        b == m[Other(side)][c]
        turned == [m EXCEPT ![Other(side)][c] = n, ![side][n] = b]
    IN  [n |-> c, m |-> UpdateHeight(UpdateHeight(turned, n), c)]

\* The heavy side of n is first made straight when its inner grandchild is higher.
Lifted(m, n, side) ==
    LET c == m[side][n]
        outer == NodeHeight(m, m[side][c])
        inner == NodeHeight(m, m[Other(side)][c])
        r == Rotate(m, c, Other(side))
    IN  IF outer < inner THEN Rotate([r.m EXCEPT ![side][n] = r.n], n, side)
        ELSE Rotate(m, n, side)

Rebalance(m, n) ==
    LET u == UpdateHeight(m, n)
        bf == NodeHeight(m, m.left[n]) - NodeHeight(m, m.right[n])
    IN  CASE bf > 1  -> Lifted(u, n, "left")
          [] bf < -1 -> Lifted(u, n, "right")
          [] OTHER   -> [n |-> n, m |-> u]

\* The child link written to the arrays as they were before the recursive call.
RECURSIVE InsertNodeStale(_, _, _, _)
InsertNodeStale(m, root, key, val) ==
    IF root = NULL
    THEN LET a == AllocNode(m)
         IN  [n |-> a.n,
              m |-> [a.m EXCEPT !.keys[a.n] = key, !.vals[a.n] = val, !.left[a.n] = NULL,
                                !.right[a.n] = NULL, !.height[a.n] = 1, !.size = @ + 1]]
    ELSE IF key = m.keys[root] THEN [n |-> root, m |-> [m EXCEPT !.vals[root] = val]]
    ELSE LET side == IF key < m.keys[root] THEN "left" ELSE "right"
             child == InsertNodeStale(m, m[side][root], key, val)
         IN  IF child.m.len # m.len THEN Rebalance(child.m, root)
             ELSE Rebalance([child.m EXCEPT ![side][root] = child.n], root)

RECURSIVE InsertNode(_, _, _, _)
InsertNode(m, root, key, val) ==
    IF root = NULL
    THEN LET a == AllocNode(m)
         IN  [n |-> a.n,
              m |-> [a.m EXCEPT !.keys[a.n] = key, !.vals[a.n] = val, !.left[a.n] = NULL,
                                !.right[a.n] = NULL, !.height[a.n] = 1, !.size = @ + 1]]
    ELSE IF key = m.keys[root] THEN [n |-> root, m |-> [m EXCEPT !.vals[root] = val]]
    ELSE LET side == IF key < m.keys[root] THEN "left" ELSE "right"
             child == InsertNode(m, m[side][root], key, val)
         IN  Rebalance([child.m EXCEPT ![side][root] = child.n], root)

RECURSIVE DeleteMin(_, _)
DeleteMin(m, root) ==
    IF m.left[root] = NULL THEN [n |-> m.right[root], m |-> m, min |-> root]
    ELSE LET d == DeleteMin(m, m.left[root])
             r == Rebalance([d.m EXCEPT !.left[root] = d.n], root)
         IN  [n |-> r.n, m |-> r.m, min |-> d.min]

\* The node found: with two children its place goes to its in-order successor.
Unlinked(m, root) ==
    LET l == m.left[root]
        r == m.right[root]
        d == DeleteMin(m, r)
        joined == [d.m EXCEPT !.left[d.min] = l, !.right[d.min] = d.n]
    IN  CASE r = NULL -> [n |-> l, m |-> FreeNode(m, root)]
          [] r # NULL /\ l = NULL -> [n |-> r, m |-> FreeNode(m, root)]
          [] OTHER -> Rebalance(FreeNode(joined, root), d.min)

RECURSIVE DeleteNode(_, _, _)
DeleteNode(m, root, key) ==
    IF root = NULL THEN [n |-> NULL, m |-> m, deleted |-> FALSE]
    ELSE IF key = m.keys[root]
    THEN LET u == Unlinked([m EXCEPT !.size = @ - 1], root)
         IN  [n |-> u.n, m |-> u.m, deleted |-> TRUE]
    ELSE LET side == IF key < m.keys[root] THEN "left" ELSE "right"
             d == DeleteNode(m, m[side][root], key)
             r == Rebalance([d.m EXCEPT ![side][root] = d.n], root)
         IN  IF d.deleted THEN [n |-> r.n, m |-> r.m, deleted |-> TRUE]
             ELSE [n |-> root, m |-> m, deleted |-> FALSE]
-----------------------------------------------------------------------------
RECURSIVE Find(_, _, _)
Find(m, n, key) ==
    IF n = NULL \/ key = m.keys[n] THEN n
    ELSE Find(m, IF key < m.keys[n] THEN m.left[n] ELSE m.right[n], key)

Entry(m, n) == IF n = NULL THEN Undef ELSE <<m.keys[n], m.vals[n]>>
Get(m, key) == LET n == Find(m, m.root, key) IN IF n = NULL THEN Undef ELSE m.vals[n]
Has(m, key) == Find(m, m.root, key) # NULL

RECURSIVE Outermost(_, _, _)
Outermost(m, n, side) == IF n = NULL \/ m[side][n] = NULL THEN n
                         ELSE Outermost(m, m[side][n], side)
MinEntry(m) == Entry(m, Outermost(m, m.root, "left"))
MaxEntry(m) == Entry(m, Outermost(m, m.root, "right"))

\* floor when beyond is "right", ceiling when it is "left": best is the last node
\* from which the descent turned away from the key.
RECURSIVE Nearest(_, _, _, _, _)
Nearest(m, n, key, beyond, best) ==
    IF n = NULL THEN best
    ELSE IF key = m.keys[n] THEN n
    ELSE LET side == IF key < m.keys[n] THEN "left" ELSE "right"
         IN  Nearest(m, m[side][n], key, beyond, IF side = beyond THEN n ELSE best)
Floor(m, key) == Entry(m, Nearest(m, m.root, key, "right", NULL))
Ceiling(m, key) == Entry(m, Nearest(m, m.root, key, "left", NULL))

RECURSIVE LeftSpine(_, _)
LeftSpine(m, n) == IF n = NULL THEN << >> ELSE <<n>> \o LeftSpine(m, m.left[n])

\* The path to the first key that is not below lo.
RECURSIVE SpineFrom(_, _, _)
SpineFrom(m, n, lo) ==
    IF n = NULL THEN << >>
    ELSE IF m.keys[n] >= lo THEN <<n>> \o SpineFrom(m, m.left[n], lo)
    ELSE SpineFrom(m, m.right[n], lo)

\* The in-order walk with an explicit stack, up to the first key outside `within'.
RECURSIVE WalkStack(_, _, _)
WalkStack(m, stack, within) ==
    IF stack = << >> \/ m.keys[Last(stack)] \notin within THEN << >>
    ELSE <<Entry(m, Last(stack))>>
         \o WalkStack(m, Front(stack) \o LeftSpine(m, m.right[Last(stack)]), within)

Entries(m) == WalkStack(m, LeftSpine(m, m.root), Key)
RangeEntries(m, lo, hi) ==
    WalkStack(m, SpineFrom(m, m.root, lo), {k \in Key : k <= hi})
-----------------------------------------------------------------------------
Init == map = Make /\ mOut = Undef

Set(k, v) == /\ v = Plain \/ k \in Varied
             /\ LET r == InsertNode(map, map.root, k, v)
                IN  map' = [r.m EXCEPT !.root = r.n]
             /\ mOut' = Undef

Del(k) == LET d == DeleteNode(map, map.root, k)
          IN  /\ map' = [d.m EXCEPT !.root = d.n]
              /\ mOut' = d.deleted

Next == \E k \in Key : Del(k) \/ \E v \in Value : Set(k, v)

Spec == Init /\ [][Next]_mVars
-----------------------------------------------------------------------------
Held(m) == {s \in Slots(m) : m.keys[s] # Undef}
Content(m) == [k \in {j \in Key : Has(m, j)} |-> Get(m, k)]

(***************************************************************************)
(* The tree implements the map: through rotations, growth in the middle of *)
(* an insert and reuse of freed slots, no entry is lost, kept or changed   *)
(* but the one the call names, and del tells whether it was there.         *)
(***************************************************************************)
Abstract == INSTANCE Dictionary WITH content <- Content(map), out <- mOut,
                                    UndefRemoves <- FALSE
EachCall == mVars' # mVars =>
    \A k \in Key : /\ Del(k) => Abstract!Del(k)
                   /\ \A v \in Value : Set(k, v) => Abstract!Put(k, v)
IsDictionary == Abstract!Spec /\ [][EachCall]_mVars

(***************************************************************************)
(* The tree is sound: its in-order walk lists every held slot once in      *)
(* ascending key order, every node's height is right and its two sides     *)
(* differ by at most one, the slots outside the tree are free and clear,   *)
(* and get, has, min, max, floor, ceiling and range agree with the walk.   *)
(***************************************************************************)
Balanced(m) ==
    \A n \in Held(m) : LET lh == NodeHeight(m, m.left[n])
                           rh == NodeHeight(m, m.right[n])
                       IN  /\ lh - rh \in -1..1
                           /\ m.height[n] = 1 + (IF lh > rh THEN lh ELSE rh)

ReadsAgree(m) ==
    LET all == Entries(m)
        Upto(k) == SelectSeq(all, LAMBDA e : e[1] <= k)
        From(k) == SelectSeq(all, LAMBDA e : e[1] >= k)
        LastOf(s) == IF s = << >> THEN Undef ELSE Last(s)
        HeadOf(s) == IF s = << >> THEN Undef ELSE Head(s)
    IN  /\ Len(all) = m.size
        /\ \A i \in 1..Len(all)-1 : all[i][1] < all[i + 1][1]
        /\ MinEntry(m) = HeadOf(all) /\ MaxEntry(m) = LastOf(all)
        /\ \A k \in Key : /\ Has(m, k) <=> \E i \in DOMAIN all : all[i][1] = k
                          /\ Has(m, k) => \E i \in DOMAIN all : all[i] = <<k, Get(m, k)>>
                          /\ Floor(m, k) = LastOf(Upto(k))
                          /\ Ceiling(m, k) = HeadOf(From(k))
        /\ \A lo, hi \in Key :
              RangeEntries(m, lo, hi) = SelectSeq(all, LAMBDA e : e[1] >= lo /\ e[1] <= hi)

TreeSound ==
    /\ Balanced(map)
    /\ ReadsAgree(map)
    /\ Cardinality(Held(map)) = map.size
    /\ Len(map.free) = map.len - map.size
    /\ {map.free[i] : i \in DOMAIN map.free} = Slots(map) \ Held(map)
=============================================================================
