------------------------------- MODULE Queue -------------------------------
(***************************************************************************)
(* src/src/Queue.ts: a double-ended queue kept in a ring of slots whose    *)
(* number is a power of two.  `queue' is the record the module's functions *)
(* work on, `qOut' what the last call returned.  The slots are numbered    *)
(* from 0 as in the code, and an empty slot holds Undef.  An AND with      *)
(* capacityMask = 2^k - 1 is a remainder modulo capacityMask + 1.          *)
(***************************************************************************)
EXTENDS Integers, Sequences, SequencesExt

CONSTANTS Value,       \* the values pushed
          Undef,       \* JavaScript's undefined
          ShrinkAbove, \* the length beyond which memory is given back (10000)
          MaxItems,    \* bound: the most values the queue holds at a time
          DumpSizes,   \* bound: the sizes at which the queue is dumped
          Marked,      \* bound: values of which the queue holds one at a time
          Initial      \* bound: the items make is given

VARIABLES queue, qOut

qVars == <<queue, qOut>>

Mask(q, x) == x % (q.capacityMask + 1)
ListLength(list) == Cardinality(DOMAIN list)

Resize(list, n) == [i \in 0..n-1 |-> IF i \in DOMAIN list THEN list[i] ELSE Undef]
CopyWithin(list, target, from, to) ==
    [i \in DOMAIN list |-> IF i >= target /\ i < target + (to - from)
                           THEN list[from + (i - target)] ELSE list[i]]
Fill(list, from, to) ==
    [i \in DOMAIN list |-> IF i >= from /\ i < to THEN Undef ELSE list[i]]

Size(q) == Mask(q, q.tail - q.head + ListLength(q.list))

IsEmpty(q) == q.tail = q.head

\* Growth that leaves the wrapped part where it was.
GrowListInPlace(q) ==
    LET len == ListLength(q.list)
        mask == 2 * q.capacityMask + 1
    IN  [q EXCEPT !.list = Resize(q.list, 2 * len),
                  !.capacityMask = mask,
                  !.tail = (q.head + len) % (mask + 1)]

(***************************************************************************)
(* Called when a push has made the ring full: the part that wraps around   *)
(* moves behind the old end.                                               *)
(***************************************************************************)
GrowList(q) ==
    LET len == ListLength(q.list)
        mask == 2 * q.capacityMask + 1
        list == CopyWithin(Resize(q.list, 2 * len), len, 0, q.tail)
    IN  [q EXCEPT !.list = Fill(list, 0, q.tail),
                  !.capacityMask = mask,
                  !.tail = (q.head + len) % (mask + 1)]

TryToShrinkList(q) ==
    LET len == ListLength(q.list)
        count == Size(q)
        front == CopyWithin(q.list, 0, q.head, IF q.tail >= q.head THEN q.tail ELSE len)
        moved == IF q.tail >= q.head THEN front
                 ELSE [i \in DOMAIN front |->
                         IF i >= len - q.head /\ i < len - q.head + q.tail
                         THEN q.list[i - (len - q.head)] ELSE front[i]]
        half == q.capacityMask \div 2
    IN  IF len > ShrinkAbove /\ count < len \div 4
        THEN [q EXCEPT !.tail = count, !.head = 0,
                       !.capacityMask = IF half % 2 = 0 THEN half + 1 ELSE half,
                       !.list = Fill(Resize(moved, len \div 2), count, len \div 2)]
        ELSE q

ShrinkIfLong(q) == IF ListLength(q.list) > ShrinkAbove THEN TryToShrinkList(q) ELSE q

Pushed(q, v) ==
    LET r == [q EXCEPT !.list[q.tail] = v, !.tail = Mask(q, q.tail + 1)]
    IN  IF IsEmpty(r) THEN GrowList(r) ELSE r

Unshifted(q, v) ==
    LET h == Mask(q, q.head - 1 + ListLength(q.list))
        r == [q EXCEPT !.head = h, !.list[h] = v]
    IN  IF IsEmpty(r) THEN GrowList(r) ELSE r

NoItems == [capacityMask |-> 3, head |-> 0, tail |-> 0,
            list |-> [i \in 0..3 |-> Undef], lastDump |-> 0, prevDump |-> 0]
Make(values) ==
    LET made[n \in 0..Len(values)] == IF n = 0 THEN NoItems ELSE Pushed(made[n - 1], values[n])
    IN  made[Len(values)]

Slot(q, i) == Mask(q, q.head + i)
Get(q, i) == q.list[Slot(q, i)]
PeekFront(q) == IF IsEmpty(q) THEN Undef ELSE q.list[q.head]
PeekBack(q) == IF IsEmpty(q) THEN Undef
               ELSE q.list[Mask(q, q.tail - 1 + ListLength(q.list))]

\* The two loops of toArray: up to the tail, or to the end and then from slot 0.
ToArray(q) ==
    LET len == ListLength(q.list)
        end == IF q.tail >= q.head THEN q.tail ELSE len
    IN  [i \in 1..Size(q) |-> IF q.head + i - 1 < end THEN q.list[q.head + i - 1]
                              ELSE q.list[i - 1 + q.head - len]]

\* 1 << (32 - Math.clz32(keep)): the smallest power of two above keep.
NextPower(keep) ==
    CHOOSE p \in {2 ^ k : k \in 0..30} : p > keep /\ p <= 2 * keep

(***************************************************************************)
(* dumpToArray empties the ring and, when it is long, keeps room only for  *)
(* the larger of the two previous dumps.                                   *)
(***************************************************************************)
Dumped(q) ==
    LET len == ListLength(q.list)
        keep == IF q.lastDump > q.prevDump THEN q.lastDump ELSE q.prevDump
        cap == IF keep < 4 THEN 4 ELSE NextPower(keep)
        live == IF q.tail >= q.head THEN q.head..(q.tail - 1)
                ELSE (q.head..(len - 1)) \cup (0..(q.tail - 1))
        cleared == [i \in DOMAIN q.list |-> IF i \in live THEN Undef ELSE q.list[i]]
        cut == len > ShrinkAbove /\ keep < len \div 2
    IN  [q EXCEPT !.head = 0, !.tail = 0,
                  !.list = IF cut THEN Resize(cleared, cap) ELSE cleared,
                  !.capacityMask = IF cut THEN cap - 1 ELSE @,
                  !.prevDump = q.lastDump, !.lastDump = Size(q)]
-----------------------------------------------------------------------------
Init == \E values \in Initial : queue = Make(values) /\ qOut = Undef

\* The bounds on what is stored: the code moves values without looking at them,
\* so one marked value among equal ones shows every misplacement.
Fits(v) == v \in Marked => \A i \in DOMAIN queue.list : queue.list[i] \notin Marked

Push(v) == /\ Size(queue) < MaxItems /\ Fits(v)
           /\ queue' = Pushed(queue, v)
           /\ qOut' = Undef

Unshift(v) == /\ Size(queue) < MaxItems /\ Fits(v)
              /\ queue' = Unshifted(queue, v)
              /\ qOut' = Undef

Pop == IF IsEmpty(queue) THEN UNCHANGED queue /\ qOut' = Undef
       ELSE LET t == Mask(queue, queue.tail - 1 + ListLength(queue.list))
            IN  /\ queue' = ShrinkIfLong([queue EXCEPT !.tail = t, !.list[t] = Undef])
                /\ qOut' = queue.list[t]

Shift == IF IsEmpty(queue) THEN UNCHANGED queue /\ qOut' = Undef
         ELSE LET h == queue.head
              IN  /\ queue' = ShrinkIfLong([queue EXCEPT !.list[h] = Undef,
                                                         !.head = Mask(queue, h + 1)])
                  /\ qOut' = queue.list[h]

\* set and swap do not check their indices: the caller stays below size.
Put(i, v) == /\ Fits(v)
             /\ queue' = [queue EXCEPT !.list[Slot(queue, i)] = v]
             /\ qOut' = Undef

Swap(i, j) ==
    LET ri == Slot(queue, i)
        rj == Slot(queue, j)
    IN  /\ queue' = [queue EXCEPT !.list[ri] = queue.list[rj], !.list[rj] = queue.list[ri]]
        /\ qOut' = Undef

DumpToArray == /\ Size(queue) \in DumpSizes
               /\ queue' = Dumped(queue)
               /\ qOut' = ToArray(queue)

Indices == 0..(Size(queue) - 1)

Next == \/ \E v \in Value : Push(v) \/ Unshift(v)
        \/ Pop \/ Shift \/ DumpToArray
        \/ \E i \in Indices, v \in Value : Put(i, v)
        \/ \E i \in {0}, j \in Indices : Swap(i, j)

Spec == Init /\ [][Next]_qVars
-----------------------------------------------------------------------------
(***************************************************************************)
(* The ring implements the double-ended queue: across growth, shrinking    *)
(* and dumps, with head and tail anywhere in the ring, the values stay in  *)
(* order and every call returns what the abstract queue returns.           *)
(***************************************************************************)
Abstract == INSTANCE Deque WITH items <- ToArray(queue), out <- qOut
EachCall == qVars' # qVars =>
    /\ \A v \in Value : /\ Push(v) => Abstract!Push(v)
                        /\ Unshift(v) => Abstract!Unshift(v)
                        /\ \A i \in Indices : Put(i, v) => Abstract!Put(i + 1, v)
    /\ Pop => Abstract!Pop
    /\ Shift => Abstract!Shift
    /\ DumpToArray => Abstract!Dump
    /\ \A j \in Indices : Swap(0, j) => Abstract!Swap(1, j + 1)
IsDeque == Abstract!Spec /\ [][EachCall]_qVars

(***************************************************************************)
(* The ring is consistent: the mask fits the number of slots, the ring is  *)
(* never full, every slot outside the live part is empty (nothing that     *)
(* left the queue is kept alive), and get, peekFront and peekBack see the  *)
(* values toArray lists.                                                   *)
(***************************************************************************)
RingSound ==
    LET all == ToArray(queue)
        live == {Slot(queue, i) : i \in Indices}
    IN  /\ ListLength(queue.list) = queue.capacityMask + 1
        /\ Size(queue) < ListLength(queue.list)
        /\ \A i \in DOMAIN queue.list : queue.list[i] = Undef <=> i \notin live
        /\ \A i \in Indices : Get(queue, i) = all[i + 1]
        /\ PeekFront(queue) = (IF all = << >> THEN Undef ELSE Head(all))
        /\ PeekBack(queue) = (IF all = << >> THEN Undef ELSE Last(all))
=============================================================================
