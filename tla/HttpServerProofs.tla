-------------------------- MODULE HttpServerProofs --------------------------
(***************************************************************************)
(* A connection of the server, for any stream of requests, any way to cut  *)
(* it into chunks and any interleaving of handlers, timers and 'drain'.    *)
(*                                                                         *)
(* The buffer is a window of the client's stream that ends at what has     *)
(* arrived and in which the part not yet dispatched begins with a request. *)
(* From this what tryParse finds follows: the kind of that request and how *)
(* much of it has arrived decide the outcome, wherever the search started. *)
(***************************************************************************)
EXTENDS HttpServer, SequenceTheorems, WellFoundedInduction, TLAPS

Part == {"empty", "bare", "head", "tail", "body"}
Unit == [req : Nat, part : Part]
Answer == [req : Nat, close : BOOLEAN, late : BOOLEAN]

ConnState ==
  [buf : Seq(Unit), need : Nat, scan : Nat, hdrSince : {"none", "running", "expired"}, skip : Nat,
   paused : BOOLEAN, awaiting : BOOLEAN, dead : BOOLEAN, keepAlive : BOOLEAN,
   inflight : {0, 1}, timeoutDeferred : BOOLEAN,
   running : BOOLEAN, offset : Nat, tick : BOOLEAN,
   state : {"none", "open", "ended", "destroyed", "closed"}, out : {"empty", "some", "full"},
   reading : BOOLEAN, onDrain : BOOLEAN, timer : BOOLEAN, fin : BOOLEAN,
   stream : Seq(Kinds), arrived : Nat, dispatched : Seq(Nat), sent : Seq(Answer),
   rejected : BOOLEAN]

\* the units before the head of a request, and all of them
HeadAt(k) == IF k = "long" THEN MaxHeaderSize ELSE IF k \in {"blank", "bare"} THEN 1 ELSE 0
SizeOf(k) == HeadAt(k) + 2 + (IF k = "body" THEN 1 ELSE 0)

\* how many requests were dispatched, and the next one
Count(s) == Len(s.dispatched)
NextKind(s) == s.stream[Count(s) + 1]

\* where in the buffer the next request begins
Off(s) == IF s.running THEN s.offset ELSE s.skip

\* the buffer is what arrived last, and what is not dispatched begins at off
WindowAt(s, off) ==
  /\ off <= Len(s.buf) /\ Len(s.buf) <= s.arrived
  /\ s.arrived - Len(s.buf) + off = EndOf(s, Count(s))
  /\ \A i \in 1..Len(s.buf) : s.buf[i] = Units(s)[s.arrived - Len(s.buf) + i]

Window(s) == WindowAt(s, Off(s))

FrameInv(s) ==
  /\ s.arrived <= Len(Units(s)) /\ Count(s) <= Len(s.stream)
  /\ \A i \in 1..Count(s) : s.dispatched[i] = i /\ s.stream[i] \in Wellformed
  /\ s.rejected => s.dead /\ Count(s) < Len(s.stream) /\ NextKind(s) \notin Wellformed
  /\ ~s.dead => Window(s)

\* what tryParse left behind; the request has not arrived wherever dispatch
\* was not suspended
ParseInv(s) ==
  ~s.dead /\ ~s.running =>
    /\ Count(s) < Len(s.stream) =>
         /\ s.scan <= s.skip + HeadAt(NextKind(s))
         /\ NextKind(s) = "bare" => s.scan <= s.skip
    /\ s.need > 0 => /\ s.skip = 0 /\ Count(s) < Len(s.stream) /\ s.need = SizeOf(NextKind(s))
                     /\ Len(s.buf) >= HeadAt(NextKind(s)) + 2
    /\ ~s.paused => Count(s) = Len(s.stream) \/ s.arrived < EndOf(s, Count(s) + 1)
    /\ s.hdrSince # "none" <=>
         /\ HeadersTimeout /\ ~s.paused /\ Count(s) < Len(s.stream)
         /\ EndOf(s, Count(s)) < s.arrived
         /\ s.arrived < EndOf(s, Count(s)) + HeadAt(NextKind(s)) + 2

\* what the connection waits for
ModeInv(s) ==
  /\ s.running => ~s.paused /\ ~s.awaiting /\ ~s.tick /\ ~s.onDrain
  /\ s.awaiting => s.paused /\ ~s.onDrain /\ ~s.tick /\ (s.dead \/ s.inflight = 1)
  /\ s.tick => s.paused /\ ~s.onDrain /\ s.inflight = 0
  /\ s.onDrain => s.paused /\ s.inflight = 0 /\ (s.state = "open" => s.out = "full")
  /\ s.paused => s.awaiting \/ s.tick \/ s.onDrain
  /\ s.inflight = 1 => s.running \/ s.awaiting \/ s.dead
  /\ ~s.reading => s.paused \/ s.dead
  /\ s.dead => s.state # "open"
  /\ s.state = "closed" => s.dead
  /\ s.state = "ended" => s.dead \/ s.fin \/ s.running \/ s.paused
  /\ s.state = "none" => s = NewConn(s.stream)
  /\ s.running => s.skip = 0 \/ s.dead

AnswerInv(s, closed) ==
  /\ Len(s.sent) <= Count(s) /\ Count(s) <= Len(s.sent) + 1
  /\ s.state = "open" => Count(s) = Len(s.sent) + s.inflight
  /\ s.state = "open" /\ s.inflight = 1 /\ (closed \/ s.stream[Count(s)] = "close") => ~s.keepAlive
  /\ \A i \in 1..Len(s.sent) :
       /\ s.sent[i].req = i
       /\ s.sent[i].late \/ s.stream[i] = "close" => s.sent[i].close
       /\ s.sent[i].close => i = Count(s) /\ s.state # "open" /\ s.dead

ConnInv(s, closed) == FrameInv(s) /\ ParseInv(s) /\ ModeInv(s) /\ AnswerInv(s, closed)

ServerInv ==
  /\ closing \in BOOLEAN /\ conn \in [Conn -> ConnState]
  /\ \A c \in Conn : ConnInv(conn[c], closing)

-----------------------------------------------------------------------------
(* The client's stream. *)

\* A non-empty set of naturals has a least element.
LEMMA NatHasLeast ==
  ASSUME NEW S \in SUBSET Nat, S # {}
  PROVE  \E m \in S : \A n \in S : m <= n
<1>1. PICK m \in S : \A n \in S : <<n, m>> \notin OpToRel(<, Nat)
  BY WFMin, NatLessThanWellFounded
<1>2. \A n \in S : ~(n < m)
  BY <1>1 DEF OpToRel
<1>. QED
  BY <1>2

\* The units of a request: what comes before its head, the head, the tail and
\* a body if it has one.
LEMMA FormatIs ==
  ASSUME NEW k \in Kinds
  PROVE  /\ HeadAt(k) \in Nat /\ SizeOf(k) \in Nat /\ SizeOf(k) >= HeadAt(k) + 2
         /\ Format[k] \in Seq(Part) /\ Len(Format[k]) = SizeOf(k)
         /\ \A j \in 1..SizeOf(k) :
              Format[k][j] = IF j <= HeadAt(k) THEN (IF k = "bare" THEN "bare" ELSE "empty")
                             ELSE IF j = HeadAt(k) + 1 THEN "head"
                             ELSE IF j = HeadAt(k) + 2 THEN "tail" ELSE "body"
<1>1. /\ k \in {"plain", "close", "body", "blank", "refused", "bare", "long"}
      /\ MaxHeaderSize \in Nat
  BY StreamAssumption, OptionsAssumption DEF Format
<1>2. CASE k \in {"plain", "close", "refused"}
  <2>1. Format[k] = <<"head", "tail">> /\ HeadAt(k) = 0 /\ SizeOf(k) = 2 /\ k # "bare"
    BY <1>2 DEF Format, HeadAt, SizeOf
  <2>. QED
    BY <2>1 DEF Part
<1>3. CASE k = "body"
  <2>1. Format[k] = <<"head", "tail", "body">> /\ HeadAt(k) = 0 /\ SizeOf(k) = 3
    BY <1>3 DEF Format, HeadAt, SizeOf
  <2>. QED
    BY <1>3, <2>1 DEF Part
<1>4. CASE k = "blank"
  <2>1. Format[k] = <<"empty", "head", "tail">> /\ HeadAt(k) = 1 /\ SizeOf(k) = 3
    BY <1>4 DEF Format, HeadAt, SizeOf
  <2>. QED
    BY <1>4, <2>1 DEF Part
<1>5. CASE k = "bare"
  <2>1. Format[k] = <<"bare", "head", "tail">> /\ HeadAt(k) = 1 /\ SizeOf(k) = 3
    BY <1>5 DEF Format, HeadAt, SizeOf
  <2>. QED
    BY <1>5, <2>1 DEF Part
<1>6. CASE k = "long"
  <2>. DEFINE m == MaxHeaderSize
              f == [i \in 1..(m + 2) |->
                      IF i <= m THEN "empty" ELSE IF i = m + 1 THEN "head" ELSE "tail"]
  <2>1. Format[k] = f /\ HeadAt(k) = m /\ SizeOf(k) = m + 2
    BY <1>1, <1>6 DEF Format, HeadAt, SizeOf
  <2>2. f \in Seq(Part) /\ Len(f) = m + 2
    BY <1>1 DEF Part
  <2>3. \A j \in 1..(m + 2) : f[j] = IF j <= m THEN "empty" ELSE IF j = m + 1 THEN "head" ELSE "tail"
    OBVIOUS
  <2>. HIDE DEF f
  <2>. QED
    BY <1>1, <1>6, <2>1, <2>2, <2>3
<1>. QED
  BY <1>1, <1>2, <1>3, <1>4, <1>5, <1>6

\* The recursive definition of what the first requests are has a solution.
LEMMA FirstUnitsIs ==
  ASSUME NEW t, Len(t) \in Nat
  PROVE  /\ FirstUnits(t)[0] = <<>>
         /\ \A i \in 1..Len(t) : FirstUnits(t)[i] = FirstUnits(t)[i - 1] \o Block(t, i)
<1>. DEFINE N == Len(t)
            Body(g, i) == IF i = 0 THEN <<>> ELSE g[i - 1] \o Block(t, i)
            P(g, n) == g = [i \in 0..n |-> Body(g, i)]
            Bad == {n \in Nat : ~\E g : P(g, n)}
            F == FirstUnits(t)
<1>1. Bad = {}
  <2>. SUFFICES ASSUME Bad # {}  PROVE FALSE
    OBVIOUS
  <2>1. PICK m \in Bad : \A k \in Bad : m <= k
    BY NatHasLeast
  <2>2. CASE m = 0
    <3>. DEFINE h == [i \in 0..0 |-> <<>>]
    <3>1. P(h, 0)
      OBVIOUS
    <3>. QED
      BY <2>1, <2>2, <3>1
  <2>3. CASE m # 0
    <3>0. m \in Nat
      OBVIOUS
    <3>1. m - 1 \in Nat /\ m - 1 \notin Bad
      <4>. HIDE DEF Bad
      <4>. QED
        BY <2>1, <2>3, <3>0
    <3>2. PICK g : P(g, m - 1)
      BY <3>1
    <3>. DEFINE h == [i \in 0..m |-> IF i < m THEN g[i] ELSE Body(g, m)]
    <3>3. \A i \in 0..(m - 1) : g[i] = Body(g, i)
      <4>. HIDE DEF Body
      <4>. QED
        BY <3>2
    <3>4. ASSUME NEW i \in 0..m  PROVE h[i] = Body(h, i)
      <4>1. CASE i = 0
        <5>1. h[i] = g[0] /\ g[0] = <<>>
          BY <2>3, <3>1, <3>3, <4>1
        <5>. QED
          BY <4>1, <5>1
      <4>2. CASE i # 0
        <5>1. i - 1 \in 0..m /\ i - 1 < m
          BY <4>2
        <5>2. h[i - 1] = g[i - 1]
          BY <5>1
        <5>3. h[i] = Body(g, i)
          <6>1. CASE i < m
            BY <3>1, <3>3, <6>1
          <6>2. CASE ~(i < m)
            BY <6>2
          <6>. QED
            BY <6>1, <6>2
        <5>. HIDE DEF h
        <5>. QED
          BY <4>2, <5>2, <5>3
      <4>. QED
        BY <4>1, <4>2
    <3>5. P(h, m)
      <4>1. h = [i \in 0..m |-> h[i]]
        OBVIOUS
      <4>. HIDE DEF h, Body
      <4>. QED
        BY <3>4, <4>1
    <3>. QED
      BY <2>1, <3>5
  <2>. QED
    BY <2>2, <2>3
<1>2. \E g : P(g, N)
  BY <1>1
<1>3. F = CHOOSE g : P(g, N)
  BY DEF FirstUnits
<1>4. P(F, N)
  <2>. HIDE DEF P, F
  <2>. QED
    BY <1>2, <1>3
<1>. HIDE DEF F
<1>5. \A i \in 0..N : F[i] = Body(F, i)
  <2>. HIDE DEF Body
  <2>. QED
    BY <1>4
<1>6. F[0] = <<>>
  BY <1>5
<1>7. ASSUME NEW i \in 1..N  PROVE F[i] = F[i - 1] \o Block(t, i)
  <2>1. i \in 0..N /\ i # 0
    OBVIOUS
  <2>2. F[i] = Body(F, i)
    BY <1>5, <2>1
  <2>. QED
    BY <2>1, <2>2
<1>. QED
  BY <1>6, <1>7 DEF F

\* The stream is the requests' units one after the other.
LEMMA FirstUnitsType ==
  ASSUME NEW t \in Seq(Kinds)
  PROVE  /\ Len(FirstUnits(t)[0]) = 0
         /\ \A i \in 0..Len(t) : FirstUnits(t)[i] \in Seq(Unit) /\ Len(FirstUnits(t)[i]) \in Nat
         /\ \A i \in 1..Len(t) :
              Len(FirstUnits(t)[i]) = Len(FirstUnits(t)[i - 1]) + SizeOf(t[i])
<1>. DEFINE F == FirstUnits(t)
            N == Len(t)
            Bad == {i \in 0..N : F[i] \notin Seq(Unit)}
<1>0. N \in Nat
  OBVIOUS
<1>1. F[0] = <<>> /\ \A i \in 1..N : F[i] = F[i - 1] \o Block(t, i)
  BY <1>0, FirstUnitsIs
<1>. HIDE DEF F
<1>2. ASSUME NEW i \in 1..N
      PROVE  Block(t, i) \in Seq(Unit) /\ Len(Block(t, i)) = SizeOf(t[i])
  <2>1. t[i] \in Kinds
    OBVIOUS
  <2>. DEFINE f == Format[t[i]]
              n == SizeOf(t[i])
  <2>2. f \in Seq(Part) /\ Len(f) = n /\ n \in Nat
    BY <2>1, FormatIs
  <2>3. Block(t, i) = [j \in 1..Len(f) |-> [req |-> i, part |-> f[j]]]
    BY DEF Block
  <2>. HIDE DEF f, n
  <2>4. \A j \in 1..n : [req |-> i, part |-> f[j]] \in Unit
    BY <2>2 DEF Unit
  <2>5. Block(t, i) = [j \in 1..n |-> [req |-> i, part |-> f[j]]]
    BY <2>2, <2>3
  <2>6. Block(t, i) \in Seq(Unit) /\ Len(Block(t, i)) = n
    BY <2>2, <2>4, <2>5
  <2>. QED
    BY <2>6 DEF n
<1>3. Bad = {}
  <2>. SUFFICES ASSUME Bad # {}  PROVE FALSE
    OBVIOUS
  <2>0. Bad \in SUBSET Nat
    BY <1>0
  <2>1. PICK m \in Bad : \A k \in Bad : m <= k
    BY <2>0, NatHasLeast
  <2>2. m \in 0..N /\ F[m] \notin Seq(Unit)
    OBVIOUS
  <2>3. m # 0
    <3>1. <<>> \in Seq(Unit)
      OBVIOUS
    <3>. QED
      BY <1>1, <2>2, <3>1
  <2>4. m \in 1..N /\ m - 1 \in 0..N /\ m - 1 \notin Bad
    <3>. HIDE DEF Bad
    <3>. QED
      BY <1>0, <2>1, <2>2, <2>3
  <2>5. F[m - 1] \in Seq(Unit)
    BY <2>4
  <2>6. F[m] \in Seq(Unit)
    BY ZenonT(30), <1>1, <1>2, <2>4, <2>5, ConcatProperties
  <2>. QED
    BY <2>2, <2>6
<1>4. \A i \in 0..N : F[i] \in Seq(Unit) /\ Len(F[i]) \in Nat
  BY <1>3
<1>5. \A i \in 1..N : Len(F[i]) = Len(F[i - 1]) + SizeOf(t[i])
  <2>. SUFFICES ASSUME NEW i \in 1..N  PROVE Len(F[i]) = Len(F[i - 1]) + SizeOf(t[i])
    OBVIOUS
  <2>1. i - 1 \in 0..N
    BY <1>0
  <2>2. F[i - 1] \in Seq(Unit) /\ Block(t, i) \in Seq(Unit) /\ Len(Block(t, i)) = SizeOf(t[i])
    BY <1>2, <1>4, <2>1
  <2>3. Len(F[i - 1] \o Block(t, i)) = Len(F[i - 1]) + Len(Block(t, i))
    BY <2>2, ConcatProperties
  <2>. QED
    BY <1>1, <2>2, <2>3
<1>6. Len(F[0]) = 0
  BY <1>1
<1>. QED
  BY <1>4, <1>5, <1>6 DEF F

\* What the first requests are is the beginning of the stream.
LEMMA FirstUnitsGrow ==
  ASSUME NEW t \in Seq(Kinds), NEW i \in 0..Len(t)
  PROVE  \A m \in i..Len(t) :
           /\ Len(FirstUnits(t)[i]) <= Len(FirstUnits(t)[m])
           /\ \A j \in 1..Len(FirstUnits(t)[i]) : FirstUnits(t)[m][j] = FirstUnits(t)[i][j]
<1>. DEFINE F == FirstUnits(t)
            N == Len(t)
            Good(m) == Len(F[i]) <= Len(F[m]) /\ \A j \in 1..Len(F[i]) : F[m][j] = F[i][j]
            Bad == {m \in i..N : ~Good(m)}
<1>0. N \in Nat
  OBVIOUS
<1>1. \A k \in 1..N : F[k] = F[k - 1] \o Block(t, k)
  BY <1>0, FirstUnitsIs
<1>2. \A k \in 0..N : F[k] \in Seq(Unit) /\ Len(F[k]) \in Nat
  BY FirstUnitsType
<1>3. ASSUME NEW k \in 1..N  PROVE Block(t, k) \in Seq(Unit)
  <2>1. t[k] \in Kinds
    OBVIOUS
  <2>. DEFINE f == Format[t[k]]
  <2>2. f \in Seq(Part)
    BY <2>1, FormatIs
  <2>3. Block(t, k) = [j \in 1..Len(f) |-> [req |-> k, part |-> f[j]]]
    BY DEF Block
  <2>. HIDE DEF f
  <2>4. \A j \in 1..Len(f) : [req |-> k, part |-> f[j]] \in Unit
    BY <2>2 DEF Unit
  <2>. QED
    BY <2>2, <2>3, <2>4
<1>. HIDE DEF F
<1>4. Bad = {}
  <2>. SUFFICES ASSUME Bad # {}  PROVE FALSE
    OBVIOUS
  <2>0. Bad \in SUBSET Nat
    BY <1>0
  <2>1. PICK m \in Bad : \A k \in Bad : m <= k
    BY <2>0, NatHasLeast
  <2>2. m \in i..N /\ ~Good(m)
    OBVIOUS
  <2>3. m # i
    BY <1>2, <2>2
  <2>4. m \in 1..N /\ m - 1 \in i..N /\ m - 1 \in 0..N /\ m - 1 \notin Bad
    <3>. HIDE DEF Bad
    <3>. QED
      BY <1>0, <2>1, <2>2, <2>3
  <2>. DEFINE p == F[m - 1]
              q == Block(t, m)
  <2>5. Good(m - 1) /\ p \in Seq(Unit) /\ q \in Seq(Unit) /\ F[m] = p \o q
    BY <1>1, <1>2, <1>3, <2>4
  <2>6. /\ Len(p \o q) = Len(p) + Len(q) /\ Len(q) \in Nat /\ Len(p) \in Nat
        /\ \A j \in 1..Len(p) : (p \o q)[j] = p[j]
    <3>. HIDE DEF p, q
    <3>1. /\ Len(p \o q) = Len(p) + Len(q) /\ Len(q) \in Nat /\ Len(p) \in Nat
          /\ \A j \in 1..(Len(p) + Len(q)) : (p \o q)[j] = IF j <= Len(p) THEN p[j] ELSE q[j - Len(p)]
      BY <2>5, ConcatProperties
    <3>. QED
      BY <3>1
  <2>7. Len(F[i]) \in Nat
    BY <1>2
  <2>8. Len(F[i]) <= Len(p) /\ \A j \in 1..Len(F[i]) : p[j] = F[i][j]
    BY <2>5
  <2>. HIDE DEF p, q
  <2>9. Good(m)
    BY <2>5, <2>6, <2>7, <2>8
  <2>. QED
    BY <2>2, <2>9
<1>5. \A m \in i..N : Good(m)
  BY <1>4
<1>. QED
  BY <1>5 DEF F

\* Units and EndOf describe the stream: request i is between EndOf(s, i - 1)
\* and EndOf(s, i).
LEMMA StreamIs ==
  ASSUME NEW s, s.stream \in Seq(Kinds)
  PROVE  /\ EndOf(s, 0) = 0 /\ Len(Units(s)) = EndOf(s, Len(s.stream)) /\ Units(s) \in Seq(Unit)
         /\ \A i \in 0..Len(s.stream) : EndOf(s, i) \in Nat /\ EndOf(s, i) <= Len(Units(s))
         /\ \A i \in 1..Len(s.stream) :
              /\ s.stream[i] \in Kinds
              /\ EndOf(s, i) = EndOf(s, i - 1) + SizeOf(s.stream[i])
              /\ \A j \in 1..SizeOf(s.stream[i]) :
                   Units(s)[EndOf(s, i - 1) + j] = [req |-> i, part |-> Format[s.stream[i]][j]]
<1>. DEFINE t == s.stream
            N == Len(t)
            F == FirstUnits(t)
<1>0. N \in Nat /\ t \in Seq(Kinds)
  OBVIOUS
<1>1. /\ Units(s) = F[N] /\ \A i : EndOf(s, i) = Len(F[i])
  BY DEF Units, EndOf
<1>. HIDE DEF t
<1>2. /\ Len(F[0]) = 0
      /\ \A i \in 0..N : F[i] \in Seq(Unit) /\ Len(F[i]) \in Nat
      /\ \A i \in 1..N : Len(F[i]) = Len(F[i - 1]) + SizeOf(t[i])
  BY <1>0, FirstUnitsType
<1>3. \A i \in 1..N : F[i] = F[i - 1] \o Block(t, i)
  BY <1>0, FirstUnitsIs
<1>4. ASSUME NEW i \in 0..N  PROVE Len(F[i]) <= Len(F[N])
  <2>1. N \in i..N
    BY <1>0
  <2>. QED
    BY <1>0, <2>1, FirstUnitsGrow
<1>5. ASSUME NEW i \in 1..N, NEW j \in 1..SizeOf(t[i])
      PROVE  F[N][Len(F[i - 1]) + j] = [req |-> i, part |-> Format[t[i]][j]]
  <2>. DEFINE p == F[i - 1]
              q == Block(t, i)
              f == Format[t[i]]
              n == SizeOf(t[i])
  <2>1. t[i] \in Kinds /\ i - 1 \in 0..N /\ i \in 0..N /\ N \in i..N
    BY <1>0
  <2>2. f \in Seq(Part) /\ Len(f) = n /\ n \in Nat
    BY <2>1, FormatIs
  <2>3. q = [k \in 1..Len(f) |-> [req |-> i, part |-> f[k]]]
    BY DEF Block
  <2>4. p \in Seq(Unit) /\ Len(p) \in Nat /\ F[i] = p \o q /\ Len(F[i]) = Len(p) + n
    BY <1>2, <1>3, <2>1
  <2>. HIDE DEF f, n
  <2>5. \A k \in 1..n : [req |-> i, part |-> f[k]] \in Unit
    BY <2>2 DEF Unit
  <2>6. q \in Seq(Unit) /\ Len(q) = n /\ \A k \in 1..n : q[k] = [req |-> i, part |-> f[k]]
    BY <2>2, <2>3, <2>5
  <2>7. j \in 1..n
    BY DEF n
  <2>. DEFINE u == Len(p) + j
  <2>8. (p \o q)[u] = q[j]
    <3>. HIDE DEF p, q
    <3>1. \A k \in 1..(Len(p) + Len(q)) : (p \o q)[k] = IF k <= Len(p) THEN p[k] ELSE q[k - Len(p)]
      BY <2>4, <2>6, ConcatProperties
    <3>2. u \in 1..(Len(p) + Len(q)) /\ ~(u <= Len(p)) /\ u - Len(p) = j
      BY <2>2, <2>4, <2>6, <2>7
    <3>. QED
      BY <3>1, <3>2
  <2>9. u \in 1..Len(F[i])
    <3>. HIDE DEF p, q, F
    <3>. QED
      BY <2>2, <2>4, <2>7
  <2>10. F[N][u] = F[i][u]
    BY <1>0, <2>1, <2>9, FirstUnitsGrow
  <2>. QED
    BY <2>4, <2>6, <2>7, <2>8, <2>10 DEF f
<1>6. \A i \in 1..N : t[i] \in Kinds
  BY <1>0
<1>. HIDE DEF F
<1>7. \A i \in 0..N : EndOf(s, i) \in Nat /\ EndOf(s, i) <= Len(Units(s))
  BY <1>1, <1>2, <1>4
<1>8. EndOf(s, 0) = 0 /\ Len(Units(s)) = EndOf(s, N) /\ Units(s) \in Seq(Unit)
  BY <1>0, <1>1, <1>2
<1>9. \A i \in 1..N :
        /\ EndOf(s, i) = EndOf(s, i - 1) + SizeOf(t[i])
        /\ \A j \in 1..SizeOf(t[i]) :
             Units(s)[EndOf(s, i - 1) + j] = [req |-> i, part |-> Format[t[i]][j]]
  <2>. SUFFICES ASSUME NEW i \in 1..N
                PROVE  /\ EndOf(s, i) = EndOf(s, i - 1) + SizeOf(t[i])
                       /\ \A j \in 1..SizeOf(t[i]) :
                            Units(s)[EndOf(s, i - 1) + j] = [req |-> i, part |-> Format[t[i]][j]]
    OBVIOUS
  <2>1. EndOf(s, i) = Len(F[i]) /\ EndOf(s, i - 1) = Len(F[i - 1]) /\ Units(s) = F[N]
    BY <1>1
  <2>2. EndOf(s, i) = EndOf(s, i - 1) + SizeOf(t[i])
    BY <1>2, <2>1
  <2>. QED
    BY <1>5, <2>1, <2>2
<1>. QED
  BY <1>6, <1>7, <1>8, <1>9 DEF t

-----------------------------------------------------------------------------
(* tryParse. *)

\* the buffer from off on begins with request n + 1, of kind k, as far as it
\* has arrived
Begins(buf, off, n, k) ==
  \A j \in 1..SizeOf(k) : off + j <= Len(buf) =>
    buf[off + j].req = n + 1 /\ buf[off + j].part = Format[k][j]

\* The kinds, by what their units look like.
LEMMA KindIs ==
  ASSUME NEW k \in Kinds
  PROVE  /\ k = "long" => HeadAt(k) = MaxHeaderSize
         /\ k # "long" => HeadAt(k) \in {0, 1}
         /\ k = "bare" => HeadAt(k) = 1
         /\ k \in Wellformed <=> k \notin {"long", "bare", "refused"}
         /\ SizeOf(k) = HeadAt(k) + 2 + (IF k = "body" THEN 1 ELSE 0)
         /\ HeadAt(k) \in Nat /\ SizeOf(k) \in Nat /\ MaxHeaderSize \in Nat /\ MaxHeaderSize > 2
<1>1. k \in {"plain", "close", "body", "blank", "refused", "bare", "long"}
  BY StreamAssumption DEF Format
<1>2. MaxHeaderSize \in Nat /\ MaxHeaderSize > 2
  BY OptionsAssumption
<1>3. HeadAt(k) \in Nat
  BY <1>2 DEF HeadAt
<1>4. SizeOf(k) \in Nat
  BY <1>3 DEF SizeOf
<1>. QED
  BY <1>1, <1>2, <1>3, <1>4 DEF HeadAt, SizeOf, Wellformed

\* The parts in the buffer, by their position in the request.
LEMMA PartsAre ==
  ASSUME NEW k \in Kinds, NEW buf, Len(buf) \in Nat, NEW off \in Nat, NEW n, Begins(buf, off, n, k),
         NEW i \in Nat, off < i, i <= Len(buf), i <= off + HeadAt(k) + 2
  PROVE  /\ buf[i].req = n + 1
         /\ i <= off + HeadAt(k) => buf[i].part = IF k = "bare" THEN "bare" ELSE "empty"
         /\ i = off + HeadAt(k) + 1 => buf[i].part = "head"
         /\ i = off + HeadAt(k) + 2 => buf[i].part = "tail"
<1>. DEFINE h == HeadAt(k)
            j == i - off
            f == Format[k]
<1>1. /\ h \in Nat /\ SizeOf(k) \in Nat /\ SizeOf(k) >= h + 2
      /\ \A m \in 1..SizeOf(k) :
           f[m] = IF m <= h THEN (IF k = "bare" THEN "bare" ELSE "empty")
                  ELSE IF m = h + 1 THEN "head" ELSE IF m = h + 2 THEN "tail" ELSE "body"
  BY FormatIs
<1>2. /\ j \in 1..SizeOf(k) /\ off + j = i
      /\ i <= off + h <=> j <= h
      /\ i = off + h + 1 <=> j = h + 1
      /\ i = off + h + 2 <=> j = h + 2
  <2>1. i <= off + h + 2
    OBVIOUS
  <2>. HIDE DEF h
  <2>. QED
    BY <1>1, <2>1
<1>3. buf[i].req = n + 1 /\ buf[i].part = f[j]
  <2>. HIDE DEF j, f
  <2>. QED
    BY <1>2 DEF Begins, f
<1>. HIDE DEF j, h, f
<1>4. f[j] = IF j <= h THEN (IF k = "bare" THEN "bare" ELSE "empty")
             ELSE IF j = h + 1 THEN "head" ELSE IF j = h + 2 THEN "tail" ELSE "body"
  BY <1>1, <1>2
<1>5. /\ i <= off + h => buf[i].part = IF k = "bare" THEN "bare" ELSE "empty"
      /\ i = off + h + 1 => buf[i].part = "head"
      /\ i = off + h + 2 => buf[i].part = "tail"
  BY <1>1, <1>2, <1>3, <1>4
<1>. QED
  BY <1>3, <1>5 DEF h

\* where tryParse skips empty lines to
StartOf(buf, off) ==
  CHOOSE m \in off..Len(buf) :
    /\ \A i \in (off + 1)..m : buf[i].part = "empty"
    /\ m < Len(buf) => buf[m + 1].part # "empty"

\* It skips to the head, as far as it has arrived, and not past a bare LF.
LEMMA StartIs ==
  ASSUME NEW k \in Kinds, NEW buf, Len(buf) \in Nat, NEW off \in Nat, off <= Len(buf),
         NEW n, Begins(buf, off, n, k)
  PROVE  StartOf(buf, off) = IF k = "bare" THEN off
                             ELSE IF Len(buf) <= off + HeadAt(k) THEN Len(buf) ELSE off + HeadAt(k)
<1>. DEFINE h == HeadAt(k)
            end == Len(buf)
            x == IF k = "bare" THEN off ELSE IF end <= off + h THEN end ELSE off + h
            Fits2(m) == /\ \A i \in (off + 1)..m : buf[i].part = "empty"
                        /\ m < end => buf[m + 1].part # "empty"
<1>1. h \in Nat /\ end \in Nat /\ off <= end /\ (k = "bare" => h = 1)
  BY KindIs
<1>2. \A i \in Nat : off < i /\ i <= end /\ i <= off + h + 2 =>
        /\ i <= off + h => buf[i].part = IF k = "bare" THEN "bare" ELSE "empty"
        /\ i = off + h + 1 => buf[i].part = "head"
  BY PartsAre
<1>. HIDE DEF h, end
<1>3. x \in off..end
  BY <1>1
<1>4. Fits2(x)
  <2>1. ASSUME NEW i \in (off + 1)..x  PROVE buf[i].part = "empty"
    <3>1. i \in Nat /\ off < i /\ i <= end /\ i <= off + h /\ k # "bare"
      BY <1>1
    <3>2. i <= off + h + 2
      BY <1>1, <3>1
    <3>. QED
      BY <1>2, <3>1, <3>2
  <2>2. ASSUME x < end  PROVE buf[x + 1].part # "empty"
    <3>1. CASE k = "bare"
      <4>1. x + 1 \in Nat /\ off < x + 1 /\ x + 1 <= end /\ x + 1 <= off + h + 2 /\ x + 1 <= off + h
        BY <1>1, <2>2, <3>1
      <4>. HIDE DEF x
      <4>. QED
        BY <1>2, <3>1, <4>1
    <3>2. CASE k # "bare"
      <4>1. x + 1 \in Nat /\ off < x + 1 /\ x + 1 <= end /\ x + 1 <= off + h + 2 /\ x + 1 = off + h + 1
        BY <1>1, <2>2, <3>2
      <4>. HIDE DEF x
      <4>. QED
        BY <1>2, <4>1
    <3>. QED
      BY <3>1, <3>2
  <2>. HIDE DEF x
  <2>. QED
    BY <2>1, <2>2
<1>. HIDE DEF x
<1>5. ASSUME NEW m \in off..end, Fits2(m)  PROVE m = x
  <2>1. CASE m < x
    <3>1. m + 1 \in (off + 1)..x /\ m < end
      BY <1>1, <1>3, <2>1
    <3>. QED
      BY <1>4, <1>5, <3>1
  <2>2. CASE x < m
    <3>1. x + 1 \in (off + 1)..m /\ x < end
      BY <1>1, <1>3, <2>2
    <3>. QED
      BY <1>4, <1>5, <3>1
  <2>. QED
    BY <1>1, <1>3, <2>1, <2>2
<1>6. StartOf(buf, off) = CHOOSE m \in off..end : Fits2(m)
  BY DEF StartOf, end
<1>. HIDE DEF Fits2
<1>7. StartOf(buf, off) = x
  BY <1>3, <1>4, <1>5, <1>6
<1>. QED
  BY <1>7 DEF x, h, end

\* where tryParse finds a terminator
EndsOf(buf, from) ==
  {m \in from..(Len(buf) - 2) : buf[m + 1].part = "head" /\ buf[m + 2].part = "tail"}

\* The first terminator is the one of the next request, once it has arrived.
LEMMA EndsAre ==
  ASSUME NEW k \in Kinds, NEW buf, Len(buf) \in Nat, NEW off \in Nat, off <= Len(buf),
         NEW n, Begins(buf, off, n, k), NEW from \in Nat, off <= from
  PROVE  /\ Len(buf) <= off + HeadAt(k) + 1 => EndsOf(buf, from) = {}
         /\ Len(buf) >= off + HeadAt(k) + 2 /\ from <= off + HeadAt(k) =>
              /\ off + HeadAt(k) \in EndsOf(buf, from)
              /\ \A m \in EndsOf(buf, from) : off + HeadAt(k) <= m
<1>. DEFINE h == HeadAt(k)
            end == Len(buf)
<1>1. h \in Nat /\ end \in Nat /\ off <= end
  BY KindIs
<1>2. \A i \in Nat : off < i /\ i <= end /\ i <= off + h + 2 =>
        /\ i <= off + h => buf[i].part = IF k = "bare" THEN "bare" ELSE "empty"
        /\ i = off + h + 1 => buf[i].part = "head"
        /\ i = off + h + 2 => buf[i].part = "tail"
  BY PartsAre
<1>. HIDE DEF h
<1>3. ASSUME NEW m \in EndsOf(buf, from)  PROVE m \in Nat /\ m >= off + h /\ m + 2 <= end
  <2>1. m \in from..(end - 2) /\ buf[m + 1].part = "head"
    BY DEF EndsOf
  <2>. HIDE DEF end
  <2>2. m \in Nat /\ off <= m /\ m + 2 <= end
    BY <1>1, <2>1
  <2>3. ASSUME m < off + h  PROVE FALSE
    <3>1. m + 1 \in Nat /\ off < m + 1 /\ m + 1 <= end /\ m + 1 <= off + h + 2 /\ m + 1 <= off + h
      BY <1>1, <2>2, <2>3
    <3>. QED
      BY <1>2, <2>1, <3>1
  <2>. QED
    BY <1>1, <2>2, <2>3
<1>4. ASSUME end <= off + h + 1  PROVE EndsOf(buf, from) = {}
  BY <1>1, <1>3, <1>4
<1>5. ASSUME end >= off + h + 2, from <= off + h  PROVE off + h \in EndsOf(buf, from)
  <2>1. off + h \in from..(end - 2)
    BY <1>1, <1>5
  <2>2. /\ off + h + 1 \in Nat /\ off + h + 2 \in Nat /\ off < off + h + 1 /\ off < off + h + 2
        /\ off + h + 1 <= end /\ off + h + 2 <= end /\ off + h + 1 <= off + h + 2
    BY <1>1, <1>5
  <2>3. buf[off + h + 1].part = "head" /\ buf[off + h + 2].part = "tail"
    BY <1>2, <2>2
  <2>. QED
    BY <2>1, <2>3 DEF EndsOf
<1>. QED
  BY <1>3, <1>4, <1>5 DEF h

\* what tryParse may return when request n + 1 of kind k is next
ParsesTo(s, off, n, k, p) ==
  \/ p.tag = "reject" /\ k \notin Wellformed
  \/ /\ p.tag = "incomplete" /\ Len(s.buf) <= off + HeadAt(k) + 1 /\ k # "bare"
     /\ p.need = 0 /\ p.keepAlive = s.keepAlive /\ p.scan \in Nat /\ p.scan <= HeadAt(k)
  \/ /\ p.tag = "incomplete" /\ Len(s.buf) >= off + HeadAt(k) + 2 /\ Len(s.buf) < off + SizeOf(k)
     /\ p.need = SizeOf(k) /\ p.keepAlive \in BOOLEAN /\ p.scan = 0 /\ k # "bare"
  \/ /\ p.tag = "request" /\ Len(s.buf) >= off + SizeOf(k) /\ k \in Wellformed
     /\ p.req = n + 1 /\ p.consumed = off + SizeOf(k) /\ p.keepAlive = (k # "close" /\ ~closing)

\* Wherever the search starts, if only it is not past the head: tryParse
\* rejects nothing wellformed, dispatches the next request once all of it is
\* there, and remembers how much it needs once its header block is.
LEMMA ParseIs ==
  ASSUME NEW k \in Kinds, NEW s, Len(s.buf) \in Nat, NEW off \in Nat, off < Len(s.buf),
         NEW n, Begins(s.buf, off, n, k), s.stream[n + 1] = k, s.keepAlive \in BOOLEAN,
         NEW scan \in Nat, scan <= off + HeadAt(k), k = "bare" => scan <= off
  PROVE  ParsesTo(s, off, n, k, TryParse(s, off, scan))
<1>. DEFINE buf == s.buf
            end == Len(buf)
            start == StartOf(buf, off)
            from == Max2(scan, start)
            ends == EndsOf(buf, from)
            headerEnd == CHOOSE m \in ends : \A j \in ends : m <= j
            bareLF == \E i \in (from + 1)..Min2(end, off + MaxHeaderSize) : buf[i].part = "bare"
            req == buf[headerEnd + 1].req
            bodyEnd == headerEnd + 2 + (IF s.stream[req] = "body" THEN 1 ELSE 0)
            keepAlive == s.stream[req] # "close" /\ ~closing
            h == HeadAt(k)
            N == MaxHeaderSize
            p == TryParse(s, off, scan)
<1>1. p = IF ends = {}
          THEN IF bareLF \/ end - off > N THEN [tag |-> "reject"]
               ELSE [tag |-> "incomplete", keepAlive |-> s.keepAlive, need |-> 0,
                     scan |-> RescanFrom(start, end) - off]
          ELSE IF headerEnd + 2 - off > N \/ headerEnd # start \/ s.stream[req] = "refused"
               THEN [tag |-> "reject"]
          ELSE IF bodyEnd > end
               THEN [tag |-> "incomplete", keepAlive |-> keepAlive, need |-> bodyEnd - off, scan |-> 0]
          ELSE [tag |-> "request", keepAlive |-> keepAlive, req |-> req, consumed |-> bodyEnd]
  BY DEF TryParse, StartOf, EndsOf
<1>2. /\ h \in Nat /\ N \in Nat /\ N > 2 /\ SizeOf(k) = h + 2 + (IF k = "body" THEN 1 ELSE 0)
      /\ k = "long" => h = N
      /\ k # "long" => h \in {0, 1}
      /\ k = "bare" => h = 1
      /\ k \in Wellformed <=> k \notin {"long", "bare", "refused"}
  BY KindIs
<1>3. start = IF k = "bare" THEN off ELSE IF end <= off + h THEN end ELSE off + h
  BY StartIs
<1>4. end \in Nat /\ off < end /\ scan <= off + h /\ (k = "bare" => scan <= off)
  OBVIOUS
<1>5. \A i \in Nat : off < i /\ i <= end /\ i <= off + h + 2 =>
        /\ buf[i].req = n + 1
        /\ i <= off + h => buf[i].part = IF k = "bare" THEN "bare" ELSE "empty"
        /\ i = off + h + 1 => buf[i].part = "head"
        /\ i = off + h + 2 => buf[i].part = "tail"
  BY PartsAre
<1>6. start \in Nat /\ off <= start /\ start <= off + h
  <2>. HIDE DEF start, h, end
  <2>. QED
    BY <1>2, <1>3, <1>4
<1>7. from \in Nat /\ off <= from /\ from <= off + h /\ (k = "bare" => from = off)
  <2>. HIDE DEF start, h, end
  <2>. QED
    BY <1>2, <1>3, <1>4, <1>6 DEF Max2
<1>8. /\ end <= off + h + 1 => ends = {}
      /\ end >= off + h + 2 => off + h \in ends /\ \A m \in ends : off + h <= m
  BY <1>7, EndsAre
<1>9. CASE end <= off + h + 1
  <2>1. ends = {}
    BY <1>8, <1>9
  <2>2. ASSUME k # "bare"  PROVE ~bareLF
    <3>. SUFFICES ASSUME NEW i \in (from + 1)..Min2(end, off + N), buf[i].part = "bare"  PROVE FALSE
      OBVIOUS
    <3>. HIDE DEF from, end, h
    <3>1. i \in Nat /\ off < i /\ i <= end /\ i <= off + h + 2
      BY SMTT(20), <1>2, <1>4, <1>7, <1>9 DEF Min2
    <3>2. i <= off + h \/ i = off + h + 1
      BY <1>2, <1>4, <1>9, <3>1
    <3>. QED
      BY <1>5, <2>2, <3>1, <3>2
  <2>3. ASSUME k = "bare"  PROVE bareLF
    <3>. DEFINE i == off + 1
    <3>1. i \in (from + 1)..Min2(end, off + N)
      <4>. HIDE DEF from, end
      <4>. QED
        BY <1>2, <1>4, <1>7, <2>3 DEF Min2
    <3>2. i \in Nat /\ off < i /\ i <= end /\ i <= off + h + 2 /\ i <= off + h
      <4>. HIDE DEF end, h
      <4>. QED
        BY <1>2, <1>4, <2>3
    <3>3. buf[i].part = "bare"
      <4>. HIDE DEF i, end, h, buf
      <4>. QED
        BY <1>5, <2>3, <3>2
    <3>. QED
      BY <3>1, <3>3
  <2>4. CASE bareLF \/ end - off > N
    <3>1. p.tag = "reject"
      BY <1>1, <2>1, <2>4
    <3>2. k \notin Wellformed
      <4>. HIDE DEF bareLF, end, h
      <4>. QED
        BY <1>2, <1>4, <1>9, <2>2, <2>4
    <3>. QED
      BY <3>1, <3>2 DEF ParsesTo
  <2>5. CASE ~(bareLF \/ end - off > N)
    <3>. DEFINE r == RescanFrom(start, end) - off
    <3>1. p = [tag |-> "incomplete", keepAlive |-> s.keepAlive, need |-> 0, scan |-> r]
      BY <1>1, <2>1, <2>5
    <3>2. k # "bare"
      BY <2>3, <2>5
    <3>3. r \in Nat /\ r <= h
      <4>. HIDE DEF start, end, h
      <4>. QED
        BY <1>2, <1>4, <1>6, <1>9 DEF RescanFrom, Max2
    <3>4. Len(s.buf) <= off + HeadAt(k) + 1
      BY <1>9
    <3>. HIDE DEF p, r, end
    <3>5. p.tag = "incomplete" /\ p.need = 0 /\ p.keepAlive = s.keepAlive /\ p.scan = r
      BY <3>1
    <3>. QED
      BY <3>2, <3>3, <3>4, <3>5 DEF ParsesTo, p, h
  <2>. QED
    BY <2>4, <2>5
<1>10. CASE ~(end <= off + h + 1)
  <2>0. end >= off + h + 2
    <3>. HIDE DEF end, h
    <3>. QED
      BY <1>2, <1>4, <1>10
  <2>1. ends # {} /\ off + h \in ends /\ \A m \in ends : off + h <= m
    BY <1>8, <2>0
  <2>2. headerEnd = off + h
    <3>1. ends \subseteq Int
      <4>. HIDE DEF from
      <4>. QED
        BY <1>4, <1>7 DEF EndsOf
    <3>2. off + h \in Int
      BY <1>2
    <3>. HIDE DEF ends, h
    <3>. DEFINE x == off + h
    <3>. HIDE DEF x
    <3>3. x \in ends /\ \A m \in ends : x <= m
      BY <2>1 DEF x
    <3>4. \A m \in ends : (\A j \in ends : m <= j) => m = x
      BY <3>1, <3>3
    <3>5. headerEnd = x
      BY <3>3, <3>4
    <3>. QED
      BY <3>5 DEF x
  <2>3. req = n + 1 /\ s.stream[req] = k
    <3>1. off + h + 1 \in Nat /\ off < off + h + 1 /\ off + h + 1 <= end /\ off + h + 1 <= off + h + 2
      <4>. HIDE DEF end, h
      <4>. QED
        BY <1>2, <1>4, <2>0
    <3>2. buf[off + h + 1].req = n + 1
      BY <1>5, <3>1
    <3>. QED
      BY <2>2, <3>2
  <2>4. bodyEnd = off + SizeOf(k) /\ keepAlive = (k # "close" /\ ~closing)
    <3>1. bodyEnd = off + h + 2 + (IF k = "body" THEN 1 ELSE 0)
      BY <2>2, <2>3
    <3>2. keepAlive = (k # "close" /\ ~closing)
      BY <2>3
    <3>. HIDE DEF bodyEnd, h, keepAlive
    <3>3. bodyEnd = off + SizeOf(k)
      BY <1>2, <3>1
    <3>. QED
      BY <3>2, <3>3
  <2>. HIDE DEF headerEnd, req, bodyEnd, keepAlive, ends, bareLF, from, p
  <2>5. CASE headerEnd + 2 - off > N \/ headerEnd # start \/ s.stream[req] = "refused"
    <3>1. p.tag = "reject"
      BY <1>1, <2>1, <2>5
    <3>2. k \notin Wellformed
      <4>. HIDE DEF h, end, start
      <4>. QED
        BY <1>2, <1>3, <1>4, <2>0, <2>2, <2>3, <2>5
    <3>. QED
      BY <3>1, <3>2 DEF ParsesTo, p
  <2>6. CASE ~(headerEnd + 2 - off > N \/ headerEnd # start \/ s.stream[req] = "refused")
    <3>1. k # "refused" /\ h + 2 <= N /\ h + off = start
      <4>. HIDE DEF h, end, start
      <4>. QED
        BY <1>2, <1>4, <1>6, <2>2, <2>3, <2>6
    <3>2. k \in Wellformed /\ k # "bare"
      <4>. HIDE DEF h, end, start
      <4>. QED
        BY <1>2, <1>3, <1>4, <3>1
    <3>3. CASE bodyEnd > end
      <4>1. p = [tag |-> "incomplete", keepAlive |-> keepAlive, need |-> bodyEnd - off, scan |-> 0]
        BY <1>1, <2>1, <2>6, <3>3
      <4>2. p.tag = "incomplete" /\ p.keepAlive = keepAlive /\ p.need = bodyEnd - off /\ p.scan = 0
        BY <4>1
      <4>3. keepAlive \in BOOLEAN
        BY <2>4
      <4>4. bodyEnd - off = SizeOf(k) /\ end < off + SizeOf(k)
        <5>. HIDE DEF end, h
        <5>. QED
          BY <1>2, <1>4, <2>4, <3>3
      <4>. QED
        BY <2>0, <3>2, <4>2, <4>3, <4>4 DEF ParsesTo, p
    <3>4. CASE ~(bodyEnd > end)
      <4>1. p = [tag |-> "request", keepAlive |-> keepAlive, req |-> req, consumed |-> bodyEnd]
        BY <1>1, <2>1, <2>6, <3>4
      <4>2. p.tag = "request" /\ p.keepAlive = keepAlive /\ p.req = req /\ p.consumed = bodyEnd
        BY <4>1
      <4>3. end >= off + SizeOf(k)
        <5>. HIDE DEF end, h
        <5>. QED
          BY <1>2, <1>4, <2>4, <3>4
      <4>. QED
        BY <2>3, <2>4, <3>2, <4>2, <4>3 DEF ParsesTo, p
    <3>. QED
      BY <3>3, <3>4
  <2>. QED
    BY <2>5, <2>6
<1>. QED
  BY <1>9, <1>10

-----------------------------------------------------------------------------
(* What a step leaves alone. *)

\* the client's side and what was dispatched; the buffer and what the parser
\* knows about it; the answers
SameStream(s, r) ==
  /\ r.stream = s.stream /\ r.arrived = s.arrived
  /\ r.dispatched = s.dispatched /\ r.rejected = s.rejected
SameBuffer(s, r) ==
  /\ r.buf = s.buf /\ r.need = s.need /\ r.scan = s.scan /\ r.skip = s.skip
  /\ r.running = s.running /\ r.offset = s.offset /\ r.paused = s.paused
  /\ r.hdrSince = "none" <=> s.hdrSince = "none"

\* A step that only marks the connection as dead, or that leaves the buffer
\* alone, keeps the framing.
LEMMA FramingKept ==
  ASSUME NEW s, NEW r, FrameInv(s), ParseInv(s), SameStream(s, r), s.dead => r.dead,
         r.dead \/ SameBuffer(s, r)
  PROVE  FrameInv(r) /\ ParseInv(r)
<1>1. /\ Count(r) = Count(s) /\ Units(r) = Units(s) /\ NextKind(r) = NextKind(s)
      /\ \A i : EndOf(r, i) = EndOf(s, i)
  BY DEF SameStream, Count, Units, EndOf, NextKind
<1>2. CASE r.dead
  BY <1>1, <1>2 DEF FrameInv, ParseInv, SameStream
<1>3. CASE ~r.dead
  <2>1. ~s.dead /\ SameBuffer(s, r) /\ Off(r) = Off(s)
    BY <1>3 DEF SameBuffer, Off
  <2>2. Window(r)
    BY <1>1, <2>1 DEF FrameInv, Window, WindowAt, SameStream, SameBuffer
  <2>3. FrameInv(r)
    BY <1>1, <2>1, <2>2 DEF FrameInv, SameStream
  <2>4. ParseInv(r)
    BY <1>1, <2>1 DEF ParseInv, SameStream, SameBuffer
  <2>. QED
    BY <2>3, <2>4
<1>. QED
  BY <1>2, <1>3

\* A step that writes and dispatches nothing keeps the answers in order.
LEMMA AnswersKept ==
  ASSUME NEW s, NEW r, NEW was, NEW is, AnswerInv(s, was), r.stream = s.stream,
         r.dispatched = s.dispatched, r.sent = s.sent,
         s.dead => r.dead, s.state # "open" => r.state # "open",
         r.state = "open" => /\ r.inflight = s.inflight
                             /\ r.inflight = 0 \/ ~r.keepAlive \/ (r.keepAlive = s.keepAlive /\ is = was)
  PROVE  AnswerInv(r, is)
<1>1. Count(r) = Count(s) /\ r.stream = s.stream
  BY DEF Count
<1>2. r.state = "open" => s.state = "open"
  OBVIOUS
<1>3. Len(r.sent) <= Count(r) /\ Count(r) <= Len(r.sent) + 1
  BY <1>1 DEF AnswerInv
<1>4. r.state = "open" => Count(r) = Len(r.sent) + r.inflight
  BY <1>1, <1>2 DEF AnswerInv
<1>5. r.state = "open" /\ r.inflight = 1 /\ (is \/ r.stream[Count(r)] = "close") => ~r.keepAlive
  BY <1>1, <1>2 DEF AnswerInv
<1>6. \A i \in 1..Len(r.sent) :
        /\ r.sent[i].req = i
        /\ r.sent[i].late \/ r.stream[i] = "close" => r.sent[i].close
        /\ r.sent[i].close => i = Count(r) /\ r.state # "open" /\ r.dead
  BY <1>1, <1>2 DEF AnswerInv
<1>. QED
  BY <1>3, <1>4, <1>5, <1>6 DEF AnswerInv

\* the inductive invariant of one connection
Sound(s, closed) == s \in ConnState /\ ConnInv(s, closed)

\* Both together.
LEMMA Kept ==
  ASSUME NEW s, NEW r \in ConnState, NEW was, NEW is, Sound(s, was), SameStream(s, r),
         r.sent = s.sent, s.dead => r.dead, r.dead \/ SameBuffer(s, r), ModeInv(r),
         s.state # "open" => r.state # "open",
         r.state = "open" => /\ r.inflight = s.inflight
                             /\ r.inflight = 0 \/ ~r.keepAlive \/ (r.keepAlive = s.keepAlive /\ is = was)
  PROVE  Sound(r, is)
<1>1. FrameInv(s) /\ ParseInv(s) /\ AnswerInv(s, was)
  BY DEF Sound, ConnInv
<1>2. FrameInv(r) /\ ParseInv(r)
  BY <1>1, FramingKept
<1>3. r.stream = s.stream /\ r.dispatched = s.dispatched
  BY DEF SameStream
<1>4. AnswerInv(r, is)
  BY <1>1, <1>3, AnswersKept
<1>. QED
  BY <1>2, <1>4 DEF Sound, ConnInv

\* socket.end() by a handler that holds the socket, or the client's FIN.
LEMMA EndKeeps ==
  ASSUME NEW s, NEW closed, Sound(s, closed), s.state \in {"open", "ended"}, NEW fin \in BOOLEAN,
         s.fin => fin, fin \/ s.running \/ s.inflight = 1 \/ s.tick
  PROVE  Sound([End(s) EXCEPT !.fin = fin], closed)
<1>. DEFINE r == [End(s) EXCEPT !.fin = fin]
<1>0. s \in ConnState /\ ModeInv(s)
  BY DEF Sound, ConnInv
<1>1. r = [s EXCEPT !.state = "ended", !.fin = fin]
  BY <1>0 DEF End, ConnState
<1>. HIDE DEF r
<1>2. r \in ConnState
  BY <1>0, <1>1 DEF ConnState
<1>3. SameStream(s, r) /\ SameBuffer(s, r) /\ r.sent = s.sent /\ r.dead = s.dead /\ r.state = "ended"
  BY <1>0, <1>1 DEF ConnState, SameStream, SameBuffer
<1>4. ModeInv(r)
  BY <1>0, <1>1 DEF ConnState, ModeInv
<1>5. Sound(r, closed)
  BY <1>2, <1>3, <1>4, Kept
<1>. QED
  BY <1>5 DEF r

\* socket.destroy() while the connection is not marked as dead: by a handler,
\* by the client or by the idle timer.
LEMMA DestroyKeeps ==
  ASSUME NEW s, NEW closed, Sound(s, closed), s.state \in {"open", "ended"},
         NEW timer \in BOOLEAN
  PROVE  Sound([Destroy(s) EXCEPT !.timer = timer], closed)
<1>. DEFINE r == [Destroy(s) EXCEPT !.timer = timer]
<1>0. s \in ConnState /\ ModeInv(s)
  BY DEF Sound, ConnInv
<1>1. r = [s EXCEPT !.state = "destroyed", !.timer = timer]
  BY <1>0 DEF Destroy, ConnState
<1>. HIDE DEF r
<1>2. r \in ConnState
  BY <1>0, <1>1 DEF ConnState
<1>3. SameStream(s, r) /\ SameBuffer(s, r) /\ r.sent = s.sent /\ r.dead = s.dead /\ r.state = "destroyed"
  BY <1>0, <1>1 DEF ConnState, SameStream, SameBuffer
<1>4. ModeInv(r)
  BY <1>0, <1>1 DEF ConnState, ModeInv
<1>5. Sound(r, closed)
  BY <1>2, <1>3, <1>4, Kept
<1>. QED
  BY <1>5 DEF r

\* A connection that is marked as dead when its socket is not open any more.
LEMMA DeadKeeps ==
  ASSUME NEW s, NEW was, NEW is, Sound(s, was), s.state # "none",
         NEW st \in {"ended", "destroyed", "closed"}, NEW run \in BOOLEAN, run => s.running
  PROVE  Sound([s EXCEPT !.state = st, !.dead = TRUE, !.running = run], is)
<1>. DEFINE r == [s EXCEPT !.state = st, !.dead = TRUE, !.running = run]
<1>0. s \in ConnState /\ ModeInv(s)
  BY DEF Sound, ConnInv
<1>2. r \in ConnState
  BY <1>0 DEF ConnState
<1>3. SameStream(s, r) /\ r.sent = s.sent /\ r.dead /\ r.state = st
  BY <1>0 DEF ConnState, SameStream
<1>4. ModeInv(r)
  BY <1>0 DEF ConnState, ModeInv
<1>. HIDE DEF r
<1>5. Sound(r, is)
  BY <1>2, <1>3, <1>4, Kept
<1>. QED
  BY <1>5 DEF r

\* An exception of the handler.
LEMMA FailKeeps ==
  ASSUME NEW s, NEW closed, Sound(s, closed), s.running
  PROVE  Sound(Fail(s), closed)
<1>. DEFINE st == IF s.state \in {"open", "ended"} THEN "destroyed" ELSE s.state
<1>0. s \in ConnState /\ ModeInv(s)
  BY DEF Sound, ConnInv
<1>1. s.state # "none"
  BY <1>0 DEF ModeInv, NewConn
<1>2. st \in {"ended", "destroyed", "closed"}
  BY <1>0, <1>1 DEF ConnState
<1>3. Fail(s) = [s EXCEPT !.state = st, !.dead = TRUE, !.running = FALSE]
  BY <1>0 DEF Fail, Destroy, ConnState
<1>. HIDE DEF st
<1>. QED
  BY <1>1, <1>2, <1>3, DeadKeeps

\* The header sweep, or data after the header clock has run out.
LEMMA SweptKeeps ==
  ASSUME NEW s, NEW closed, Sound(s, closed), s.state \notin {"none", "closed"}
  PROVE  Sound([Destroy(s) EXCEPT !.dead = TRUE], closed)
<1>0. s \in ConnState /\ ModeInv(s)
  BY DEF Sound, ConnInv
<1>1. s.state \in {"open", "ended", "destroyed"} /\ s.running \in BOOLEAN
  BY <1>0 DEF ConnState
<1>3. [Destroy(s) EXCEPT !.dead = TRUE]
        = [s EXCEPT !.state = "destroyed", !.dead = TRUE, !.running = s.running]
  BY <1>0, <1>1 DEF Destroy, ConnState
<1>. QED
  BY <1>1, <1>3, DeadKeeps

\* What close() does to a connection.
LEMMA CloseKeeps ==
  ASSUME NEW s, NEW was, NEW is, Sound(s, was), s.state \notin {"none", "closed"}
  PROVE  Sound(CloseConn(s), is)
<1>0. s \in ConnState /\ ModeInv(s)
  BY DEF Sound, ConnInv
<1>1. s.state \in {"open", "ended", "destroyed"} /\ s.running \in BOOLEAN
  BY <1>0 DEF ConnState
<1>2. CASE s.buf # <<>> \/ s.inflight # 0
  <2>. DEFINE r == [s EXCEPT !.keepAlive = FALSE]
  <2>1. r \in ConnState
    BY <1>0 DEF ConnState
  <2>2. /\ SameStream(s, r) /\ SameBuffer(s, r) /\ r.sent = s.sent /\ r.dead = s.dead
        /\ r.state = s.state /\ r.inflight = s.inflight /\ ~r.keepAlive
    BY <1>0 DEF ConnState, SameStream, SameBuffer
  <2>3. ModeInv(r)
    BY <1>0, <1>1 DEF ConnState, ModeInv
  <2>4. CloseConn(s) = r
    BY <1>2 DEF CloseConn
  <2>. HIDE DEF r
  <2>. QED
    BY <2>1, <2>2, <2>3, <2>4, Kept
<1>3. CASE ~(s.buf # <<>> \/ s.inflight # 0) /\ s.out = "empty"
  <2>1. CloseConn(s) = [s EXCEPT !.state = "destroyed", !.dead = TRUE, !.running = s.running]
    BY <1>0, <1>1, <1>3 DEF CloseConn, Destroy, ConnState
  <2>2. Sound([s EXCEPT !.state = "destroyed", !.dead = TRUE, !.running = s.running], is)
    BY <1>1, DeadKeeps
  <2>. QED
    BY <2>1, <2>2
<1>4. CASE ~(s.buf # <<>> \/ s.inflight # 0) /\ s.out # "empty"
  <2>. DEFINE st == IF s.state = "open" THEN "ended" ELSE s.state
  <2>1. CloseConn(s) = [s EXCEPT !.state = st, !.dead = TRUE, !.running = s.running]
    BY <1>0, <1>1, <1>4 DEF CloseConn, End, ConnState
  <2>2. st \in {"ended", "destroyed", "closed"}
    BY <1>1
  <2>. HIDE DEF st
  <2>3. Sound([s EXCEPT !.state = st, !.dead = TRUE, !.running = s.running], is)
    BY <1>1, <2>2, DeadKeeps
  <2>. QED
    BY <2>1, <2>3
<1>. QED
  BY <1>2, <1>3, <1>4

\* close() changes nothing for a connection that is not there yet or any more.
LEMMA CloseSkips ==
  ASSUME NEW s, NEW was, NEW is, Sound(s, was), s.state \in {"none", "closed"}
  PROVE  Sound(s, is)
<1>0. s \in ConnState /\ ModeInv(s)
  BY DEF Sound, ConnInv
<1>1. SameStream(s, s) /\ SameBuffer(s, s)
  BY DEF SameStream, SameBuffer
<1>. QED
  BY <1>0, <1>1, Kept

\* 'close'.
LEMMA OnCloseKeeps ==
  ASSUME NEW s, NEW closed, Sound(s, closed), s.state = "destroyed"
  PROVE  Sound([s EXCEPT !.state = "closed", !.dead = TRUE], closed)
<1>0. s \in ConnState
  BY DEF Sound
<1>1. [s EXCEPT !.state = "closed", !.dead = TRUE]
        = [s EXCEPT !.state = "closed", !.dead = TRUE, !.running = s.running]
  BY <1>0 DEF ConnState
<1>2. s.running \in BOOLEAN
  BY <1>0 DEF ConnState
<1>. QED
  BY <1>1, <1>2, DeadKeeps

-----------------------------------------------------------------------------
(* Beginning, timers, answers. *)

\* makeConnState: nothing has arrived.
LEMMA NewIsSound ==
  ASSUME NEW stream \in Seq(Kinds), NEW closed
  PROVE  Sound(NewConn(stream), closed)
<1>. DEFINE s == NewConn(stream)
<1>1. s \in ConnState
  BY OptionsAssumption DEF NewConn, ConnState
<1>2. /\ s.stream = stream /\ s.arrived = 0 /\ s.dispatched = <<>> /\ s.sent = <<>> /\ s.buf = <<>>
      /\ ~s.running /\ s.skip = 0 /\ s.need = 0 /\ s.scan = 0 /\ s.hdrSince = "none" /\ ~s.rejected
      /\ ~s.dead /\ s.state = "none" /\ s.inflight = 0
  BY DEF NewConn
<1>3. ModeInv(s)
  BY DEF NewConn, ModeInv
<1>. HIDE DEF s
<1>4. /\ EndOf(s, 0) = 0 /\ Len(Units(s)) \in Nat /\ Len(s.stream) \in Nat
      /\ \A i \in 1..Len(s.stream) : /\ EndOf(s, i) = EndOf(s, i - 1) + SizeOf(s.stream[i])
                                     /\ s.stream[i] \in Kinds
  BY <1>2, StreamIs
<1>5. Count(s) = 0 /\ Off(s) = 0
  BY <1>2 DEF Count, Off
<1>6. ASSUME 0 < Len(s.stream)  PROVE 0 < EndOf(s, 1) /\ HeadAt(s.stream[1]) \in Nat
  <2>1. 1 \in 1..Len(s.stream)
    BY <1>4, <1>6
  <2>2. EndOf(s, 1) = 0 + SizeOf(s.stream[1]) /\ s.stream[1] \in Kinds
    BY <1>4, <2>1
  <2>3. /\ SizeOf(s.stream[1]) \in Nat /\ HeadAt(s.stream[1]) \in Nat
        /\ SizeOf(s.stream[1]) >= HeadAt(s.stream[1]) + 2
    BY <2>2, FormatIs
  <2>. QED
    BY <2>2, <2>3
<1>7. Window(s)
  BY <1>2, <1>4, <1>5 DEF Window, WindowAt
<1>8. FrameInv(s)
  BY <1>2, <1>4, <1>5, <1>7 DEF FrameInv
<1>9. ParseInv(s)
  BY <1>2, <1>4, <1>5, <1>6 DEF ParseInv, NextKind
<1>10. AnswerInv(s, closed)
  BY <1>2, <1>5 DEF AnswerInv
<1>11. Sound(s, closed)
  BY <1>1, <1>3, <1>8, <1>9, <1>10 DEF Sound, ConnInv
<1>. QED
  BY <1>11 DEF s

\* 'connection'.
LEMMA AcceptKeeps ==
  ASSUME NEW s, NEW closed, Sound(s, closed), s.state = "none"
  PROVE  Sound([s EXCEPT !.state = "open"], closed)
<1>. DEFINE r == [s EXCEPT !.state = "open"]
<1>0. s \in ConnState /\ ModeInv(s) /\ FrameInv(s) /\ ParseInv(s)
  BY DEF Sound, ConnInv
<1>1. s = NewConn(s.stream)
  BY <1>0 DEF ModeInv
<1>2. /\ s.sent = <<>> /\ s.dispatched = <<>> /\ s.inflight = 0 /\ ~s.dead
      /\ ~s.running /\ ~s.awaiting /\ ~s.tick /\ ~s.onDrain
  BY <1>1 DEF NewConn
<1>3. r \in ConnState /\ SameStream(s, r) /\ SameBuffer(s, r) /\ r.dead = s.dead
  BY <1>0 DEF ConnState, SameStream, SameBuffer
<1>4. r.sent = <<>> /\ r.dispatched = <<>> /\ r.inflight = 0 /\ r.state = "open"
  BY <1>0, <1>2 DEF ConnState
<1>5. ModeInv(r)
  BY <1>0, <1>2 DEF ModeInv, ConnState
<1>. HIDE DEF r
<1>6. FrameInv(r) /\ ParseInv(r)
  BY <1>0, <1>3, FramingKept
<1>7. Count(r) = 0
  BY <1>4 DEF Count
<1>8. AnswerInv(r, closed)
  BY <1>4, <1>7 DEF AnswerInv
<1>9. Sound(r, closed)
  BY <1>3, <1>5, <1>6, <1>8 DEF Sound, ConnInv
<1>. QED
  BY <1>9 DEF r

\* The peer reads and nobody waits for 'drain'.
LEMMA FlushKeeps ==
  ASSUME NEW s, NEW closed, Sound(s, closed), ~(NeedsDrain(s) /\ s.onDrain),
         s.state \in {"open", "ended"}
  PROVE  Sound([s EXCEPT !.out = "empty"], closed)
<1>. DEFINE r == [s EXCEPT !.out = "empty"]
<1>0. s \in ConnState /\ ModeInv(s)
  BY DEF Sound, ConnInv
<1>1. r \in ConnState
  BY <1>0 DEF ConnState
<1>2. /\ SameStream(s, r) /\ SameBuffer(s, r) /\ r.sent = s.sent /\ r.dead = s.dead
      /\ r.state = s.state /\ r.inflight = s.inflight /\ r.keepAlive = s.keepAlive
  BY <1>0 DEF ConnState, SameStream, SameBuffer
<1>3. ModeInv(r)
  BY <1>0 DEF ConnState, ModeInv, NeedsDrain
<1>. HIDE DEF r
<1>4. Sound(r, closed)
  BY <1>1, <1>2, <1>3, Kept
<1>. QED
  BY <1>4 DEF r

\* The idle timer fires while a handler works.
LEMMA DeferKeeps ==
  ASSUME NEW s, NEW closed, Sound(s, closed), s.state \in {"open", "ended"}
  PROVE  Sound([s EXCEPT !.timer = FALSE, !.timeoutDeferred = TRUE], closed)
<1>. DEFINE r == [s EXCEPT !.timer = FALSE, !.timeoutDeferred = TRUE]
<1>0. s \in ConnState /\ ModeInv(s)
  BY DEF Sound, ConnInv
<1>1. r \in ConnState
  BY <1>0 DEF ConnState
<1>2. /\ SameStream(s, r) /\ SameBuffer(s, r) /\ r.sent = s.sent /\ r.dead = s.dead
      /\ r.state = s.state /\ r.inflight = s.inflight /\ r.keepAlive = s.keepAlive
  BY <1>0 DEF ConnState, SameStream, SameBuffer
<1>3. ModeInv(r)
  BY <1>0 DEF ConnState, ModeInv
<1>. HIDE DEF r
<1>4. Sound(r, closed)
  BY <1>1, <1>2, <1>3, Kept
<1>. QED
  BY <1>4 DEF r

\* The header clock passes its limit.
LEMMA ExpireKeeps ==
  ASSUME NEW s, NEW closed, Sound(s, closed), s.state \in {"open", "ended"}, s.hdrSince = "running"
  PROVE  Sound([s EXCEPT !.hdrSince = "expired"], closed)
<1>. DEFINE r == [s EXCEPT !.hdrSince = "expired"]
<1>0. s \in ConnState /\ ModeInv(s)
  BY DEF Sound, ConnInv
<1>1. r \in ConnState
  BY <1>0 DEF ConnState
<1>2. /\ SameStream(s, r) /\ SameBuffer(s, r) /\ r.sent = s.sent /\ r.dead = s.dead
      /\ r.state = s.state /\ r.inflight = s.inflight /\ r.keepAlive = s.keepAlive
  BY <1>0 DEF ConnState, SameStream, SameBuffer
<1>3. ModeInv(r)
  BY <1>0 DEF ConnState, ModeInv
<1>. HIDE DEF r
<1>4. Sound(r, closed)
  BY <1>1, <1>2, <1>3, Kept
<1>. QED
  BY <1>4 DEF r

\* the connection after an answer: dead, ended, or about to resume
Answered(s, w, r) ==
  \/ s.dead /\ r.tick = s.tick /\ r.awaiting = s.awaiting /\ r.dead /\ r.state = w.state
  \/ /\ ~s.dead /\ ~s.keepAlive /\ r.tick = s.tick /\ r.awaiting = s.awaiting /\ r.dead
     /\ r.state = IF w.state = "open" THEN "ended" ELSE w.state
  \/ /\ ~s.dead /\ s.keepAlive /\ r.tick = (s.tick \/ s.awaiting) /\ ~r.awaiting /\ ~r.dead
     /\ r.state = w.state

\* and all the answer leaves alone
AfterAnswer(s, w, out, sent, r) ==
  /\ r \in ConnState /\ SameStream(s, r) /\ SameBuffer(s, r)
  /\ r.inflight = 0 /\ r.sent = sent /\ r.out = out /\ r.keepAlive = s.keepAlive
  /\ r.onDrain = s.onDrain /\ r.reading = s.reading /\ r.fin = s.fin
  /\ Answered(s, w, r)

\* The types of the fields an answer sets.
LEMMA AnsweredType ==
  ASSUME NEW q \in ConnState
  PROVE  /\ \A tm \in BOOLEAN :
              [q EXCEPT !.inflight = 0, !.timeoutDeferred = FALSE, !.timer = tm] \in ConnState
         /\ \A st \in {"none", "ended", "destroyed", "closed"} :
              [q EXCEPT !.state = st, !.dead = TRUE] \in ConnState
         /\ \A tk \in BOOLEAN : [q EXCEPT !.tick = tk, !.awaiting = FALSE] \in ConnState
<1>1. ASSUME NEW tm \in BOOLEAN
      PROVE  [q EXCEPT !.inflight = 0, !.timeoutDeferred = FALSE, !.timer = tm] \in ConnState
  BY DEF ConnState
<1>2. ASSUME NEW st \in {"none", "ended", "destroyed", "closed"}
      PROVE  [q EXCEPT !.state = st, !.dead = TRUE] \in ConnState
  BY DEF ConnState
<1>3. ASSUME NEW tk \in BOOLEAN  PROVE [q EXCEPT !.tick = tk, !.awaiting = FALSE] \in ConnState
  BY DEF ConnState
<1>. QED
  BY <1>1, <1>2, <1>3

\* What an answer leaves alone: the buffer and what was dispatched from it.
LEMMA RespondedIs ==
  ASSUME NEW s \in ConnState, NEW w \in ConnState, NEW o, NEW st, NEW a,
         w = [s EXCEPT !.out = o, !.state = st, !.sent = a]
  PROVE  AfterAnswer(s, w, o, a, Responded(w))
<1>. DEFINE tm == s.timer \/ s.timeoutDeferred
            q == [w EXCEPT !.inflight = 0, !.timeoutDeferred = FALSE, !.timer = tm]
<1>0. /\ w.timer = s.timer /\ w.timeoutDeferred = s.timeoutDeferred /\ w.dead = s.dead
      /\ w.keepAlive = s.keepAlive /\ w.awaiting = s.awaiting /\ w.tick = s.tick
      /\ w.sent = a /\ w.out = o /\ w.onDrain = s.onDrain /\ w.reading = s.reading /\ w.fin = s.fin
      /\ SameStream(s, w) /\ SameBuffer(s, w)
  BY DEF ConnState, SameStream, SameBuffer
<1>1. Responded(w) = IF q.dead THEN q
                     ELSE IF ~q.keepAlive THEN [End(q) EXCEPT !.dead = TRUE]
                     ELSE [q EXCEPT !.tick = @ \/ q.awaiting, !.awaiting = FALSE]
  BY <1>0 DEF Responded
<1>2. tm \in BOOLEAN
  BY DEF ConnState
<1>. HIDE DEF tm
<1>8. q \in ConnState
  BY <1>2, AnsweredType
<1>3. /\ q.inflight = 0 /\ q.dead = s.dead /\ q.keepAlive = s.keepAlive
      /\ q.awaiting = s.awaiting /\ q.tick = s.tick /\ q.sent = a /\ q.out = o /\ q.state = w.state
      /\ q.onDrain = s.onDrain /\ q.reading = s.reading /\ q.fin = s.fin
  BY <1>0, <1>2 DEF ConnState
<1>4. SameStream(s, q) /\ SameBuffer(s, q)
  BY <1>0 DEF ConnState, SameStream, SameBuffer
<1>. HIDE DEF q
<1>5. CASE q.dead
  <2>1. Responded(w) = q
    BY <1>1, <1>5
  <2>. QED
    BY <1>3, <1>4, <1>5, <1>8, <2>1 DEF Answered, AfterAnswer
<1>6. CASE ~q.dead /\ ~q.keepAlive
  <2>. DEFINE e == IF q.state = "open" THEN "ended" ELSE q.state
              r == [q EXCEPT !.state = e, !.dead = TRUE]
  <2>1. Responded(w) = r
    BY <1>1, <1>3, <1>6, <1>8 DEF End, ConnState
  <2>2. e \in {"none", "ended", "destroyed", "closed"}
    BY <1>3, <1>8 DEF ConnState
  <2>. HIDE DEF e
  <2>3. r \in ConnState
    BY <1>8, <2>2, AnsweredType
  <2>4. SameStream(q, r) /\ SameBuffer(q, r)
    BY <1>3, <1>8 DEF ConnState, SameStream, SameBuffer
  <2>5. /\ r.inflight = 0 /\ r.dead /\ r.keepAlive = q.keepAlive /\ r.state = e
        /\ r.awaiting = q.awaiting /\ r.tick = q.tick /\ r.sent = a /\ r.out = o
        /\ r.onDrain = q.onDrain /\ r.reading = q.reading /\ r.fin = q.fin
    BY <1>3, <1>8 DEF ConnState
  <2>. HIDE DEF r
  <2>6. SameStream(s, r) /\ SameBuffer(s, r)
    BY <1>4, <2>4 DEF SameStream, SameBuffer
  <2>7. Answered(s, w, r)
    BY <1>3, <1>6, <2>5 DEF Answered, e
  <2>. QED
    BY <1>3, <2>1, <2>3, <2>5, <2>6, <2>7 DEF AfterAnswer
<1>7. CASE ~q.dead /\ q.keepAlive
  <2>. DEFINE tk == q.tick \/ q.awaiting
              r == [q EXCEPT !.tick = tk, !.awaiting = FALSE]
  <2>1. Responded(w) = r
    BY <1>1, <1>7
  <2>2. tk \in BOOLEAN /\ tk = (s.tick \/ s.awaiting)
    BY <1>3, <1>8 DEF ConnState
  <2>. HIDE DEF tk
  <2>3. r \in ConnState
    BY <1>8, <2>2, AnsweredType
  <2>4. SameStream(q, r) /\ SameBuffer(q, r)
    BY <1>3, <1>8 DEF ConnState, SameStream, SameBuffer
  <2>5. /\ r.inflight = 0 /\ r.dead = q.dead /\ r.keepAlive = q.keepAlive /\ r.state = q.state
        /\ ~r.awaiting /\ r.tick = tk /\ r.sent = a /\ r.out = o
        /\ r.onDrain = q.onDrain /\ r.reading = q.reading /\ r.fin = q.fin
    BY <1>3, <1>8 DEF ConnState
  <2>. HIDE DEF r
  <2>6. SameStream(s, r) /\ SameBuffer(s, r)
    BY <1>4, <2>4 DEF SameStream, SameBuffer
  <2>7. Answered(s, w, r)
    BY <1>3, <1>7, <2>2, <2>5 DEF Answered
  <2>. QED
    BY <1>3, <2>1, <2>3, <2>5, <2>6, <2>7 DEF AfterAnswer
<1>. QED
  BY <1>5, <1>6, <1>7

\* An answer: it is the one of the last request dispatched, it says "close" if
\* it must, and then it ends the connection.
LEMMA RespondKeeps ==
  ASSUME NEW s, closing \in BOOLEAN, Sound(s, closing), s.inflight = 1, NEW out \in {"some", "full"}
  PROVE  Sound(Responded(Write(s, out)), closing)
<1>0. s \in ConnState /\ ModeInv(s) /\ FrameInv(s) /\ ParseInv(s) /\ AnswerInv(s, closing)
  BY DEF Sound, ConnInv
<1>1. s.state # "none" /\ ~s.tick /\ ~s.onDrain
  BY <1>0 DEF ModeInv, NewConn
<1>. DEFINE r == Responded(Write(s, out))
<1>2. CASE s.state = "open"
  <2>. DEFINE x == [req |-> Last(s.dispatched), close |-> ~s.keepAlive, late |-> closing]
              a == Append(s.sent, x)
              n == Count(s)
              w == [s EXCEPT !.out = out, !.state = "open", !.sent = a]
  <2>1. /\ n \in Nat /\ n = Len(s.sent) + 1 /\ Len(s.sent) \in Nat /\ s.dispatched \in Seq(Nat)
        /\ s.sent \in Seq(Answer) /\ s.keepAlive \in BOOLEAN /\ ~s.dead
    BY <1>0, <1>2 DEF AnswerInv, ConnState, Count, ModeInv
  <2>2. Last(s.dispatched) = n
    <3>1. n \in 1..Count(s)
      BY <2>1
    <3>2. s.dispatched[n] = n
      BY <1>0, <3>1 DEF FrameInv
    <3>. QED
      BY <3>2 DEF Last, Count
  <2>3. x \in Answer
    BY <2>1, <2>2 DEF Answer
  <2>4. /\ a \in Seq(Answer) /\ Len(a) = n /\ a[n] = x
        /\ \A i \in 1..Len(s.sent) : a[i] = s.sent[i]
    <3>. HIDE DEF x, n
    <3>. QED
      BY <2>1, <2>3
  <2>5. x.req = n /\ x.close = ~s.keepAlive /\ x.late = closing
    BY <2>2
  <2>. HIDE DEF x, a
  <2>6. Write(s, out) = w
    BY <1>0, <1>2 DEF Write, ConnState, x, a
  <2>7. w \in ConnState
    BY <1>0, <2>4 DEF ConnState
  <2>8. w.state = "open"
    BY <1>0 DEF ConnState
  <2>9. /\ r \in ConnState /\ SameStream(s, r) /\ SameBuffer(s, r)
        /\ r.inflight = 0 /\ r.sent = a /\ r.out = out /\ r.keepAlive = s.keepAlive
        /\ r.onDrain = s.onDrain /\ r.reading = s.reading /\ r.fin = s.fin
        /\ Answered(s, w, r)
    <3>. HIDE DEF w
    <3>1. w = [s EXCEPT !.out = out, !.state = "open", !.sent = a]
      BY DEF w
    <3>2. AfterAnswer(s, w, out, a, Responded(w))
      BY <1>0, <2>7, <3>1, RespondedIs
    <3>. QED
      BY <2>6, <3>2 DEF AfterAnswer
  <2>. HIDE DEF w, r
  <2>10. FrameInv(r) /\ ParseInv(r)
    BY <1>0, <2>1, <2>9, FramingKept
  <2>11. \/ ~s.keepAlive /\ ~r.tick /\ r.awaiting = s.awaiting /\ r.dead /\ r.state = "ended"
         \/ s.keepAlive /\ (r.tick <=> s.awaiting) /\ ~r.awaiting /\ ~r.dead /\ r.state = "open"
    BY <1>1, <2>1, <2>8, <2>9 DEF Answered
  <2>12. ModeInv(r)
    BY <1>0, <1>1, <2>1, <2>9, <2>11 DEF ModeInv, SameBuffer
  <2>13. Count(r) = n /\ r.stream = s.stream
    BY <2>9 DEF Count, SameStream
  <2>14. closing \/ s.stream[n] = "close" => ~s.keepAlive
    BY <1>0, <1>2 DEF AnswerInv
  <2>15. \A i \in 1..Len(s.sent) : /\ s.sent[i].req = i /\ ~s.sent[i].close
                                   /\ ~(s.sent[i].late \/ s.stream[i] = "close")
    BY <1>0, <1>2 DEF AnswerInv
  <2>. HIDE DEF n
  <2>16. ASSUME NEW i \in 1..Len(a)
         PROVE  /\ a[i].req = i
                /\ a[i].late \/ s.stream[i] = "close" => a[i].close
                /\ a[i].close => i = n /\ r.state # "open" /\ r.dead
    <3>1. CASE i = n
      BY <2>4, <2>5, <2>11, <2>14, <3>1
    <3>2. CASE i # n
      <4>1. i \in 1..Len(s.sent)
        BY <2>1, <2>4, <3>2
      <4>. QED
        BY <2>4, <2>15, <4>1
    <3>. QED
      BY <3>1, <3>2
  <2>17. AnswerInv(r, closing)
    BY <2>1, <2>4, <2>9, <2>11, <2>13, <2>16 DEF AnswerInv
  <2>18. Sound(r, closing)
    BY <2>9, <2>10, <2>12, <2>17 DEF Sound, ConnInv
  <2>. QED
    BY <2>18 DEF r
<1>3. CASE s.state # "open"
  <2>. DEFINE st == IF s.state = "ended" THEN "destroyed" ELSE s.state
              w == [s EXCEPT !.out = s.out, !.state = st, !.sent = s.sent]
  <2>1. Write(s, out) = w
    BY <1>0, <1>3 DEF Write, Destroy, ConnState
  <2>2. st \in {"destroyed", "closed"} /\ (s.state = "closed" <=> st = "closed")
    BY <1>0, <1>1, <1>3 DEF ConnState
  <2>. HIDE DEF st
  <2>3. w \in ConnState /\ w.state = st
    BY <1>0, <2>2 DEF ConnState
  <2>4. /\ r \in ConnState /\ SameStream(s, r) /\ SameBuffer(s, r)
        /\ r.inflight = 0 /\ r.sent = s.sent /\ r.keepAlive = s.keepAlive
        /\ r.onDrain = s.onDrain /\ r.reading = s.reading /\ r.fin = s.fin
        /\ Answered(s, w, r)
    <3>. HIDE DEF w
    <3>1. w = [s EXCEPT !.out = s.out, !.state = st, !.sent = s.sent]
      BY DEF w
    <3>2. AfterAnswer(s, w, s.out, s.sent, Responded(w))
      BY <1>0, <2>3, <3>1, RespondedIs
    <3>. QED
      BY <2>1, <3>2 DEF AfterAnswer
  <2>. HIDE DEF w, r
  <2>5. /\ r.state = st /\ (s.dead => r.dead)
        /\ \/ r.dead /\ ~r.tick /\ r.awaiting = s.awaiting
           \/ ~s.dead /\ ~r.dead /\ (r.tick <=> s.awaiting) /\ ~r.awaiting
    BY <1>1, <2>2, <2>3, <2>4 DEF Answered
  <2>6. ModeInv(r)
    BY <1>0, <1>1, <1>3, <2>2, <2>4, <2>5 DEF ModeInv, SameBuffer
  <2>7. Sound(r, closing)
    BY <1>3, <2>2, <2>4, <2>5, <2>6, Kept
  <2>. QED
    BY <2>7 DEF r
<1>. QED
  BY <1>2, <1>3

-----------------------------------------------------------------------------
(* processBuffer. *)

\* What is not dispatched begins with the next request.
LEMMA BeginsNext ==
  ASSUME NEW s \in ConnState, NEW off \in Nat, off < Len(s.buf), WindowAt(s, off),
         s.arrived <= Len(Units(s)), Count(s) <= Len(s.stream)
  PROVE  Count(s) < Len(s.stream) /\ Begins(s.buf, off, Count(s), NextKind(s))
<1>. DEFINE n == Count(s)
            N == Len(s.stream)
            k == NextKind(s)
            e == EndOf(s, n)
            len == Len(s.buf)
            a == s.arrived
<1>1. n \in Nat /\ N \in Nat /\ len \in Nat /\ a \in Nat /\ s.stream \in Seq(Kinds) /\ off < len
  BY DEF ConnState, Count
<1>2. /\ Len(Units(s)) = EndOf(s, N) /\ Units(s) \in Seq(Unit)
      /\ \A i \in 0..N : EndOf(s, i) \in Nat
      /\ \A i \in 1..N : /\ s.stream[i] \in Kinds
                         /\ \A j \in 1..SizeOf(s.stream[i]) :
                              Units(s)[EndOf(s, i - 1) + j] = [req |-> i, part |-> Format[s.stream[i]][j]]
  BY <1>1, StreamIs
<1>3. /\ off <= len /\ len <= a /\ a - len + off = e
      /\ \A i \in 1..len : s.buf[i] = Units(s)[a - len + i]
      /\ a <= Len(Units(s)) /\ n <= N
  BY DEF WindowAt
<1>4. n \in 0..N /\ e \in Nat
  BY <1>1, <1>2, <1>3
<1>5. n < N
  <2>1. ASSUME n = N  PROVE FALSE
    <3>1. e = Len(Units(s))
      BY <1>2, <2>1
    <3>. HIDE DEF n, N, e, len, a
    <3>. QED
      BY <1>1, <1>3, <1>4, <3>1
  <2>. HIDE DEF n, N
  <2>. QED
    BY <1>1, <1>3, <2>1
<1>6. n + 1 \in 1..N /\ (n + 1) - 1 = n /\ k = s.stream[n + 1]
  <2>1. k = s.stream[n + 1]
    BY DEF NextKind
  <2>. HIDE DEF n, N, k
  <2>. QED
    BY <1>1, <1>5, <2>1
<1>7. \A j \in 1..SizeOf(k) : Units(s)[e + j] = [req |-> n + 1, part |-> Format[k][j]]
  BY <1>2, <1>6
<1>8. k \in Kinds
  BY <1>2, <1>6
<1>9. SizeOf(k) \in Nat
  BY <1>8, FormatIs
<1>. HIDE DEF n, N, k, e, len, a
<1>10. ASSUME NEW j \in 1..SizeOf(k), off + j <= len
       PROVE  s.buf[off + j].req = n + 1 /\ s.buf[off + j].part = Format[k][j]
  <2>1. off + j \in 1..len /\ a - len + (off + j) = e + j
    BY <1>1, <1>3, <1>4, <1>9, <1>10
  <2>2. s.buf[off + j] = Units(s)[e + j]
    BY <1>3, <2>1
  <2>3. s.buf[off + j] = [req |-> n + 1, part |-> Format[k][j]]
    BY <1>7, <2>2
  <2>. QED
    BY <2>3
<1>11. Begins(s.buf, off, n, k)
  BY <1>10 DEF Begins, len
<1>. QED
  BY <1>5, <1>11 DEF n, N, k

\* what processBuffer leaves of the connection when it is out of its loop
Compacted(s, off, incomplete, r) ==
  /\ r \in ConnState /\ SameStream(s, r)
  /\ r.buf \in Seq(Unit) /\ Len(r.buf) = Len(s.buf) - off
  /\ \A i \in 1..Len(r.buf) : r.buf[i] = s.buf[off + i]
  /\ ~r.running /\ r.need = (IF incomplete THEN s.need ELSE 0)
  /\ r.scan = (IF incomplete THEN s.scan ELSE 0)
  /\ r.hdrSince # "none" <=> Len(r.buf) > 0 /\ incomplete /\ r.need = 0 /\ HeadersTimeout
  /\ r.paused = s.paused /\ r.awaiting = s.awaiting /\ r.dead = s.dead /\ r.inflight = s.inflight
  /\ r.tick = s.tick /\ r.state = s.state /\ r.out = s.out /\ r.reading = s.reading
  /\ r.onDrain = s.onDrain /\ r.fin = s.fin /\ r.sent = s.sent /\ r.keepAlive = s.keepAlive
  /\ r.skip = s.skip

\* It drops what was dispatched and sets the header clock.
LEMMA CompactIs ==
  ASSUME NEW s \in ConnState, NEW off \in Nat, off <= Len(s.buf), NEW incomplete \in BOOLEAN
  PROVE  Compacted(s, off, incomplete, Compact(s, off, incomplete))
<1>. DEFINE b == SubSeq(s.buf, off + 1, Len(s.buf))
            nd == IF incomplete THEN s.need ELSE 0
            sc == IF incomplete THEN s.scan ELSE 0
            q == [s EXCEPT !.need = nd, !.scan = sc, !.buf = b, !.running = FALSE]
            hd == IF b = <<>> \/ ~incomplete \/ nd # 0 \/ ~HeadersTimeout THEN "none"
                  ELSE IF off > 0 \/ s.hdrSince = "none" THEN "running" ELSE s.hdrSince
            r == [s EXCEPT !.need = nd, !.scan = sc, !.buf = b, !.running = FALSE, !.hdrSince = hd]
<1>1. s.buf \in Seq(Unit) /\ Len(s.buf) \in Nat /\ s.need \in Nat /\ s.scan \in Nat
  BY DEF ConnState
<1>2. /\ b \in Seq(Unit) /\ Len(b) = Len(s.buf) - off
      /\ \A i \in 1..Len(b) : b[i] = s.buf[off + i]
  <2>. DEFINE m == off + 1
              len == Len(s.buf)
  <2>1. m \in 1..(len + 1) /\ len \in m - 1..len /\ len \in Nat
    BY <1>1
  <2>2. /\ SubSeq(s.buf, m, len) \in Seq(Unit)
        /\ Len(SubSeq(s.buf, m, len)) = len - m + 1
        /\ \A i \in 1..(len - m + 1) : SubSeq(s.buf, m, len)[i] = s.buf[m + i - 1]
    BY <1>1, <2>1, SubSeqProperties
  <2>. HIDE DEF len
  <2>3. len - m + 1 = len - off /\ \A i \in Nat : m + i - 1 = off + i
    BY <2>1
  <2>. QED
    BY <2>1, <2>2, <2>3 DEF len
<1>3. b = <<>> <=> Len(b) = 0
  BY <1>2, EmptySeq
<1>4. nd \in Nat /\ sc \in Nat
  BY <1>1
<1>5. hd \in {"none", "running", "expired"}
  BY DEF ConnState
<1>6. hd # "none" <=> b # <<>> /\ incomplete /\ nd = 0 /\ HeadersTimeout
  OBVIOUS
<1>. HIDE DEF b, nd, sc
<1>7. Compact(s, off, incomplete) = r
  BY DEF Compact, ConnState, b, nd, sc
<1>. HIDE DEF hd
<1>8. r \in ConnState
  BY <1>2, <1>4, <1>5 DEF ConnState
<1>9. /\ SameStream(s, r) /\ r.buf = b /\ ~r.running /\ r.need = nd /\ r.scan = sc /\ r.hdrSince = hd
      /\ r.paused = s.paused /\ r.awaiting = s.awaiting /\ r.dead = s.dead /\ r.inflight = s.inflight
      /\ r.tick = s.tick /\ r.state = s.state /\ r.out = s.out /\ r.reading = s.reading
      /\ r.onDrain = s.onDrain /\ r.fin = s.fin /\ r.sent = s.sent /\ r.keepAlive = s.keepAlive
      /\ r.skip = s.skip
  BY DEF ConnState, SameStream
<1>10. Len(b) \in Nat
  BY <1>1, <1>2
<1>. HIDE DEF r
<1>11. r.hdrSince # "none" <=> Len(r.buf) > 0 /\ incomplete /\ r.need = 0 /\ HeadersTimeout
  BY <1>3, <1>6, <1>9, <1>10
<1>12. /\ r.need = (IF incomplete THEN s.need ELSE 0)
       /\ r.scan = (IF incomplete THEN s.scan ELSE 0)
  BY <1>9 DEF nd, sc
<1>13. /\ r.buf \in Seq(Unit) /\ Len(r.buf) = Len(s.buf) - off
       /\ \A i \in 1..Len(r.buf) : r.buf[i] = s.buf[off + i]
  BY <1>2, <1>9
<1>. QED
  BY <1>7, <1>8, <1>9, <1>11, <1>12, <1>13 DEF Compacted

\* What is left begins where the next request does.
LEMMA CompactWindow ==
  ASSUME NEW s \in ConnState, NEW off \in Nat, WindowAt(s, off), NEW incomplete, NEW r,
         Compacted(s, off, incomplete, r)
  PROVE  WindowAt(r, 0)
<1>. DEFINE len == Len(s.buf)
            m == Len(r.buf)
            a == s.arrived
<1>1. len \in Nat /\ a \in Nat
  BY DEF ConnState
<1>2. /\ off <= len /\ len <= a /\ a - len + off = EndOf(s, Count(s))
      /\ \A i \in 1..len : s.buf[i] = Units(s)[a - len + i]
  BY DEF WindowAt
<1>3. r.arrived = a /\ Units(r) = Units(s) /\ EndOf(r, Count(r)) = EndOf(s, Count(s))
  BY DEF Compacted, SameStream, Units, EndOf, Count
<1>4. m = len - off /\ \A i \in 1..m : r.buf[i] = s.buf[off + i]
  BY DEF Compacted
<1>. HIDE DEF len, m, a
<1>5. 0 <= m /\ m <= a /\ a - m + 0 = EndOf(s, Count(s))
  BY <1>1, <1>2, <1>4
<1>6. ASSUME NEW i \in 1..m  PROVE r.buf[i] = Units(s)[a - m + i]
  <2>1. off + i \in 1..len /\ a - len + (off + i) = a - m + i
    BY <1>1, <1>2, <1>4
  <2>. QED
    BY <1>2, <1>4, <2>1
<1>. QED
  BY <1>3, <1>5, <1>6 DEF WindowAt, m, a

\* the loop of processBuffer may turn: nothing is awaited
Ready(s, off) ==
  /\ s \in ConnState /\ off \in Nat /\ WindowAt(s, off) /\ AnswerInv(s, closing)
  /\ s.arrived <= Len(Units(s)) /\ Count(s) <= Len(s.stream) /\ ~s.rejected
  /\ \A i \in 1..Count(s) : s.dispatched[i] = i /\ s.stream[i] \in Wellformed
  /\ ~s.dead /\ s.state = "open" /\ s.inflight = 0 /\ ~s.awaiting /\ ~s.tick /\ ~s.onDrain
  /\ ~s.paused /\ s.reading /\ s.skip = 0

\* and its search starts no later than where the next head is
ScanOk(s, off, scan) ==
  /\ scan \in Nat
  /\ Count(s) < Len(s.stream) => /\ scan <= off + HeadAt(NextKind(s))
                                 /\ NextKind(s) = "bare" => scan <= off

\* Where the next request is.
LEMMA NextIs ==
  ASSUME NEW s \in ConnState, Count(s) < Len(s.stream)
  PROVE  /\ NextKind(s) \in Kinds /\ HeadAt(NextKind(s)) \in Nat /\ SizeOf(NextKind(s)) \in Nat
         /\ SizeOf(NextKind(s)) >= HeadAt(NextKind(s)) + 2 /\ EndOf(s, Count(s)) \in Nat
         /\ EndOf(s, Count(s) + 1) = EndOf(s, Count(s)) + SizeOf(NextKind(s))
<1>. DEFINE n == Count(s)
            N == Len(s.stream)
<1>1. n \in Nat /\ N \in Nat /\ s.stream \in Seq(Kinds) /\ n < N
  BY DEF ConnState, Count
<1>2. n \in 0..N /\ n + 1 \in 1..N /\ (n + 1) - 1 = n
  <2>. HIDE DEF n, N
  <2>. QED
    BY <1>1
<1>3. /\ \A i \in 0..N : EndOf(s, i) \in Nat
      /\ \A i \in 1..N : /\ s.stream[i] \in Kinds
                         /\ EndOf(s, i) = EndOf(s, i - 1) + SizeOf(s.stream[i])
  BY <1>1, StreamIs
<1>4. /\ EndOf(s, n) \in Nat /\ s.stream[n + 1] \in Kinds
      /\ EndOf(s, n + 1) = EndOf(s, n) + SizeOf(s.stream[n + 1])
  BY <1>2, <1>3
<1>5. NextKind(s) = s.stream[n + 1]
  BY DEF NextKind
<1>. HIDE DEF n
<1>. QED
  BY <1>4, <1>5, FormatIs DEF n

\* The loop is left with an empty buffer.
LEMMA IdleKeeps ==
  ASSUME NEW s, NEW off, Ready(s, off), off >= Len(s.buf)
  PROVE  Sound(Compact(s, off, FALSE), closing)
<1>. DEFINE r == Compact(s, off, FALSE)
<1>1. s \in ConnState /\ off \in Nat /\ WindowAt(s, off) /\ AnswerInv(s, closing)
  BY DEF Ready
<1>2. off = Len(s.buf) /\ Len(s.buf) \in Nat /\ s.arrived \in Nat
  BY <1>1 DEF WindowAt, ConnState
<1>3. Compacted(s, off, FALSE, r)
  BY <1>1, <1>2, CompactIs
<1>. HIDE DEF r
<1>4. WindowAt(r, 0)
  BY <1>1, <1>3, CompactWindow
<1>5. r \in ConnState /\ SameStream(s, r)
  BY <1>3 DEF Compacted
<1>6. /\ Count(r) = Count(s) /\ Units(r) = Units(s) /\ r.stream = s.stream /\ r.arrived = s.arrived
      /\ r.dispatched = s.dispatched /\ ~r.rejected
  BY <1>5 DEF Ready, SameStream, Count, Units
<1>7. /\ ~r.running /\ r.need = 0 /\ r.scan = 0 /\ r.hdrSince = "none" /\ r.skip = 0 /\ Len(r.buf) = 0
      /\ ~r.paused /\ ~r.awaiting /\ ~r.dead /\ r.inflight = 0 /\ ~r.tick /\ r.state = "open"
      /\ r.reading /\ ~r.onDrain /\ r.sent = s.sent
  BY <1>2, <1>3 DEF Compacted, Ready
<1>8. FrameInv(r)
  BY <1>4, <1>6, <1>7 DEF Ready, FrameInv, Window, Off
<1>9. ParseInv(r)
  <2>1. r.arrived = EndOf(r, Count(r)) /\ r.arrived \in Nat
    BY <1>2, <1>4, <1>6, <1>7 DEF WindowAt
  <2>2. ASSUME Count(r) < Len(r.stream)
        PROVE  r.arrived < EndOf(r, Count(r) + 1) /\ HeadAt(NextKind(r)) \in Nat
    BY <1>5, <2>1, <2>2, NextIs
  <2>3. Count(r) <= Len(r.stream) /\ Count(r) \in Nat /\ Len(r.stream) \in Nat
    BY SMTT(20), <1>5, <1>6 DEF Ready, Count, ConnState
  <2>. QED
    BY <1>7, <2>1, <2>2, <2>3 DEF ParseInv
<1>10. ModeInv(r)
  BY <1>7 DEF ModeInv
<1>11. AnswerInv(r, closing)
  BY <1>1, <1>6, <1>7, AnswersKept DEF Ready
<1>12. Sound(r, closing)
  BY <1>5, <1>8, <1>9, <1>10, <1>11 DEF Sound, ConnInv
<1>. QED
  BY <1>12 DEF r

\* The loop waits for the rest of a request.
LEMMA IncompleteKeeps ==
  ASSUME NEW s, NEW off, Ready(s, off), off < Len(s.buf), NEW p, p.tag = "incomplete",
         ParsesTo(s, off, Count(s), NextKind(s), p), Count(s) < Len(s.stream)
  PROVE  Sound(Compact([s EXCEPT !.keepAlive = p.keepAlive, !.need = p.need, !.scan = p.scan],
                       off, TRUE), closing)
<1>. DEFINE k == NextKind(s)
            h == HeadAt(k)
            q == [s EXCEPT !.keepAlive = p.keepAlive, !.need = p.need, !.scan = p.scan]
            r == Compact(q, off, TRUE)
<1>1. s \in ConnState /\ off \in Nat /\ WindowAt(s, off) /\ AnswerInv(s, closing)
  BY DEF Ready
<1>2. /\ k \in Kinds /\ h \in Nat /\ SizeOf(k) \in Nat /\ SizeOf(k) >= h + 2
      /\ EndOf(s, Count(s)) \in Nat
      /\ EndOf(s, Count(s) + 1) = EndOf(s, Count(s)) + SizeOf(k)
  BY <1>1, NextIs
<1>3. /\ p.keepAlive \in BOOLEAN /\ p.need \in Nat /\ p.scan \in Nat /\ p.scan <= h /\ k # "bare"
      /\ \/ Len(s.buf) <= off + h + 1 /\ p.need = 0
         \/ Len(s.buf) >= off + h + 2 /\ Len(s.buf) < off + SizeOf(k) /\ p.need = SizeOf(k)
  <2>1. s.keepAlive \in BOOLEAN
    BY <1>1 DEF ConnState
  <2>. QED
    BY <1>2, <2>1 DEF ParsesTo
<1>4. q \in ConnState
  BY <1>1, <1>3 DEF ConnState
<1>5. /\ SameStream(s, q) /\ q.buf = s.buf /\ q.need = p.need /\ q.scan = p.scan
      /\ ~q.paused /\ ~q.awaiting /\ ~q.dead /\ q.inflight = 0 /\ ~q.tick /\ q.state = "open"
      /\ q.reading /\ ~q.onDrain /\ q.sent = s.sent /\ q.skip = 0
  BY <1>1 DEF ConnState, Ready, SameStream
<1>. HIDE DEF q
<1>6. /\ Count(q) = Count(s) /\ Units(q) = Units(s) /\ \A i : EndOf(q, i) = EndOf(s, i)
      /\ q.arrived = s.arrived
  BY <1>5 DEF SameStream, Count, Units, EndOf
<1>7. WindowAt(q, off) /\ off <= Len(q.buf) /\ Len(s.buf) \in Nat /\ s.arrived \in Nat
  BY <1>1, <1>5, <1>6 DEF WindowAt, ConnState
<1>8. Compacted(q, off, TRUE, r)
  BY <1>1, <1>4, <1>7, CompactIs
<1>. HIDE DEF r
<1>9. WindowAt(r, 0)
  BY <1>1, <1>4, <1>7, <1>8, CompactWindow
<1>10. r \in ConnState /\ SameStream(q, r)
  BY <1>8 DEF Compacted
<1>11. /\ Count(r) = Count(s) /\ Units(r) = Units(s) /\ r.stream = s.stream /\ r.arrived = s.arrived
       /\ r.dispatched = s.dispatched /\ ~r.rejected /\ NextKind(r) = k
       /\ \A i : EndOf(r, i) = EndOf(s, i)
  BY <1>5, <1>10 DEF Ready, SameStream, Count, Units, NextKind, EndOf
<1>12. /\ ~r.running /\ r.need = p.need /\ r.scan = p.scan /\ Len(r.buf) = Len(s.buf) - off
       /\ r.hdrSince # "none" <=> Len(r.buf) > 0 /\ p.need = 0 /\ HeadersTimeout
       /\ ~r.paused /\ ~r.awaiting /\ ~r.dead /\ r.inflight = 0 /\ ~r.tick /\ r.state = "open"
       /\ r.reading /\ ~r.onDrain /\ r.sent = s.sent /\ r.skip = 0
  BY <1>5, <1>8 DEF Compacted
<1>13. FrameInv(r)
  BY <1>9, <1>11, <1>12 DEF Ready, FrameInv, Window, Off
<1>14. ParseInv(r)
  <2>. DEFINE e == EndOf(s, Count(s))
              a == s.arrived
              len == Len(r.buf)
  <2>1. a - len + 0 = e
    BY <1>9, <1>11 DEF WindowAt
  <2>2. len = Len(s.buf) - off /\ off < Len(s.buf)
    BY <1>12
  <2>. HIDE DEF e, a, len, h
  <2>3. len \in Nat /\ len > 0 /\ a = e + len /\ e \in Nat /\ a \in Nat
    BY <1>1, <1>2, <1>7, <2>1, <2>2 DEF e, a
  <2>4. \/ len <= h + 1 /\ p.need = 0
        \/ len >= h + 2 /\ len < SizeOf(k) /\ p.need = SizeOf(k) /\ p.need > 0
    BY <1>1, <1>2, <1>3, <1>7, <2>2
  <2>5. a < e + SizeOf(k) /\ e < a
    BY <1>2, <2>3, <2>4
  <2>6. p.need = 0 <=> a < e + h + 2
    BY <1>2, <2>3, <2>4
  <2>7. p.need > 0 => p.need = SizeOf(k) /\ len >= h + 2
    BY <1>2, <2>4
  <2>8. r.hdrSince # "none" <=>
          /\ HeadersTimeout /\ ~r.paused /\ Count(r) < Len(r.stream)
          /\ e < a /\ a < e + h + 2
    BY <1>11, <1>12, <2>3, <2>5, <2>6 DEF len
  <2>9. r.scan <= r.skip + h
    BY <1>2, <1>3, <1>12
  <2>10. EndOf(r, Count(r)) = e /\ EndOf(r, Count(r) + 1) = e + SizeOf(k) /\ r.arrived = a
    BY <1>2, <1>11 DEF e, a
  <2>. HIDE DEF k
  <2>. QED
    BY <1>3, <1>11, <1>12, <2>5, <2>7, <2>8, <2>9, <2>10 DEF ParseInv, h, len
<1>15. ModeInv(r)
  BY <1>12 DEF ModeInv
<1>16. AnswerInv(r, closing)
  BY <1>1, <1>11, <1>12, AnswersKept DEF Ready
<1>17. Sound(r, closing)
  BY <1>10, <1>13, <1>14, <1>15, <1>16 DEF Sound, ConnInv
<1>. QED
  BY <1>17 DEF r, q

\* The loop meets something malformed.
LEMMA RejectKeeps ==
  ASSUME NEW s, NEW off, Ready(s, off), Count(s) < Len(s.stream), NextKind(s) \notin Wellformed
  PROVE  Sound([Reject(s) EXCEPT !.running = FALSE], closing)
<1>. DEFINE o == IF s.out = "empty" THEN "some" ELSE s.out
            r == [s EXCEPT !.state = "ended", !.dead = TRUE, !.buf = <<>>, !.rejected = TRUE,
                           !.out = o, !.running = FALSE]
<1>1. s \in ConnState /\ AnswerInv(s, closing)
  BY DEF Ready
<1>2. o \in {"empty", "some", "full"} /\ <<>> \in Seq(Unit)
  BY <1>1 DEF ConnState
<1>3. [Reject(s) EXCEPT !.running = FALSE] = r
  <2>1. s.state = "open"
    BY DEF Ready
  <2>. QED
    BY <1>1, <2>1 DEF Reject, End, ConnState
<1>. HIDE DEF o
<1>4. r \in ConnState
  BY <1>1, <1>2 DEF ConnState
<1>5. /\ r.stream = s.stream /\ r.arrived = s.arrived /\ r.dispatched = s.dispatched /\ r.rejected
      /\ r.dead /\ r.state = "ended" /\ ~r.running /\ r.sent = s.sent /\ r.inflight = 0
      /\ ~r.paused /\ ~r.awaiting /\ ~r.tick /\ ~r.onDrain /\ r.reading
  BY <1>1 DEF ConnState, Ready
<1>. HIDE DEF r
<1>6. Count(r) = Count(s) /\ Units(r) = Units(s) /\ NextKind(r) = NextKind(s)
  BY <1>5 DEF Count, Units, NextKind
<1>7. FrameInv(r)
  BY <1>5, <1>6 DEF Ready, FrameInv
<1>8. ParseInv(r)
  BY <1>5 DEF ParseInv
<1>9. ModeInv(r)
  BY <1>5 DEF ModeInv
<1>10. AnswerInv(r, closing)
  BY <1>1, <1>5, AnswersKept DEF Ready
<1>11. Sound(r, closing)
  BY <1>4, <1>7, <1>8, <1>9, <1>10 DEF Sound, ConnInv
<1>. QED
  BY <1>3, <1>11

\* the connection when the handler is called
Called(s, p) ==
  [s EXCEPT !.running = TRUE, !.offset = p.consumed, !.inflight = 1,
            !.keepAlive = p.keepAlive, !.dispatched = Append(s.dispatched, p.req)]

\* The loop calls the handler.
LEMMA DispatchKeeps ==
  ASSUME NEW s, NEW off, closing \in BOOLEAN, Ready(s, off), off < Len(s.buf), NEW p,
         p.tag = "request", ParsesTo(s, off, Count(s), NextKind(s), p), Count(s) < Len(s.stream)
  PROVE  Sound(Called(s, p), closing)
<1>. DEFINE k == NextKind(s)
            n == Count(s)
            N == Len(s.stream)
            d == Append(s.dispatched, n + 1)
            ka == k # "close" /\ ~closing
            to == off + SizeOf(k)
            r == [s EXCEPT !.running = TRUE, !.offset = to, !.inflight = 1,
                           !.keepAlive = ka, !.dispatched = d]
<1>1. /\ s \in ConnState /\ off \in Nat /\ WindowAt(s, off) /\ AnswerInv(s, closing)
      /\ s.arrived <= Len(Units(s)) /\ ~s.rejected
      /\ \A i \in 1..n : s.dispatched[i] = i /\ s.stream[i] \in Wellformed
  BY DEF Ready
<1>2. /\ k \in Kinds /\ SizeOf(k) \in Nat /\ EndOf(s, n) \in Nat
      /\ EndOf(s, n + 1) = EndOf(s, n) + SizeOf(k)
  BY <1>1, NextIs
<1>3. /\ p.req = n + 1 /\ p.consumed = to /\ p.keepAlive = ka /\ k \in Wellformed /\ to <= Len(s.buf)
  <2>1. Len(s.buf) \in Nat
    BY <1>1 DEF ConnState
  <2>2. /\ p.req = n + 1 /\ p.consumed = to /\ p.keepAlive = ka /\ k \in Wellformed
        /\ Len(s.buf) >= off + SizeOf(k)
    BY DEF ParsesTo
  <2>. HIDE DEF k
  <2>. QED
    BY <1>1, <1>2, <2>1, <2>2
<1>4. Called(s, p) = r
  BY <1>3 DEF Called
<1>5. n \in Nat /\ N \in Nat /\ n < N /\ s.dispatched \in Seq(Nat) /\ Len(s.dispatched) = n
  BY <1>1 DEF ConnState, Count
<1>6. /\ d \in Seq(Nat) /\ Len(d) = n + 1 /\ d[n + 1] = n + 1
      /\ \A i \in 1..n : d[i] = s.dispatched[i]
  <2>. HIDE DEF n
  <2>. QED
    BY <1>5
<1>7. ka \in BOOLEAN /\ to \in Nat
  BY <1>1, <1>2
<1>8. k = s.stream[n + 1]
  BY DEF NextKind
<1>. HIDE DEF d, ka, to, k
<1>9. r \in ConnState
  BY <1>1, <1>6, <1>7 DEF ConnState
<1>10. /\ r.stream = s.stream /\ r.arrived = s.arrived /\ r.dispatched = d /\ ~r.rejected
       /\ r.running /\ r.offset = to /\ r.buf = s.buf /\ r.keepAlive = ka /\ r.sent = s.sent
       /\ ~r.dead /\ r.state = "open" /\ r.inflight = 1
       /\ ~r.paused /\ ~r.awaiting /\ ~r.tick /\ ~r.onDrain /\ r.reading /\ r.skip = 0
  BY <1>1 DEF ConnState, Ready
<1>. HIDE DEF r
<1>11. /\ Count(r) = n + 1 /\ Units(r) = Units(s) /\ \A i : EndOf(r, i) = EndOf(s, i)
       /\ Off(r) = to
  BY <1>6, <1>10 DEF Count, Units, EndOf, Off
<1>. HIDE DEF n, N
<1>12. Window(r)
  <2>1. /\ off <= Len(s.buf) /\ Len(s.buf) <= s.arrived
        /\ s.arrived - Len(s.buf) + off = EndOf(s, n)
        /\ \A i \in 1..Len(s.buf) : s.buf[i] = Units(s)[s.arrived - Len(s.buf) + i]
    BY <1>1 DEF WindowAt, n
  <2>2. s.arrived \in Nat /\ Len(s.buf) \in Nat
    BY <1>1 DEF ConnState
  <2>3. s.arrived - Len(s.buf) + to = EndOf(s, n + 1)
    BY <1>1, <1>2, <2>1, <2>2 DEF to
  <2>. QED
    BY <1>3, <1>10, <1>11, <2>1, <2>3 DEF Window, WindowAt
<1>13. ASSUME NEW i \in 1..(n + 1)  PROVE d[i] = i /\ s.stream[i] \in Wellformed
  <2>1. CASE i = n + 1
    BY <1>3, <1>6, <1>8, <2>1
  <2>2. CASE i # n + 1
    <3>1. i \in 1..n
      BY <1>5, <2>2
    <3>. QED
      BY <1>1, <1>6, <3>1
  <2>. QED
    BY <2>1, <2>2
<1>14. FrameInv(r)
  <2>1. n + 1 <= Len(s.stream)
    BY <1>5 DEF N
  <2>. QED
    BY <1>1, <1>10, <1>11, <1>12, <1>13, <2>1 DEF FrameInv
<1>15. ParseInv(r)
  BY <1>10 DEF ParseInv
<1>16. ModeInv(r)
  BY <1>10 DEF ModeInv
<1>17. AnswerInv(r, closing)
  <2>1. /\ Len(s.sent) = n /\ s.state = "open"
        /\ \A i \in 1..Len(s.sent) : /\ s.sent[i].req = i /\ ~s.sent[i].close
                                     /\ s.sent[i].late \/ s.stream[i] = "close" => s.sent[i].close
    <3>1. s.state = "open" /\ s.inflight = 0
      BY DEF Ready
    <3>2. n = Len(s.sent) + 0
      BY <1>1, <3>1 DEF AnswerInv, n
    <3>3. Len(s.sent) \in Nat
      BY <1>1 DEF ConnState
    <3>. QED
      BY <1>1, <3>1, <3>2, <3>3 DEF AnswerInv
  <2>2. closing \/ s.stream[n + 1] = "close" => ~ka
    BY <1>8 DEF ka
  <2>. QED
    BY <1>5, <1>10, <1>11, <2>1, <2>2 DEF AnswerInv
<1>18. Sound(r, closing)
  BY <1>9, <1>14, <1>15, <1>16, <1>17 DEF Sound, ConnInv
<1>. QED
  BY <1>4, <1>18

\* One turn of the loop, wherever it starts.
LEMMA IterateKeeps ==
  ASSUME NEW s, NEW off, NEW scan, closing \in BOOLEAN, Ready(s, off), ScanOk(s, off, scan)
  PROVE  Sound(Iterate(s, off, scan), closing)
<1>. DEFINE p == TryParse(s, off, scan)
            k == NextKind(s)
            n == Count(s)
<1>1. /\ s \in ConnState /\ off \in Nat /\ WindowAt(s, off)
      /\ s.arrived <= Len(Units(s)) /\ n <= Len(s.stream)
  BY DEF Ready
<1>2. Len(s.buf) \in Nat /\ s.keepAlive \in BOOLEAN
  BY <1>1 DEF ConnState
<1>3. CASE off >= Len(s.buf)
  <2>1. Iterate(s, off, scan) = Compact(s, off, FALSE)
    BY <1>3 DEF Iterate
  <2>. QED
    BY <1>3, <2>1, IdleKeeps
<1>4. CASE ~(off >= Len(s.buf))
  <2>1. off < Len(s.buf)
    BY <1>1, <1>2, <1>4
  <2>2. n < Len(s.stream) /\ Begins(s.buf, off, n, k)
    BY <1>1, <2>1, BeginsNext
  <2>3. k \in Kinds /\ s.stream[n + 1] = k
    BY <1>1, <2>2, NextIs DEF NextKind
  <2>4. scan \in Nat /\ scan <= off + HeadAt(k) /\ (k = "bare" => scan <= off)
    BY <2>2 DEF ScanOk
  <2>. HIDE DEF k, n, p
  <2>5. ParsesTo(s, off, n, k, p)
    BY <1>1, <1>2, <2>1, <2>2, <2>3, <2>4, ParseIs DEF p
  <2>6. CASE p.tag = "incomplete"
    <3>1. Iterate(s, off, scan)
            = Compact([s EXCEPT !.keepAlive = p.keepAlive, !.need = p.need, !.scan = p.scan], off, TRUE)
      BY <1>4, <2>6 DEF Iterate, p
    <3>2. ParsesTo(s, off, Count(s), NextKind(s), p) /\ Count(s) < Len(s.stream)
      BY <2>2, <2>5 DEF n, k
    <3>3. Sound(Compact([s EXCEPT !.keepAlive = p.keepAlive, !.need = p.need, !.scan = p.scan],
                        off, TRUE), closing)
      BY <2>1, <2>6, <3>2, IncompleteKeeps
    <3>. QED
      BY <3>1, <3>3
  <2>7. CASE p.tag = "reject"
    <3>1. Iterate(s, off, scan) = [Reject(s) EXCEPT !.running = FALSE]
      BY <1>4, <2>7 DEF Iterate, p
    <3>2. k \notin Wellformed
      BY <2>5, <2>7 DEF ParsesTo
    <3>. QED
      BY <2>2, <3>1, <3>2, RejectKeeps DEF n, k
  <2>8. CASE p.tag = "request"
    <3>1. Iterate(s, off, scan) = Called(s, p)
      BY <1>4, <2>8 DEF Iterate, Called, p
    <3>2. ParsesTo(s, off, Count(s), NextKind(s), p) /\ Count(s) < Len(s.stream)
      BY <2>2, <2>5 DEF n, k
    <3>3. Sound(Called(s, p), closing)
      BY <2>1, <2>8, <3>2, DispatchKeeps
    <3>. QED
      BY <3>1, <3>3
  <2>9. p.tag \in {"incomplete", "reject", "request"}
    BY <2>5 DEF ParsesTo
  <2>. QED
    BY <2>6, <2>7, <2>8, <2>9
<1>. QED
  BY <1>3, <1>4

\* The loop is left to wait for 'drain'.
LEMMA DrainKeeps ==
  ASSUME NEW s, NEW off, Ready(s, off), s.out = "full"
  PROVE  Sound(Compact(WaitForDrain(s), off, FALSE), closing)
<1>. DEFINE q == WaitForDrain(s)
            r == Compact(q, off, FALSE)
<1>1. s \in ConnState /\ off \in Nat /\ WindowAt(s, off) /\ AnswerInv(s, closing)
  BY DEF Ready
<1>2. q \in ConnState
  BY <1>1 DEF ConnState, WaitForDrain
<1>3. /\ SameStream(s, q) /\ q.buf = s.buf /\ q.paused /\ ~q.awaiting /\ ~q.dead /\ q.inflight = 0
      /\ ~q.tick /\ q.state = "open" /\ q.out = "full" /\ ~q.reading /\ q.onDrain
      /\ q.sent = s.sent /\ q.skip = 0
  BY <1>1 DEF ConnState, Ready, SameStream, WaitForDrain
<1>. HIDE DEF q
<1>4. Count(q) = Count(s) /\ Units(q) = Units(s) /\ (\A i : EndOf(q, i) = EndOf(s, i)) /\ q.arrived = s.arrived
  BY <1>3 DEF SameStream, Count, Units, EndOf
<1>5. WindowAt(q, off) /\ off <= Len(q.buf)
  BY <1>1, <1>3, <1>4 DEF WindowAt
<1>6. Compacted(q, off, FALSE, r)
  BY <1>1, <1>2, <1>5, CompactIs
<1>. HIDE DEF r
<1>7. WindowAt(r, 0)
  BY <1>1, <1>2, <1>5, <1>6, CompactWindow
<1>8. r \in ConnState /\ SameStream(q, r)
  BY <1>6 DEF Compacted
<1>9. /\ Count(r) = Count(s) /\ Units(r) = Units(s) /\ r.stream = s.stream /\ r.arrived = s.arrived
      /\ r.dispatched = s.dispatched /\ ~r.rejected
  BY <1>3, <1>8 DEF Ready, SameStream, Count, Units
<1>10. /\ ~r.running /\ r.need = 0 /\ r.scan = 0 /\ r.hdrSince = "none" /\ r.skip = 0
       /\ r.paused /\ ~r.awaiting /\ ~r.dead /\ r.inflight = 0 /\ ~r.tick /\ r.state = "open"
       /\ r.out = "full" /\ r.onDrain /\ r.sent = s.sent
  BY <1>3, <1>6 DEF Compacted
<1>11. FrameInv(r)
  BY <1>7, <1>9, <1>10 DEF Ready, FrameInv, Window, Off
<1>12. ParseInv(r)
  <2>1. Count(r) < Len(r.stream) => HeadAt(NextKind(r)) \in Nat
    BY <1>8, NextIs
  <2>. QED
    BY <1>10, <2>1 DEF ParseInv
<1>13. ModeInv(r)
  BY <1>10 DEF ModeInv
<1>14. AnswerInv(r, closing)
  BY <1>1, <1>9, <1>10, AnswersKept DEF Ready
<1>15. Sound(r, closing)
  BY <1>8, <1>11, <1>12, <1>13, <1>14 DEF Sound, ConnInv
<1>. QED
  BY <1>15 DEF r, q

\* The rest of a turn, after the handler has returned.
LEMMA ReturnKeeps ==
  ASSUME NEW s, closing \in BOOLEAN, Sound(s, closing), s.running
  PROVE  Sound(AfterHandler(s), closing)
<1>0. s \in ConnState /\ ModeInv(s) /\ FrameInv(s) /\ AnswerInv(s, closing)
  BY DEF Sound, ConnInv
<1>1. s.state # "none" /\ ~s.paused /\ ~s.awaiting /\ ~s.tick /\ ~s.onDrain
  BY <1>0 DEF ModeInv, NewConn
<1>2. CASE s.dead \/ s.state # "open"
  <2>1. s.state \in {"ended", "destroyed", "closed"}
    BY <1>0, <1>1, <1>2 DEF ModeInv, ConnState
  <2>2. AfterHandler(s) = [s EXCEPT !.state = s.state, !.dead = TRUE, !.running = FALSE]
    BY <1>0, <1>2 DEF AfterHandler, ConnState
  <2>3. Sound([s EXCEPT !.state = s.state, !.dead = TRUE, !.running = FALSE], closing)
    BY <1>1, <2>1, DeadKeeps
  <2>. QED
    BY <2>2, <2>3
<1>3. CASE ~(s.dead \/ s.state # "open") /\ s.inflight # 0
  <2>. DEFINE r == [s EXCEPT !.running = FALSE, !.awaiting = TRUE, !.paused = TRUE,
                             !.skip = s.offset, !.need = 0, !.scan = 0, !.hdrSince = "none"]
  <2>1. AfterHandler(s) = r
    BY <1>3 DEF AfterHandler
  <2>2. r \in ConnState
    <3>. DEFINE z == s.offset
                x == [s EXCEPT !.skip = z, !.need = 0, !.scan = 0]
    <3>1. s \in ConnState /\ z \in Nat
      BY <1>0 DEF ConnState
    <3>. HIDE DEF z
    <3>2. x \in ConnState
      BY <3>1 DEF ConnState
    <3>3. r = [x EXCEPT !.running = FALSE, !.awaiting = TRUE, !.paused = TRUE, !.hdrSince = "none"]
      BY <3>1 DEF ConnState, z
    <3>. HIDE DEF x, r
    <3>. QED
      BY ZenonT(30), <3>2, <3>3 DEF ConnState
  <2>3. /\ SameStream(s, r) /\ r.buf = s.buf /\ ~r.running /\ r.skip = s.offset /\ r.paused
        /\ r.need = 0 /\ r.scan = 0 /\ r.hdrSince = "none" /\ r.awaiting /\ r.inflight = 1
        /\ ~r.tick /\ ~r.onDrain /\ ~r.dead /\ r.state = "open" /\ r.sent = s.sent
        /\ r.keepAlive = s.keepAlive
    BY <1>0, <1>1, <1>3 DEF ConnState, SameStream
  <2>. HIDE DEF r
  <2>4. /\ Count(r) = Count(s) /\ Units(r) = Units(s) /\ NextKind(r) = NextKind(s)
        /\ \A i : EndOf(r, i) = EndOf(s, i)
    BY <2>3 DEF SameStream, Count, Units, NextKind, EndOf
  <2>5. FrameInv(r)
    <3>1. Off(r) = Off(s)
      BY <2>3 DEF Off
    <3>2. Window(r)
      BY <1>0, <1>3, <2>3, <2>4, <3>1 DEF FrameInv, Window, WindowAt, SameStream
    <3>. QED
      BY <1>0, <1>3, <2>3, <2>4, <3>2 DEF FrameInv, SameStream
  <2>6. ParseInv(r)
    <3>1. s.offset \in Nat
      BY <1>0 DEF ConnState
    <3>2. Count(r) < Len(r.stream) => HeadAt(NextKind(r)) \in Nat
      BY <2>2, NextIs
    <3>. QED
      BY <2>3, <3>1, <3>2 DEF ParseInv
  <2>7. ModeInv(r)
    BY <2>3 DEF ModeInv
  <2>8. AnswerInv(r, closing)
    <3>1. r.stream = s.stream /\ r.dispatched = s.dispatched /\ r.inflight = s.inflight
      BY <1>0, <1>3, <2>3 DEF SameStream, ConnState
    <3>. QED
      BY <1>0, <1>3, <2>3, <3>1, AnswersKept
  <2>. QED
    BY <2>1, <2>2, <2>5, <2>6, <2>7, <2>8 DEF Sound, ConnInv
<1>4. CASE ~(s.dead \/ s.state # "open") /\ s.inflight = 0
  <2>1. Ready(s, s.offset)
    <3>1. Off(s) = s.offset /\ s.offset \in Nat /\ WindowAt(s, s.offset)
      BY <1>0, <1>4 DEF FrameInv, Window, Off, ConnState
    <3>2. s.reading /\ s.skip = 0
      BY <1>0, <1>1, <1>4 DEF ModeInv
    <3>. QED
      BY <1>0, <1>1, <1>4, <3>1, <3>2 DEF Ready, FrameInv
  <2>2. CASE NeedsDrain(s)
    <3>1. AfterHandler(s) = Compact(WaitForDrain(s), s.offset, FALSE)
      BY <1>4, <2>2 DEF AfterHandler
    <3>2. s.out = "full"
      BY <2>2 DEF NeedsDrain
    <3>. QED
      BY <2>1, <3>1, <3>2, DrainKeeps
  <2>3. CASE ~NeedsDrain(s)
    <3>1. AfterHandler(s) = Iterate(s, s.offset, 0)
      BY <1>4, <2>3 DEF AfterHandler
    <3>2. ScanOk(s, s.offset, 0)
      <4>1. Count(s) < Len(s.stream) => HeadAt(NextKind(s)) \in Nat
        BY <1>0, NextIs
      <4>2. s.offset \in Nat
        BY <1>0 DEF ConnState
      <4>. QED
        BY <4>1, <4>2 DEF ScanOk
    <3>. QED
      BY <2>1, <3>1, <3>2, IterateKeeps
  <2>. QED
    BY <2>2, <2>3
<1>. QED
  BY <1>2, <1>3, <1>4

-----------------------------------------------------------------------------
(* resume and 'data'. *)

\* what resume() relies on
Resumable(s) ==
  /\ s \in ConnState /\ FrameInv(s) /\ ParseInv(s) /\ AnswerInv(s, closing)
  /\ s.paused /\ ~s.running /\ ~s.awaiting /\ ~s.tick /\ ~s.onDrain /\ s.inflight = 0
  /\ s.dead => s.state # "open"
  /\ s.state # "none"

\* A suspended dispatch goes on where it stopped, or waits for 'drain'.
LEMMA ResumeKeeps ==
  ASSUME NEW s, closing \in BOOLEAN, Resumable(s)
  PROVE  Sound(Resume(s), closing)
<1>0. s \in ConnState /\ FrameInv(s) /\ ParseInv(s) /\ AnswerInv(s, closing) /\ s.state # "none"
  BY DEF Resumable
<1>1. /\ s.paused /\ ~s.running /\ ~s.awaiting /\ ~s.tick /\ ~s.onDrain /\ s.inflight = 0
      /\ s.dead => s.state # "open"
  BY DEF Resumable
<1>. DEFINE r0 == [s EXCEPT !.paused = FALSE]
<1>2. /\ r0.dead = s.dead /\ r0.state = s.state /\ r0.out = s.out
      /\ Resume(s) = IF r0.dead \/ r0.state # "open" THEN [r0 EXCEPT !.dead = TRUE]
                     ELSE IF NeedsDrain(r0) THEN WaitForDrain(r0)
                     ELSE ProcessBuffer([r0 EXCEPT !.reading = TRUE])
  BY <1>0 DEF Resume, ConnState
<1>3. CASE s.dead \/ s.state # "open"
  <2>. DEFINE r == [s EXCEPT !.paused = FALSE, !.dead = TRUE]
  <2>1. Resume(s) = r
    BY <1>0, <1>2, <1>3 DEF ConnState
  <2>2. r \in ConnState
    BY <1>0 DEF ConnState
  <2>3. /\ SameStream(s, r) /\ r.dead /\ r.state = s.state /\ r.sent = s.sent /\ ~r.paused
        /\ ~r.running /\ ~r.awaiting /\ ~r.tick /\ ~r.onDrain /\ r.inflight = 0
    BY <1>0, <1>1 DEF ConnState, SameStream
  <2>. HIDE DEF r
  <2>4. ModeInv(r)
    BY <1>0, <1>1, <1>3, <2>3 DEF ModeInv
  <2>5. FrameInv(r) /\ ParseInv(r)
    BY <1>0, <2>3, FramingKept
  <2>6. AnswerInv(r, closing)
    <3>1. r.stream = s.stream /\ r.dispatched = s.dispatched /\ r.state # "open"
      BY <1>1, <1>3, <2>3 DEF SameStream
    <3>. QED
      BY <1>0, <2>3, <3>1, AnswersKept
  <2>. QED
    BY <2>1, <2>2, <2>4, <2>5, <2>6 DEF Sound, ConnInv
<1>4. CASE ~(s.dead \/ s.state # "open") /\ NeedsDrain(r0)
  <2>. DEFINE r == [s EXCEPT !.reading = FALSE, !.onDrain = TRUE]
  <2>1. Resume(s) = r
    BY ZenonT(30), <1>0, <1>1, <1>2, <1>4 DEF WaitForDrain, ConnState
  <2>2. r \in ConnState
    BY <1>0 DEF ConnState
  <2>3. /\ SameStream(s, r) /\ SameBuffer(s, r) /\ ~r.dead /\ r.state = "open" /\ r.sent = s.sent
        /\ r.paused /\ ~r.running /\ ~r.awaiting /\ ~r.tick /\ r.onDrain /\ r.inflight = 0
        /\ r.out = s.out
    BY <1>0, <1>1, <1>4 DEF ConnState, SameStream, SameBuffer
  <2>4. s.out = "full"
    BY <1>2, <1>4 DEF NeedsDrain
  <2>. HIDE DEF r
  <2>5. ModeInv(r)
    BY <2>3, <2>4 DEF ModeInv
  <2>6. FrameInv(r) /\ ParseInv(r)
    BY <1>0, <1>4, <2>3, FramingKept
  <2>7. AnswerInv(r, closing)
    <3>1. r.stream = s.stream /\ r.dispatched = s.dispatched
      BY <2>3 DEF SameStream
    <3>. QED
      BY <1>0, <1>1, <1>4, <2>3, <3>1, AnswersKept
  <2>. QED
    BY <2>1, <2>2, <2>5, <2>6, <2>7 DEF Sound, ConnInv
<1>5. CASE ~(s.dead \/ s.state # "open") /\ ~NeedsDrain(r0)
  <2>. DEFINE q == [s EXCEPT !.paused = FALSE, !.reading = TRUE, !.skip = 0]
              off == s.skip
              scan == s.scan
  <2>1. Resume(s) = Iterate(q, off, scan)
    <3>1. Resume(s) = ProcessBuffer([r0 EXCEPT !.reading = TRUE])
      BY <1>2, <1>5
    <3>2. /\ [[r0 EXCEPT !.reading = TRUE] EXCEPT !.skip = 0] = q
          /\ [r0 EXCEPT !.reading = TRUE].skip = off
          /\ [r0 EXCEPT !.reading = TRUE].scan = scan
      BY <1>0 DEF ConnState
    <3>. QED
      BY <3>1, <3>2 DEF ProcessBuffer
  <2>2. q \in ConnState
    BY <1>0 DEF ConnState
  <2>3. /\ SameStream(s, q) /\ q.buf = s.buf /\ ~q.dead /\ q.state = "open" /\ q.sent = s.sent
        /\ ~q.paused /\ q.reading /\ q.skip = 0 /\ ~q.awaiting /\ ~q.tick /\ ~q.onDrain
        /\ q.inflight = 0
    BY <1>0, <1>1, <1>5 DEF ConnState, SameStream
  <2>. HIDE DEF q
  <2>4. /\ Count(q) = Count(s) /\ Units(q) = Units(s) /\ NextKind(q) = NextKind(s)
        /\ \A i : EndOf(q, i) = EndOf(s, i)
    BY <2>3 DEF SameStream, Count, Units, NextKind, EndOf
  <2>5. Ready(q, off)
    <3>1. WindowAt(s, off) /\ off \in Nat /\ ~s.rejected
      BY <1>0, <1>1, <1>5 DEF FrameInv, Window, Off, ConnState
    <3>2. WindowAt(q, off)
      BY <2>3, <2>4, <3>1 DEF WindowAt, SameStream
    <3>3. q.stream = s.stream /\ q.dispatched = s.dispatched /\ q.arrived = s.arrived /\ ~q.rejected
      BY <2>3, <3>1 DEF SameStream
    <3>4. AnswerInv(q, closing)
      BY <1>0, <1>1, <1>5, <2>3, <3>3, AnswersKept
    <3>. QED
      BY <1>0, <2>2, <2>3, <2>4, <3>1, <3>2, <3>3, <3>4 DEF Ready, FrameInv
  <2>6. ScanOk(q, off, scan)
    <3>1. q.stream = s.stream /\ scan \in Nat
      BY <1>0, <2>3 DEF SameStream, ConnState
    <3>. QED
      BY <1>0, <1>1, <1>5, <2>4, <3>1 DEF ParseInv, ScanOk
  <2>. QED
    BY <2>1, <2>5, <2>6, IterateKeeps
<1>. QED
  BY <1>3, <1>4, <1>5

\* the buffer with the next n units
Arrives(s, n) == s.buf \o SubSeq(Units(s), s.arrived + 1, s.arrived + n)

\* What arrives is appended: the buffer is still the end of what has arrived.
LEMMA AppendWindow ==
  ASSUME NEW s \in ConnState, NEW n \in Nat, s.arrived + n <= Len(Units(s))
  PROVE  /\ Arrives(s, n) \in Seq(Unit) /\ Len(Arrives(s, n)) = Len(s.buf) + n
         /\ \A off \in Nat : \A r :
              /\ WindowAt(s, off) /\ r.buf = Arrives(s, n) /\ r.arrived = s.arrived + n
              /\ r.stream = s.stream /\ r.dispatched = s.dispatched
              => WindowAt(r, off)
<1>. DEFINE u == Units(s)
            a == s.arrived
            x == s.buf
            y == SubSeq(u, a + 1, a + n)
            b == x \o y
<1>1. x \in Seq(Unit) /\ Len(x) \in Nat /\ a \in Nat /\ s.stream \in Seq(Kinds)
  BY DEF ConnState
<1>2. u \in Seq(Unit) /\ Len(u) \in Nat /\ a + n <= Len(u)
  BY <1>1, StreamIs
<1>3. y \in Seq(Unit) /\ Len(y) = n /\ \A i \in 1..n : y[i] = u[a + i]
  <2>. HIDE DEF u, a
  <2>. DEFINE m == a + 1
              e == a + n
  <2>1. m \in 1..(Len(u) + 1) /\ e \in m - 1..Len(u)
    BY <1>1, <1>2
  <2>2. /\ SubSeq(u, m, e) \in Seq(Unit) /\ Len(SubSeq(u, m, e)) = e - m + 1
        /\ \A i \in 1..(e - m + 1) : SubSeq(u, m, e)[i] = u[m + i - 1]
    BY <1>2, <2>1, SubSeqProperties
  <2>3. e - m + 1 = n /\ \A i \in 1..n : m + i - 1 = a + i
    BY <1>1
  <2>4. y = SubSeq(u, m, e)
    OBVIOUS
  <2>. HIDE DEF m, e, y
  <2>5. y \in Seq(Unit) /\ Len(y) = n
    BY <2>2, <2>3, <2>4
  <2>6. ASSUME NEW i \in 1..n  PROVE y[i] = u[a + i]
    BY <2>2, <2>3, <2>4
  <2>. QED
    BY <2>5, <2>6
<1>. HIDE DEF y, x, u, a
<1>4. /\ b \in Seq(Unit) /\ Len(b) = Len(x) + n
      /\ \A i \in 1..(Len(x) + n) : b[i] = IF i <= Len(x) THEN x[i] ELSE y[i - Len(x)]
  <2>1. /\ x \o y \in Seq(Unit) /\ Len(x \o y) = Len(x) + Len(y)
        /\ \A i \in 1..(Len(x) + Len(y)) : (x \o y)[i] = IF i <= Len(x) THEN x[i] ELSE y[i - Len(x)]
    BY <1>1, <1>3, ConcatProperties
  <2>. QED
    BY <1>3, <2>1
<1>5. ASSUME NEW off \in Nat, NEW r, WindowAt(s, off), r.buf = b, r.arrived = a + n,
             r.stream = s.stream, r.dispatched = s.dispatched
      PROVE  WindowAt(r, off)
  <2>1. Count(r) = Count(s) /\ Units(r) = u /\ EndOf(r, Count(r)) = EndOf(s, Count(s))
    BY <1>5 DEF Count, Units, EndOf, u
  <2>2. /\ off <= Len(x) /\ Len(x) <= a /\ a - Len(x) + off = EndOf(s, Count(s))
        /\ \A i \in 1..Len(x) : x[i] = u[a - Len(x) + i]
    BY <1>5 DEF WindowAt, x, a, u
  <2>3. Len(r.buf) = Len(x) + n /\ r.buf = b
    BY <1>4, <1>5
  <2>. HIDE DEF b
  <2>. DEFINE l == Len(x)
              f == EndOf(s, Count(s))
  <2>4. l \in Nat /\ off <= l /\ l <= a /\ a - l + off = f
    BY <1>1, <2>2
  <2>. HIDE DEF l, f
  <2>5. /\ off <= l + n /\ l + n <= a + n /\ (a + n) - (l + n) + off = f
    BY <1>1, <2>4
  <2>6. ASSUME NEW i \in 1..(l + n)  PROVE b[i] = u[(a + n) - (l + n) + i]
    <3>1. CASE i <= l
      <4>1. i \in 1..l /\ i \in 1..(l + n) /\ (a + n) - (l + n) + i = a - l + i
        BY <1>1, <2>4, <3>1
      <4>2. b[i] = x[i] /\ x[i] = u[a - l + i]
        BY <1>4, <2>2, <3>1, <4>1 DEF l
      <4>. QED
        BY <4>1, <4>2
    <3>2. CASE ~(i <= l)
      <4>1. i - l \in 1..n /\ (a + n) - (l + n) + i = a + (i - l)
        BY <1>1, <2>4, <3>2
      <4>2. b[i] = y[i - l]
        BY <1>4, <3>2 DEF l
      <4>3. y[i - l] = u[a + (i - l)]
        BY <1>3, <4>1
      <4>. QED
        BY <4>1, <4>2, <4>3
    <3>. QED
      BY <3>1, <3>2
  <2>7. /\ off <= Len(r.buf) /\ Len(r.buf) <= r.arrived
        /\ r.arrived - Len(r.buf) + off = EndOf(r, Count(r))
        /\ \A i \in 1..Len(r.buf) : r.buf[i] = Units(r)[r.arrived - Len(r.buf) + i]
    BY <1>5, <2>1, <2>3, <2>5, <2>6 DEF l, f
  <2>. QED
    BY <2>7 DEF WindowAt
<1>6. Arrives(s, n) = b
  BY DEF Arrives, x, y, u, a
<1>. HIDE DEF b
<1>. QED
  BY <1>4, <1>5, <1>6 DEF x, a

\* Bytes for a connection that is not read from any more are dropped.
LEMMA DataDropped ==
  ASSUME NEW s, NEW closed, Sound(s, closed), s.state \in {"open", "ended"}, NEW n \in Nat,
         s.arrived + n <= Len(Units(s)), NEW b \in Seq(Unit),
         NEW st \in {"ended", "destroyed"}, s.dead \/ s.state = "open"
  PROVE  Sound([s EXCEPT !.arrived = s.arrived + n, !.buf = b, !.state = st, !.dead = TRUE], closed)
<1>. DEFINE a == s.arrived + n
            r == [s EXCEPT !.arrived = a, !.buf = b, !.state = st, !.dead = TRUE]
<1>0. s \in ConnState /\ ModeInv(s) /\ FrameInv(s) /\ AnswerInv(s, closed)
  BY DEF Sound, ConnInv
<1>1. a \in Nat
  BY <1>0 DEF ConnState
<1>2. a <= Len(Units(s))
  OBVIOUS
<1>. HIDE DEF a
<1>3. r \in ConnState
  BY <1>0, <1>1 DEF ConnState
<1>4. /\ r.stream = s.stream /\ r.arrived = a /\ r.dispatched = s.dispatched
      /\ r.rejected = s.rejected /\ r.dead /\ r.state = st /\ r.sent = s.sent
  BY <1>0 DEF ConnState
<1>5. ModeInv(r)
  BY <1>0 DEF ConnState, ModeInv
<1>. HIDE DEF r
<1>6. Count(r) = Count(s) /\ Units(r) = Units(s) /\ NextKind(r) = NextKind(s)
  BY <1>4 DEF Count, Units, NextKind
<1>7. FrameInv(r)
  BY <1>0, <1>2, <1>4, <1>6 DEF FrameInv
<1>8. ParseInv(r)
  BY <1>4 DEF ParseInv
<1>9. AnswerInv(r, closed)
  BY <1>0, <1>4, AnswersKept
<1>10. Sound(r, closed)
  BY <1>3, <1>5, <1>7, <1>8, <1>9 DEF Sound, ConnInv
<1>. QED
  BY <1>10 DEF r, a

\* Bytes are only queued: dispatch is suspended, or the body is not all there.
LEMMA DataQueued ==
  ASSUME NEW s, Sound(s, closing), s.state \in {"open", "ended"}, NEW n \in Nat,
         s.arrived + n <= Len(Units(s)), ~s.dead, ~s.running, s.reading,
         s.paused \/ Len(s.buf) + n < s.need, NEW rd \in BOOLEAN, ~rd => s.paused
  PROVE  Sound([s EXCEPT !.arrived = s.arrived + n, !.buf = Arrives(s, n), !.reading = rd], closing)
<1>. DEFINE a == s.arrived + n
            b == Arrives(s, n)
            r == [s EXCEPT !.arrived = a, !.buf = b, !.reading = rd]
<1>0. s \in ConnState /\ ModeInv(s) /\ FrameInv(s) /\ ParseInv(s) /\ AnswerInv(s, closing)
  BY DEF Sound, ConnInv
<1>1. /\ a \in Nat /\ a <= Len(Units(s)) /\ s.skip \in Nat /\ Len(s.buf) \in Nat /\ s.arrived \in Nat
      /\ s.need \in Nat
  BY <1>0 DEF ConnState
<1>2. /\ b \in Seq(Unit) /\ Len(b) = Len(s.buf) + n
      /\ \A off \in Nat : \A q : /\ WindowAt(s, off) /\ q.buf = b /\ q.arrived = a
                                 /\ q.stream = s.stream /\ q.dispatched = s.dispatched
                                 => WindowAt(q, off)
  BY <1>0, AppendWindow
<1>. HIDE DEF b, a
<1>3. r \in ConnState
  BY <1>0, <1>1, <1>2 DEF ConnState
<1>4. /\ r.stream = s.stream /\ r.arrived = a /\ r.dispatched = s.dispatched /\ r.buf = b
      /\ r.rejected = s.rejected /\ ~r.dead /\ r.state = s.state /\ r.sent = s.sent
      /\ ~r.running /\ r.skip = s.skip /\ r.scan = s.scan /\ r.need = s.need
      /\ r.hdrSince = s.hdrSince /\ r.paused = s.paused /\ r.inflight = s.inflight
      /\ r.keepAlive = s.keepAlive
  BY <1>0 DEF ConnState
<1>5. ModeInv(r)
  BY <1>0 DEF ConnState, ModeInv
<1>. HIDE DEF r
<1>6. /\ Count(r) = Count(s) /\ Units(r) = Units(s) /\ NextKind(r) = NextKind(s)
      /\ \A i : EndOf(r, i) = EndOf(s, i)
  BY <1>4 DEF Count, Units, NextKind, EndOf
<1>7. WindowAt(s, s.skip)
  BY <1>0 DEF FrameInv, Window, Off
<1>8. FrameInv(r)
  <2>1. WindowAt(r, s.skip)
    BY <1>1, <1>2, <1>4, <1>7
  <2>. QED
    BY <1>0, <1>1, <1>4, <1>6, <2>1 DEF FrameInv, Window, Off
<1>9. ParseInv(r)
  <2>. DEFINE k == NextKind(s)
              h == HeadAt(k)
              e == EndOf(s, Count(s))
              len == Len(s.buf)
  <2>1. /\ Count(s) < Len(s.stream) =>
             s.scan <= s.skip + h /\ (k = "bare" => s.scan <= s.skip)
        /\ s.need > 0 => /\ s.skip = 0 /\ Count(s) < Len(s.stream) /\ s.need = SizeOf(k)
                         /\ len >= h + 2
        /\ s.hdrSince # "none" <=>
             /\ HeadersTimeout /\ ~s.paused /\ Count(s) < Len(s.stream)
             /\ e < s.arrived /\ s.arrived < e + h + 2
    BY <1>0 DEF ParseInv
  <2>2. s.arrived - len + s.skip = e
    BY <1>7 DEF WindowAt
  <2>3. Count(s) < Len(s.stream) =>
          /\ h \in Nat /\ SizeOf(k) \in Nat /\ e \in Nat
          /\ EndOf(s, Count(s) + 1) = e + SizeOf(k)
    BY <1>0, NextIs
  <2>4. s.need > 0 => len + n >= h + 2
    <3>. HIDE DEF h, len, k
    <3>. QED
      BY <1>1, <2>1, <2>3 DEF len
  <2>5. CASE s.paused
    BY <1>2, <1>4, <1>6, <2>1, <2>4, <2>5 DEF ParseInv
  <2>6. CASE ~s.paused
    <3>1. len + n < s.need /\ s.need > 0 /\ len \in Nat
      BY <1>1, <2>6
    <3>2. /\ s.skip = 0 /\ Count(s) < Len(s.stream) /\ s.need = SizeOf(k) /\ len >= h + 2
          /\ h \in Nat /\ SizeOf(k) \in Nat /\ e \in Nat /\ EndOf(s, Count(s) + 1) = e + SizeOf(k)
      BY <2>1, <2>3, <3>1
    <3>. HIDE DEF h, len, k, e
    <3>3. /\ a < e + SizeOf(k) /\ ~(s.arrived < e + h + 2) /\ ~(a < e + h + 2)
      BY SMTT(20), <1>1, <2>2, <3>1, <3>2 DEF a
    <3>4. s.hdrSince = "none"
      BY <2>1, <3>3
    <3>5. a < EndOf(s, Count(s) + 1)
      BY <3>2, <3>3
    <3>. QED
      BY <1>2, <1>4, <1>6, <2>1, <2>4, <3>2, <3>3, <3>4, <3>5 DEF ParseInv, k, h, e, len
  <2>. QED
    BY <2>5, <2>6
<1>10. AnswerInv(r, closing)
  BY <1>0, <1>4, AnswersKept
<1>11. Sound(r, closing)
  BY <1>3, <1>5, <1>8, <1>9, <1>10 DEF Sound, ConnInv
<1>. QED
  BY <1>11 DEF r, a, b

\* 'data': wherever the stream is cut.
LEMMA DataKeeps ==
  ASSUME NEW s, closing \in BOOLEAN, Sound(s, closing), s.state \in {"open", "ended"}, NEW n \in Nat,
         s.arrived + n <= Len(Units(s)), ~s.running, ~s.tick, s.reading, ~s.fin
  PROVE  Sound(OnData([s EXCEPT !.arrived = s.arrived + n],
                      SubSeq(Units(s), s.arrived + 1, s.arrived + n)), closing)
<1>. DEFINE a == s.arrived + n
            b == Arrives(s, n)
            chunk == SubSeq(Units(s), s.arrived + 1, s.arrived + n)
            s1 == [s EXCEPT !.arrived = a]
            r == [s EXCEPT !.arrived = a, !.buf = b]
            short == s.paused \/ Len(b) < s.need
            rd == s.reading /\ ~(s.awaiting /\ Len(b) - s.skip > PauseAt)
<1>0. s \in ConnState /\ ModeInv(s) /\ FrameInv(s) /\ ParseInv(s) /\ AnswerInv(s, closing)
  BY DEF Sound, ConnInv
<1>1. /\ a \in Nat /\ a <= Len(Units(s)) /\ s.skip \in Nat /\ s.scan \in Nat /\ s.reading \in BOOLEAN
      /\ s.buf \in Seq(Unit)
  BY <1>0 DEF ConnState
<1>2. /\ b \in Seq(Unit) /\ Len(b) = Len(s.buf) + n
      /\ \A off \in Nat : \A q : /\ WindowAt(s, off) /\ q.buf = b /\ q.arrived = a
                                 /\ q.stream = s.stream /\ q.dispatched = s.dispatched
                                 => WindowAt(q, off)
  BY <1>0, AppendWindow
<1>3. /\ s1.buf = s.buf /\ s1.dead = s.dead /\ s1.paused = s.paused /\ s1.need = s.need
      /\ s1.awaiting = s.awaiting /\ s1.skip = s.skip /\ s1.hdrSince = s.hdrSince
      /\ s1.reading = s.reading
  BY <1>0 DEF ConnState
<1>4. [s1 EXCEPT !.buf = s1.buf \o chunk] = r
  BY <1>0 DEF ConnState, Arrives
<1>5. r.buf = b /\ r.reading = s.reading
  BY <1>0 DEF ConnState
<1>6. OnData(s1, chunk) =
        IF s.dead THEN s1
        ELSE IF short THEN [r EXCEPT !.reading = rd]
        ELSE IF s.hdrSince = "expired" THEN [Destroy(r) EXCEPT !.dead = TRUE]
        ELSE ProcessBuffer(r)
  <2>. HIDE DEF s1, chunk, r, b
  <2>. QED
    BY <1>3, <1>4, <1>5 DEF OnData
<1>. HIDE DEF a, b, chunk
<1>7. CASE s.dead
  <2>1. s.state = "ended"
    BY <1>0, <1>7 DEF ModeInv
  <2>2. s1 = [s EXCEPT !.arrived = a, !.buf = s.buf, !.state = "ended", !.dead = TRUE]
    BY <1>0, <1>7, <2>1 DEF ConnState
  <2>3. Sound([s EXCEPT !.arrived = a, !.buf = s.buf, !.state = "ended", !.dead = TRUE], closing)
    BY <1>1, <1>7, DataDropped DEF a
  <2>4. OnData(s1, chunk) = s1
    BY <1>6, <1>7
  <2>. HIDE DEF s1
  <2>5. Sound(OnData(s1, chunk), closing)
    BY <2>2, <2>3, <2>4
  <2>. QED
    BY <2>5 DEF s1, chunk, a
<1>8. CASE ~s.dead /\ short
  <2>1. rd \in BOOLEAN /\ (~rd => s.paused)
    BY <1>0 DEF ModeInv
  <2>2. s.paused \/ Len(s.buf) + n < s.need
    BY <1>2, <1>8
  <2>. HIDE DEF rd
  <2>3. OnData(s1, chunk) = [r EXCEPT !.reading = rd]
    BY <1>6, <1>8
  <2>4. [r EXCEPT !.reading = rd] = [s EXCEPT !.arrived = a, !.buf = b, !.reading = rd]
    BY <1>0 DEF ConnState
  <2>5. Sound([s EXCEPT !.arrived = a, !.buf = b, !.reading = rd], closing)
    BY <1>8, <2>1, <2>2, DataQueued DEF a, b
  <2>. HIDE DEF s1, r
  <2>6. Sound(OnData(s1, chunk), closing)
    BY <2>3, <2>4, <2>5
  <2>. QED
    BY <2>6 DEF s1, chunk, a
<1>9. ASSUME ~s.dead, ~short  PROVE s.state = "open" /\ s.inflight = 0 /\ ~s.awaiting /\ ~s.onDrain
  BY <1>0, <1>9 DEF ModeInv, ConnState
<1>10. CASE ~s.dead /\ ~short /\ s.hdrSince = "expired"
  <2>1. s.state = "open"
    BY <1>9, <1>10
  <2>2. OnData(s1, chunk) = [Destroy(r) EXCEPT !.dead = TRUE]
    BY <1>6, <1>10
  <2>3. [Destroy(r) EXCEPT !.dead = TRUE]
          = [s EXCEPT !.arrived = a, !.buf = b, !.state = "destroyed", !.dead = TRUE]
    BY <1>0, <2>1 DEF ConnState, Destroy
  <2>4. Sound([s EXCEPT !.arrived = a, !.buf = b, !.state = "destroyed", !.dead = TRUE], closing)
    BY <1>2, <2>1, DataDropped DEF a
  <2>. HIDE DEF s1, r
  <2>5. Sound(OnData(s1, chunk), closing)
    BY <2>2, <2>3, <2>4
  <2>. QED
    BY <2>5 DEF s1, chunk, a
<1>11. CASE ~s.dead /\ ~short /\ s.hdrSince # "expired"
  <2>. DEFINE q == [s EXCEPT !.arrived = a, !.buf = b, !.skip = 0]
              off == s.skip
              scan == s.scan
  <2>1. OnData(s1, chunk) = Iterate(q, off, scan)
    <3>1. OnData(s1, chunk) = ProcessBuffer(r)
      BY <1>6, <1>11
    <3>2. [r EXCEPT !.skip = 0] = q /\ r.skip = off /\ r.scan = scan
      BY <1>0 DEF ConnState
    <3>. HIDE DEF r, q, s1
    <3>. QED
      BY <3>1, <3>2 DEF ProcessBuffer
  <2>2. q \in ConnState
    BY <1>0, <1>1, <1>2 DEF ConnState
  <2>3. s.state = "open" /\ s.inflight = 0 /\ ~s.awaiting /\ ~s.onDrain /\ ~s.paused
    BY <1>9, <1>11
  <2>4. /\ q.stream = s.stream /\ q.arrived = a /\ q.dispatched = s.dispatched /\ q.buf = b
        /\ q.rejected = s.rejected /\ ~q.dead /\ q.state = "open" /\ q.sent = s.sent
        /\ ~q.paused /\ q.reading /\ q.skip = 0 /\ ~q.awaiting /\ ~q.tick /\ ~q.onDrain
        /\ q.inflight = 0
    BY <1>0, <1>11, <2>3 DEF ConnState
  <2>. HIDE DEF q
  <2>5. Count(q) = Count(s) /\ Units(q) = Units(s) /\ NextKind(q) = NextKind(s)
    BY <2>4 DEF Count, Units, NextKind
  <2>6. WindowAt(s, off) /\ ~s.rejected
    BY <1>0, <1>11 DEF FrameInv, Window, Off
  <2>7. WindowAt(q, off)
    BY <1>1, <1>2, <2>4, <2>6
  <2>8. AnswerInv(q, closing)
    BY <1>0, <1>11, <2>3, <2>4, AnswersKept
  <2>9. Ready(q, off)
    BY <1>0, <1>1, <2>2, <2>4, <2>5, <2>6, <2>7, <2>8 DEF Ready, FrameInv
  <2>10. ScanOk(q, off, scan)
    BY <1>0, <1>1, <1>11, <2>4, <2>5 DEF ParseInv, ScanOk
  <2>. HIDE DEF s1
  <2>11. Sound(OnData(s1, chunk), closing)
    BY <2>1, <2>9, <2>10, IterateKeeps
  <2>. QED
    BY <2>11 DEF s1, chunk, a
<1>. QED
  BY <1>7, <1>8, <1>10, <1>11

-----------------------------------------------------------------------------
(* The server. *)

\* The invariant, connection by connection.
LEMMA ServerInvIs ==
  ServerInv <=> /\ closing \in BOOLEAN /\ conn \in [Conn -> ConnState]
                /\ \A c \in Conn : Sound(conn[c], closing)
  BY DEF ServerInv, Sound

\* A step of one connection.
LEMMA UpdateKeeps ==
  ASSUME ServerInv, NEW c \in Conn, NEW r, Update(c, r), Sound(r, closing)
  PROVE  ServerInv'
<1>1. /\ closing \in BOOLEAN /\ conn \in [Conn -> ConnState]
      /\ \A d \in Conn : ConnInv(conn[d], closing)
  BY DEF ServerInv
<1>2. r \in ConnState /\ ConnInv(r, closing)
  BY DEF Sound
<1>3. conn' = [conn EXCEPT ![c] = r] /\ closing' = closing
  BY DEF Update
<1>4. conn' \in [Conn -> ConnState] /\ closing' \in BOOLEAN
  BY <1>1, <1>2, <1>3
<1>5. ASSUME NEW d \in Conn  PROVE ConnInv(conn'[d], closing')
  <2>1. CASE d = c
    <3>1. conn'[d] = r
      BY <1>1, <1>3, <2>1
    <3>. QED
      BY <1>2, <1>3, <3>1
  <2>2. CASE d # c
    <3>1. conn'[d] = conn[d]
      BY <1>1, <1>3, <2>2
    <3>. QED
      BY <1>1, <1>3, <3>1
  <2>. QED
    BY <2>1, <2>2
<1>. QED
  BY <1>4, <1>5 DEF ServerInv

\* The steps of user code.
LEMMA UserKeeps ==
  ASSUME ServerInv, NEW c \in Conn,
         \/ Respond(c) \/ EndSocket(c) \/ DestroySocket(c) \/ HandlerReturns(c) \/ HandlerThrows(c)
  PROVE  ServerInv'
<1>. DEFINE s == conn[c]
<1>0. closing \in BOOLEAN /\ Sound(s, closing)
  BY ServerInvIs
<1>1. s \in ConnState /\ s.fin \in BOOLEAN /\ s.timer \in BOOLEAN
  BY <1>0 DEF Sound, ConnState
<1>2. CASE Respond(c)
  <2>1. PICK out \in {"some", "full"} : Update(c, Responded(Write(s, out)))
    BY <1>2 DEF Respond
  <2>2. s.inflight = 1
    BY <1>2 DEF Respond
  <2>3. Sound(Responded(Write(s, out)), closing)
    BY <1>0, <2>2, RespondKeeps
  <2>. QED
    BY <2>1, <2>3, UpdateKeeps
<1>3. CASE EndSocket(c)
  <2>1. Update(c, End(s)) /\ s.state = "open" /\ (s.running \/ s.inflight = 1 \/ s.tick)
    BY <1>3 DEF EndSocket, HasSocket
  <2>2. End(s) = [End(s) EXCEPT !.fin = s.fin]
    BY <1>1 DEF End, ConnState
  <2>3. Sound([End(s) EXCEPT !.fin = s.fin], closing)
    BY <1>0, <1>1, <2>1, EndKeeps
  <2>. QED
    BY <2>1, <2>2, <2>3, UpdateKeeps
<1>4. CASE DestroySocket(c)
  <2>1. Update(c, Destroy(s)) /\ s.state \in {"open", "ended"}
    BY <1>4 DEF DestroySocket
  <2>2. Destroy(s) = [Destroy(s) EXCEPT !.timer = s.timer]
    BY <1>1 DEF Destroy, ConnState
  <2>3. Sound([Destroy(s) EXCEPT !.timer = s.timer], closing)
    BY <1>0, <1>1, <2>1, DestroyKeeps
  <2>. QED
    BY <2>1, <2>2, <2>3, UpdateKeeps
<1>5. CASE HandlerReturns(c)
  <2>1. Update(c, AfterHandler(s)) /\ s.running
    BY <1>5 DEF HandlerReturns
  <2>2. Sound(AfterHandler(s), closing)
    BY <1>0, <2>1, ReturnKeeps
  <2>. QED
    BY <2>1, <2>2, UpdateKeeps
<1>6. CASE HandlerThrows(c)
  <2>1. Update(c, Fail(s)) /\ s.running
    BY <1>6 DEF HandlerThrows
  <2>2. Sound(Fail(s), closing)
    BY <1>0, <2>1, FailKeeps
  <2>. QED
    BY <2>1, <2>2, UpdateKeeps
<1>. QED
  BY <1>2, <1>3, <1>4, <1>5, <1>6

\* close() and the header sweep, which go through all connections.
LEMMA AllKeep ==
  ASSUME ServerInv, Close \/ Sweep
  PROVE  ServerInv'
<1>0. closing \in BOOLEAN /\ \A c \in Conn : Sound(conn[c], closing)
  BY ServerInvIs
<1>1. CASE Close
  <2>. DEFINE r(c) == IF conn[c].state \in {"none", "closed"} THEN conn[c] ELSE CloseConn(conn[c])
  <2>1. conn' = [c \in Conn |-> r(c)] /\ closing' = TRUE
    BY <1>1 DEF Close
  <2>2. ASSUME NEW c \in Conn  PROVE Sound(r(c), closing')
    <3>1. Sound(conn[c], closing)
      BY <1>0
    <3>2. CASE conn[c].state \in {"none", "closed"}
      BY <3>1, <3>2, CloseSkips
    <3>3. CASE conn[c].state \notin {"none", "closed"}
      <4>1. Sound(CloseConn(conn[c]), closing')
        BY <3>1, <3>3, CloseKeeps
      <4>. QED
        BY <3>3, <4>1
    <3>. QED
      BY <3>2, <3>3
  <2>. HIDE DEF r
  <2>. QED
    BY <2>1, <2>2 DEF ServerInv, Sound
<1>2. CASE Sweep
  <2>. DEFINE r(c) == IF Stale(c) THEN [Destroy(conn[c]) EXCEPT !.dead = TRUE] ELSE conn[c]
  <2>1. conn' = [c \in Conn |-> r(c)] /\ closing' = closing
    BY <1>2 DEF Sweep
  <2>2. ASSUME NEW c \in Conn  PROVE Sound(r(c), closing)
    <3>1. Sound(conn[c], closing)
      BY <1>0
    <3>2. CASE Stale(c)
      <4>1. conn[c].state \notin {"none", "closed"}
        BY <3>2 DEF Stale
      <4>2. Sound([Destroy(conn[c]) EXCEPT !.dead = TRUE], closing)
        BY <3>1, <4>1, SweptKeeps
      <4>. QED
        BY <3>2, <4>2
    <3>3. CASE ~Stale(c)
      BY <3>1, <3>3
    <3>. QED
      BY <3>2, <3>3
  <2>. HIDE DEF r
  <2>. QED
    BY <1>0, <2>1, <2>2 DEF ServerInv, Sound
<1>. QED
  BY <1>1, <1>2

\* resume() is called by a tick or by 'drain'.
LEMMA IsResumable ==
  ASSUME NEW s, Sound(s, closing), s.tick \/ s.onDrain, NEW o \in {"empty", "some", "full"}
  PROVE  Resumable([s EXCEPT !.tick = FALSE, !.onDrain = FALSE, !.out = o])
<1>. DEFINE q == [s EXCEPT !.tick = FALSE, !.onDrain = FALSE, !.out = o]
<1>0. s \in ConnState /\ ModeInv(s) /\ FrameInv(s) /\ ParseInv(s) /\ AnswerInv(s, closing)
  BY DEF Sound, ConnInv
<1>1. /\ s.paused /\ ~s.running /\ ~s.awaiting /\ s.inflight = 0 /\ s.state # "none"
      /\ s.dead => s.state # "open"
  BY <1>0 DEF ModeInv, NewConn
<1>2. q \in ConnState
  BY ZenonT(30), <1>0 DEF ConnState
<1>3. /\ SameStream(s, q) /\ SameBuffer(s, q) /\ q.dead = s.dead /\ q.state = s.state
      /\ q.sent = s.sent /\ q.inflight = s.inflight /\ q.paused = s.paused /\ q.running = s.running
      /\ q.awaiting = s.awaiting /\ ~q.tick /\ ~q.onDrain /\ q.stream = s.stream
      /\ q.dispatched = s.dispatched /\ q.keepAlive = s.keepAlive
  BY <1>0 DEF ConnState, SameStream, SameBuffer
<1>. HIDE DEF q
<1>4. FrameInv(q) /\ ParseInv(q)
  BY <1>0, <1>3, FramingKept
<1>5. AnswerInv(q, closing)
  BY <1>0, <1>3, AnswersKept
<1>6. Resumable(q)
  BY <1>1, <1>2, <1>3, <1>4, <1>5 DEF Resumable
<1>. QED
  BY <1>6 DEF q

\* Timers, ticks and the peer's reading.
LEMMA LoopKeeps ==
  ASSUME ServerInv, NEW c \in Conn,
         Tick(c) \/ Accept(c) \/ Flushed(c) \/ OnTimeout(c) \/ HeaderExpires(c) \/ OnClose(c)
  PROVE  ServerInv'
<1>. DEFINE s == conn[c]
<1>0. closing \in BOOLEAN /\ Sound(s, closing)
  BY ServerInvIs
<1>1. s \in ConnState /\ ModeInv(s) /\ s.out \in {"empty", "some", "full"}
  BY <1>0 DEF Sound, ConnInv, ConnState
<1>2. CASE Tick(c)
  <2>. DEFINE q == [s EXCEPT !.tick = FALSE]
  <2>1. s.tick /\ Update(c, Resume(q))
    BY <1>2 DEF Tick
  <2>2. q = [s EXCEPT !.tick = FALSE, !.onDrain = FALSE, !.out = s.out]
    BY <1>1, <2>1 DEF ModeInv, ConnState
  <2>3. Resumable([s EXCEPT !.tick = FALSE, !.onDrain = FALSE, !.out = s.out])
    BY <1>0, <1>1, <2>1, IsResumable
  <2>. HIDE DEF q
  <2>4. Sound(Resume(q), closing)
    BY <1>0, <2>2, <2>3, ResumeKeeps
  <2>. QED
    BY <2>1, <2>4, UpdateKeeps
<1>3. CASE Accept(c)
  <2>1. s.state = "none" /\ Update(c, [s EXCEPT !.state = "open"])
    BY <1>3 DEF Accept
  <2>2. Sound([s EXCEPT !.state = "open"], closing)
    BY <1>0, <2>1, AcceptKeeps
  <2>. QED
    BY <2>1, <2>2, UpdateKeeps
<1>4. CASE Flushed(c)
  <2>. DEFINE t == [s EXCEPT !.out = "empty"]
              q == [t EXCEPT !.onDrain = FALSE]
  <2>1. /\ s.state \in {"open", "ended"} /\ ~s.tick
        /\ Update(c, IF NeedsDrain(s) /\ t.onDrain THEN Resume(q) ELSE t)
    BY <1>4 DEF Flushed, Connected, Quiet
  <2>2. t.onDrain = s.onDrain
    BY <1>1 DEF ConnState
  <2>3. CASE NeedsDrain(s) /\ s.onDrain
    <3>1. q = [s EXCEPT !.tick = FALSE, !.onDrain = FALSE, !.out = "empty"]
      BY <1>1, <2>1 DEF ConnState
    <3>2. Resumable([s EXCEPT !.tick = FALSE, !.onDrain = FALSE, !.out = "empty"])
      BY <1>0, <2>3, IsResumable
    <3>. HIDE DEF q, t
    <3>3. Sound(Resume(q), closing)
      BY <1>0, <3>1, <3>2, ResumeKeeps
    <3>4. Update(c, Resume(q))
      BY <2>1, <2>2, <2>3
    <3>. QED
      BY <3>3, <3>4, UpdateKeeps
  <2>4. CASE ~(NeedsDrain(s) /\ s.onDrain)
    <3>1. Sound(t, closing)
      BY <1>0, <2>1, <2>4, FlushKeeps
    <3>. HIDE DEF q, t
    <3>2. Update(c, t)
      BY <2>1, <2>2, <2>4
    <3>. QED
      BY <3>1, <3>2, UpdateKeeps
  <2>. QED
    BY <2>3, <2>4
<1>5. CASE OnTimeout(c)
  <2>. DEFINE t == [s EXCEPT !.timer = FALSE]
              d == [t EXCEPT !.timeoutDeferred = TRUE]
  <2>1. s.state \in {"open", "ended"} /\ Update(c, IF t.inflight > 0 THEN d ELSE Destroy(t))
    BY <1>5 DEF OnTimeout, Connected
  <2>2. CASE t.inflight > 0
    <3>1. d = [s EXCEPT !.timer = FALSE, !.timeoutDeferred = TRUE]
      BY <1>1 DEF ConnState
    <3>2. Sound([s EXCEPT !.timer = FALSE, !.timeoutDeferred = TRUE], closing)
      BY <1>0, <2>1, DeferKeeps
    <3>. HIDE DEF d, t
    <3>3. Update(c, d) /\ Sound(d, closing)
      BY <2>1, <2>2, <3>1, <3>2
    <3>. QED
      BY <3>3, UpdateKeeps
  <2>3. CASE ~(t.inflight > 0)
    <3>1. Destroy(t) = [Destroy(s) EXCEPT !.timer = FALSE]
      BY <1>1 DEF ConnState, Destroy
    <3>2. Sound([Destroy(s) EXCEPT !.timer = FALSE], closing)
      BY <1>0, <2>1, DestroyKeeps
    <3>. HIDE DEF d, t
    <3>3. Update(c, Destroy(t)) /\ Sound(Destroy(t), closing)
      BY <2>1, <2>3, <3>1, <3>2
    <3>. QED
      BY <3>3, UpdateKeeps
  <2>. QED
    BY <2>2, <2>3
<1>6. CASE HeaderExpires(c)
  <2>1. /\ s.state \in {"open", "ended"} /\ s.hdrSince = "running"
        /\ Update(c, [s EXCEPT !.hdrSince = "expired"])
    BY <1>6 DEF HeaderExpires, Connected
  <2>2. Sound([s EXCEPT !.hdrSince = "expired"], closing)
    BY <1>0, <2>1, ExpireKeeps
  <2>. QED
    BY <2>1, <2>2, UpdateKeeps
<1>7. CASE OnClose(c)
  <2>1. s.state = "destroyed" /\ Update(c, [s EXCEPT !.state = "closed", !.dead = TRUE])
    BY <1>7 DEF OnClose
  <2>2. Sound([s EXCEPT !.state = "closed", !.dead = TRUE], closing)
    BY <1>0, <2>1, OnCloseKeeps
  <2>. QED
    BY <2>1, <2>2, UpdateKeeps
<1>. QED
  BY <1>2, <1>3, <1>4, <1>5, <1>6, <1>7

\* What the client does.
LEMMA ClientKeeps ==
  ASSUME ServerInv, NEW c \in Conn,
         \/ \E n \in 1..MaxChunk : Data(c, n)
         \/ ClientEnds(c) \/ ClientResets(c) \/ Finished(c)
  PROVE  ServerInv'
<1>. DEFINE s == conn[c]
<1>0. closing \in BOOLEAN /\ Sound(s, closing)
  BY ServerInvIs
<1>1. s \in ConnState /\ s.timer \in BOOLEAN
  BY <1>0 DEF Sound, ConnState
<1>2. CASE \E n \in 1..MaxChunk : Data(c, n)
  <2>1. PICK n \in 1..MaxChunk : Data(c, n)
    BY <1>2
  <2>2. n \in Nat
    BY StreamAssumption
  <2>. DEFINE r == OnData([s EXCEPT !.arrived = s.arrived + n],
                          SubSeq(Units(s), s.arrived + 1, s.arrived + n))
  <2>3. /\ s.state \in {"open", "ended"} /\ ~s.running /\ ~s.tick /\ s.reading /\ ~s.fin
        /\ s.arrived + n <= Len(Units(s)) /\ Update(c, r)
    BY <2>1 DEF Data, Connected, Quiet
  <2>4. Sound(r, closing)
    BY <1>0, <2>2, <2>3, DataKeeps
  <2>. HIDE DEF r
  <2>. QED
    BY <2>3, <2>4, UpdateKeeps
<1>3. CASE ClientEnds(c)
  <2>1. s.state \in {"open", "ended"} /\ Update(c, [End(s) EXCEPT !.fin = TRUE])
    BY <1>3 DEF ClientEnds, Connected
  <2>2. Sound([End(s) EXCEPT !.fin = TRUE], closing)
    BY <1>0, <2>1, EndKeeps
  <2>. QED
    BY <2>1, <2>2, UpdateKeeps
<1>4. CASE ClientResets(c) \/ Finished(c)
  <2>1. Update(c, Destroy(s)) /\ s.state \in {"open", "ended"}
    BY <1>4 DEF ClientResets, Finished, Connected
  <2>2. Destroy(s) = [Destroy(s) EXCEPT !.timer = s.timer]
    BY <1>1 DEF Destroy, ConnState
  <2>3. Sound([Destroy(s) EXCEPT !.timer = s.timer], closing)
    BY <1>0, <1>1, <2>1, DestroyKeeps
  <2>. QED
    BY <2>1, <2>2, <2>3, UpdateKeeps
<1>. QED
  BY <1>2, <1>3, <1>4

\* ServerInv is inductive: no interleaving of handlers, clients, timers and
\* close() breaks the framing, the order of answers or the wake-ups of any
\* connection, for every set of connections, stream of requests, cut into
\* chunks and setting of the options.
THEOREM ServerInductive == Spec => []ServerInv
<1>1. Init => ServerInv
  <2>. SUFFICES ASSUME Init  PROVE ServerInv
    OBVIOUS
  <2>1. closing \in BOOLEAN
    BY DEF Init
  <2>. DEFINE streams == UNION {[1..n -> Kinds] : n \in 1..MaxRequests}
  <2>2. streams \subseteq Seq(Kinds)
    <3>. SUFFICES ASSUME NEW n \in 1..MaxRequests, NEW t \in [1..n -> Kinds]  PROVE t \in Seq(Kinds)
      OBVIOUS
    <3>1. n \in Nat
      BY StreamAssumption
    <3>. QED
      BY <3>1
  <2>3. conn \in [Conn -> {NewConn(t) : t \in streams}]
    BY DEF Init
  <2>. HIDE DEF streams
  <2>4. ASSUME NEW c \in Conn  PROVE Sound(conn[c], closing)
    <3>1. PICK t \in streams : conn[c] = NewConn(t)
      BY <2>3
    <3>. QED
      BY <2>2, <3>1, NewIsSound
  <2>5. conn \in [Conn -> ConnState]
    BY <2>3, <2>4 DEF Sound
  <2>. QED
    BY <2>1, <2>4, <2>5, ServerInvIs
<1>2. ServerInv /\ [Next]_vars => ServerInv'
  <2>. SUFFICES ASSUME ServerInv, [Next]_vars  PROVE ServerInv'
    OBVIOUS
  <2>1. CASE Close \/ Sweep
    BY <2>1, AllKeep
  <2>2. CASE Done \/ UNCHANGED vars
    BY <2>2 DEF Done, vars, ServerInv
  <2>3. ASSUME NEW c \in Conn,
               \/ Respond(c) \/ EndSocket(c) \/ DestroySocket(c) \/ HandlerReturns(c) \/ HandlerThrows(c)
        PROVE  ServerInv'
    BY <2>3, UserKeeps
  <2>4. ASSUME NEW c \in Conn,
               Tick(c) \/ Accept(c) \/ Flushed(c) \/ OnTimeout(c) \/ HeaderExpires(c) \/ OnClose(c)
        PROVE  ServerInv'
    BY <2>4, LoopKeeps
  <2>5. ASSUME NEW c \in Conn,
               \/ \E n \in 1..MaxChunk : Data(c, n)
               \/ ClientEnds(c) \/ ClientResets(c) \/ Finished(c)
        PROVE  ServerInv'
    BY <2>5, ClientKeeps
  <2>. QED
    BY <2>1, <2>2, <2>3, <2>4, <2>5 DEF Next
<1>. QED
  BY <1>1, <1>2, PTL DEF Spec

-----------------------------------------------------------------------------
(* What follows. *)

\* What is not dispatched, as a sequence.
LEMMA UnparsedIs ==
  ASSUME NEW s \in ConnState, Window(s)
  PROVE  /\ Unparsed(s) \in Seq(Unit) /\ Len(Unparsed(s)) = Len(s.buf) - Off(s)
         /\ \A i \in 1..Len(Unparsed(s)) : Unparsed(s)[i] = s.buf[Off(s) + i]
<1>. DEFINE len == Len(s.buf)
            off == Off(s)
            m == off + 1
            u == Unparsed(s)
<1>1. s.buf \in Seq(Unit) /\ len \in Nat /\ off \in Nat /\ off <= len
  BY DEF ConnState, Off, Window, WindowAt
<1>2. u = SubSeq(s.buf, m, len)
  BY DEF Unparsed, Off
<1>. HIDE DEF off, u
<1>3. m \in 1..(len + 1) /\ len \in m - 1..len
  <2>. HIDE DEF len
  <2>. QED
    BY <1>1
<1>4. /\ SubSeq(s.buf, m, len) \in Seq(Unit)
      /\ Len(SubSeq(s.buf, m, len)) = len - m + 1
      /\ \A i \in 1..(len - m + 1) : SubSeq(s.buf, m, len)[i] = s.buf[m + i - 1]
  BY <1>1, <1>3, SubSeqProperties
<1>. HIDE DEF len
<1>5. len - m + 1 = len - off /\ \A i \in Nat : m + i - 1 = off + i
  BY <1>1
<1>. HIDE DEF m
<1>6. u \in Seq(Unit) /\ Len(u) = len - off
  BY <1>2, <1>4, <1>5
<1>7. ASSUME NEW i \in 1..Len(u)  PROVE u[i] = s.buf[off + i]
  <2>1. i \in 1..(len - m + 1)
    BY <1>5, <1>6
  <2>2. i \in Nat
    BY <1>1, <1>6
  <2>3. m + i - 1 = off + i
    BY <1>5, <2>2
  <2>4. u[i] = s.buf[m + i - 1]
    BY <1>2, <1>4, <2>1
  <2>. QED
    BY <2>3, <2>4
<1>. QED
  BY <1>6, <1>7 DEF len, off, u

\* However the stream is cut into chunks and wherever dispatch is suspended
\* and resumed, processBuffer hands the client's requests to the handler, each
\* once and in order, and keeps every byte not yet dispatched.
THEOREM RequestsAreFramed == Spec => []Framing
<1>1. ServerInv => Framing
  <2>. SUFFICES ASSUME ServerInv, NEW c \in Conn
                PROVE  LET s == conn[c]
                           n == Len(s.dispatched)
                       IN  /\ \A i \in 1..n : s.dispatched[i] = i /\ s.stream[i] \in Wellformed
                           /\ s.rejected => n < Len(s.stream) /\ s.stream[n + 1] \notin Wellformed
                           /\ ~s.dead => Unparsed(s) = SubSeq(Units(s), EndOf(s, n) + 1, s.arrived)
    BY DEF Framing
  <2>. DEFINE s == conn[c]
              n == Len(s.dispatched)
  <2>1. s \in ConnState /\ FrameInv(s)
    BY DEF ServerInv, ConnInv
  <2>2. \A i \in 1..n : s.dispatched[i] = i /\ s.stream[i] \in Wellformed
    BY <2>1 DEF FrameInv, Count
  <2>3. s.rejected => n < Len(s.stream) /\ s.stream[n + 1] \notin Wellformed
    BY <2>1 DEF FrameInv, Count, NextKind
  <2>4. ASSUME ~s.dead  PROVE Unparsed(s) = SubSeq(Units(s), EndOf(s, n) + 1, s.arrived)
    <3>. DEFINE x == Units(s)
                e == EndOf(s, n)
                a == s.arrived
                m == e + 1
                u == Unparsed(s)
                v == SubSeq(x, m, a)
                len == Len(s.buf)
                off == Off(s)
    <3>1. Window(s) /\ a <= Len(x)
      BY <2>1, <2>4 DEF FrameInv
    <3>2. /\ off <= len /\ len <= a /\ a - len + off = e
          /\ \A i \in 1..len : s.buf[i] = x[a - len + i]
      BY <3>1 DEF Window, WindowAt, Count
    <3>3. len \in Nat /\ a \in Nat /\ off \in Nat /\ s.stream \in Seq(Kinds)
      BY SMTT(20), <2>1 DEF ConnState, Off
    <3>4. x \in Seq(Unit) /\ Len(x) \in Nat
      BY <3>3, StreamIs
    <3>5. /\ u \in Seq(Unit) /\ Len(u) = len - off
          /\ \A i \in 1..Len(u) : u[i] = s.buf[off + i]
      BY <2>1, <3>1, UnparsedIs
    <3>. HIDE DEF x, e, a, u, len, off
    <3>6. m \in 1..(Len(x) + 1) /\ a \in m - 1..Len(x)
      BY <3>1, <3>2, <3>3, <3>4
    <3>7. /\ SubSeq(x, m, a) \in Seq(Unit)
          /\ Len(SubSeq(x, m, a)) = a - m + 1
          /\ \A i \in 1..(a - m + 1) : SubSeq(x, m, a)[i] = x[m + i - 1]
      BY <3>4, <3>6, SubSeqProperties
    <3>8. a - m + 1 = len - off /\ Len(u) = Len(v) /\ v \in Seq(Unit)
      BY <3>2, <3>3, <3>5, <3>7
    <3>9. ASSUME NEW i \in 1..Len(u)  PROVE u[i] = v[i]
      <4>1. off + i \in 1..len /\ i \in 1..(a - m + 1) /\ a - len + (off + i) = m + i - 1
        BY SMTT(20), <3>2, <3>3, <3>5, <3>8
      <4>2. u[i] = s.buf[off + i] /\ s.buf[off + i] = x[a - len + (off + i)]
        BY <3>2, <3>5, <4>1
      <4>3. v[i] = x[m + i - 1]
        BY <3>7, <4>1
      <4>. QED
        BY <4>1, <4>2, <4>3
    <3>. HIDE DEF v
    <3>10. u = v
      BY <3>5, <3>8, <3>9, SeqEqual
    <3>. QED
      BY <3>10 DEF u, v, x, a, e
  <2>. QED
    BY <2>2, <2>3, <2>4
<1>. QED
  BY <1>1, ServerInductive, PTL

\* Answers go out one per request and in order, and a response says "close"
\* exactly if the connection ends with it, also when close() is called between
\* the dispatch and the answer.
THEOREM AnswersAreInOrder == Spec => []Answers
<1>1. ServerInv => Answers
  <2>. SUFFICES ASSUME ServerInv, NEW c \in Conn
                PROVE  LET s == conn[c]
                       IN  /\ Len(s.dispatched) - Len(s.sent) \in {0, 1}
                           /\ \A i \in DOMAIN s.sent :
                                /\ s.sent[i].req = i
                                /\ s.sent[i].late \/ s.stream[i] = "close" => s.sent[i].close
                                /\ s.sent[i].close => /\ i = Len(s.dispatched)
                                                      /\ s.state # "open" /\ s.dead
    BY DEF Answers
  <2>. DEFINE s == conn[c]
  <2>1. s \in ConnState /\ AnswerInv(s, closing)
    BY DEF ServerInv, ConnInv
  <2>2. /\ Len(s.dispatched) \in Nat /\ Len(s.sent) \in Nat /\ DOMAIN s.sent = 1..Len(s.sent)
    BY SMTT(20), <2>1 DEF ConnState
  <2>3. Len(s.dispatched) - Len(s.sent) \in {0, 1}
    <3>. DEFINE d == Len(s.dispatched)
                m == Len(s.sent)
    <3>1. m <= d /\ d <= m + 1 /\ d \in Nat /\ m \in Nat
      BY <2>1, <2>2 DEF AnswerInv, Count
    <3>. HIDE DEF d, m
    <3>2. d - m \in {0, 1}
      BY <3>1
    <3>. QED
      BY <3>2 DEF d, m
  <2>4. \A i \in 1..Len(s.sent) :
          /\ s.sent[i].req = i
          /\ s.sent[i].late \/ s.stream[i] = "close" => s.sent[i].close
          /\ s.sent[i].close => i = Count(s) /\ s.state # "open" /\ s.dead
    BY <2>1 DEF AnswerInv
  <2>5. Count(s) = Len(s.dispatched)
    BY DEF Count
  <2>. HIDE DEF s
  <2>6. ASSUME NEW i \in DOMAIN s.sent
        PROVE  /\ s.sent[i].req = i
               /\ s.sent[i].late \/ s.stream[i] = "close" => s.sent[i].close
               /\ s.sent[i].close => i = Len(s.dispatched) /\ s.state # "open" /\ s.dead
    <3>1. i \in 1..Len(s.sent)
      BY <2>2
    <3>. QED
      BY <2>4, <2>5, <3>1
  <2>. QED
    BY <2>3, <2>6 DEF s
<1>. QED
  BY <1>1, ServerInductive, PTL

\* No wake-up is lost: an open connection that does not dispatch or does not
\* read waits for an answer it is owed or for a 'drain' that will come, and a
\* request that has arrived is never left in the buffer.
THEOREM NothingStalls == Spec => []NoStall
<1>1. ServerInv => NoStall
  <2>. SUFFICES ASSUME ServerInv, Quiet, NEW c \in Conn, conn[c].state = "open"
                PROVE  LET s == conn[c]
                           n == Len(s.dispatched)
                       IN  /\ ~s.dead
                           /\ s.paused <=> s.awaiting \/ s.onDrain
                           /\ s.awaiting <=> s.inflight = 1
                           /\ s.onDrain => s.out = "full" /\ ~s.awaiting
                           /\ ~s.reading => s.paused
                           /\ ~s.paused => n = Len(s.stream) \/ s.arrived < EndOf(s, n + 1)
    BY DEF NoStall
  <2>. DEFINE s == conn[c]
  <2>1. s \in ConnState /\ ModeInv(s) /\ ParseInv(s)
    BY DEF ServerInv, ConnInv
  <2>2. ~s.running /\ ~s.tick /\ s.state = "open"
    BY DEF Quiet
  <2>3. /\ ~s.dead
        /\ s.paused <=> s.awaiting \/ s.onDrain
        /\ s.awaiting <=> s.inflight = 1
        /\ s.onDrain => s.out = "full" /\ ~s.awaiting
        /\ ~s.reading => s.paused
    BY <2>1, <2>2 DEF ModeInv
  <2>4. ~s.paused => Count(s) = Len(s.stream) \/ s.arrived < EndOf(s, Count(s) + 1)
    BY <2>1, <2>2, <2>3 DEF ParseInv
  <2>. QED
    BY <2>3, <2>4 DEF Count
<1>. QED
  BY <1>1, ServerInductive, PTL

\* The header clock runs exactly while an open connection that may dispatch
\* holds the beginning of a header block: a body, an answer under way or an
\* empty buffer stops it.
THEOREM HeaderClockIsRight == Spec => []HeaderClock
<1>1. ServerInv => HeaderClock
  <2>. SUFFICES ASSUME ServerInv, Quiet, NEW c \in Conn, conn[c].state = "open"
                PROVE  LET s == conn[c]
                           header == \A i \in DOMAIN Unparsed(s) : Unparsed(s)[i].part # "tail"
                       IN  s.hdrSince # "none" <=>
                             HeadersTimeout /\ ~s.paused /\ Unparsed(s) # <<>> /\ header
    BY DEF HeaderClock
  <2>. DEFINE s == conn[c]
              u == Unparsed(s)
              header == \A i \in DOMAIN u : u[i].part # "tail"
              n == Count(s)
              k == NextKind(s)
              h == HeadAt(k)
              e == EndOf(s, n)
              a == s.arrived
              len == Len(s.buf)
              off == s.skip
  <2>1. s \in ConnState /\ FrameInv(s) /\ ParseInv(s) /\ ModeInv(s)
    BY DEF ServerInv, ConnInv
  <2>2. ~s.running /\ s.state = "open"
    BY DEF Quiet
  <2>. HIDE DEF s
  <2>3. ~s.dead
    BY <2>1, <2>2 DEF ModeInv
  <2>4. Off(s) = off /\ Window(s) /\ WindowAt(s, off) /\ a <= Len(Units(s)) /\ n <= Len(s.stream)
    BY <2>1, <2>2, <2>3 DEF Off, Window, FrameInv
  <2>5. off \in Nat /\ len \in Nat /\ a \in Nat /\ s.buf \in Seq(Unit)
    BY <2>1 DEF ConnState
  <2>6. off <= len /\ len <= a /\ a - len + off = e
    BY <2>4 DEF WindowAt
  <2>7. u \in Seq(Unit) /\ Len(u) = len - off /\ \A i \in 1..Len(u) : u[i] = s.buf[off + i]
    BY <2>1, <2>4, UnparsedIs
  <2>8. DOMAIN u = 1..Len(u) /\ Len(u) \in Nat /\ (u # <<>> <=> Len(u) > 0)
    <3>. HIDE DEF u, len, off
    <3>1. DOMAIN u = 1..Len(u) /\ Len(u) \in Nat
      BY <2>7
    <3>2. u # <<>> => Len(u) \in Nat \ {0}
      BY <2>7, EmptySeq
    <3>. QED
      BY <3>1, <3>2
  <2>9. s.hdrSince # "none" <=>
          HeadersTimeout /\ ~s.paused /\ n < Len(s.stream) /\ e < a /\ a < e + h + 2
    BY <2>1, <2>2, <2>3 DEF ParseInv
  <2>10. e < a <=> off < len
    <3>. HIDE DEF e, a, off, len
    <3>. QED
      BY <2>5, <2>6
  <2>11. u # <<>> <=> off < len
    <3>. HIDE DEF u, off, len
    <3>. QED
      BY <2>5, <2>7, <2>8
  <2>12. CASE ~(off < len)
    <3>. HIDE DEF u, header, off, len, e, a
    <3>1. s.hdrSince # "none" <=> HeadersTimeout /\ ~s.paused /\ u # <<>> /\ header
      BY <2>9, <2>10, <2>11, <2>12
    <3>. QED
      BY <3>1 DEF header, u, s
  <2>13. CASE off < len
    <3>1. n < Len(s.stream) /\ Begins(s.buf, off, n, k)
      BY <2>1, <2>4, <2>5, <2>13, BeginsNext
    <3>2. k \in Kinds /\ h \in Nat
      BY <2>1, <3>1, NextIs
    <3>3. \A i \in Nat : off < i /\ i <= len /\ i <= off + h + 2 =>
            /\ i <= off + h => s.buf[i].part = IF k = "bare" THEN "bare" ELSE "empty"
            /\ i = off + h + 1 => s.buf[i].part = "head"
            /\ i = off + h + 2 => s.buf[i].part = "tail"
      BY <2>5, <3>1, <3>2, PartsAre
    <3>. HIDE DEF u, k, h, e, a, len, off, n
    <3>4. a < e + h + 2 <=> len < off + h + 2
      BY <2>5, <2>6, <3>2
    <3>5. ASSUME len < off + h + 2  PROVE header
      <4>. SUFFICES ASSUME NEW i \in 1..Len(u)  PROVE u[i].part # "tail"
        BY <2>8
      <4>1. /\ off + i \in Nat /\ off < off + i /\ off + i <= len /\ off + i <= off + h + 2
            /\ off + i <= off + h \/ off + i = off + h + 1
        BY <2>5, <2>7, <3>2, <3>5
      <4>2. s.buf[off + i].part \in {"bare", "empty", "head"}
        BY <3>3, <4>1
      <4>. QED
        BY <2>7, <4>2
    <3>6. ASSUME ~(len < off + h + 2)  PROVE ~header
      <4>. DEFINE i == h + 2
      <4>1. /\ i \in 1..Len(u) /\ off + i \in Nat /\ off < off + i /\ off + i <= len
            /\ off + i <= off + h + 2 /\ off + i = off + h + 2
        BY <2>5, <2>7, <3>2, <3>6
      <4>. HIDE DEF i
      <4>2. s.buf[off + i].part = "tail"
        BY <3>3, <4>1
      <4>3. u[i].part = "tail"
        BY <2>7, <4>1, <4>2
      <4>. QED
        BY <2>8, <4>1, <4>3
    <3>. HIDE DEF header
    <3>7. s.hdrSince # "none" <=> HeadersTimeout /\ ~s.paused /\ u # <<>> /\ header
      BY <2>9, <2>10, <2>11, <2>13, <3>1, <3>4, <3>5, <3>6
    <3>. QED
      BY <3>7 DEF header, u, s
  <2>. QED
    BY <2>12, <2>13
<1>. QED
  BY <1>1, ServerInductive, PTL
=============================================================================
