----------------------------- MODULE HttpServer -----------------------------
(***************************************************************************)
(* The connections of src/src/HttpServer.ts, from 'connection' to 'close'. *)
(*                                                                         *)
(* A client sends a stream of requests; what arrives is cut into chunks    *)
(* anywhere.  Bytes are abstracted to units: an empty line, a bare LF, a   *)
(* header block in two halves (its terminator CRLFCRLF spans them), a      *)
(* body.  A unit knows the request it belongs to, so that what the parser  *)
(* makes of its buffer can be compared with what was sent.                 *)
(*                                                                         *)
(* Everything runs on one event loop.  The user's handler is called from   *)
(* the loop of processBuffer and may there respond, close the server, end  *)
(* or destroy the socket, throw, or return without an answer: it is a      *)
(* state of its own (running), in which only user code takes steps.  The   *)
(* resume() that an answer defers with process.nextTick runs before any    *)
(* other event, but after the rest of the user's code (tick).              *)
(*                                                                         *)
(* One connection is a record: ConnState, the socket, and what an observer *)
(* of it has seen.  Offsets count units from 0, as in the code.            *)
(***************************************************************************)
EXTENDS Integers, Sequences, SequencesExt

CONSTANTS Conn,
          Kinds,             \* the kinds of requests clients send
          MaxRequests,       \* bound: requests of a connection
          MaxChunk,          \* bound: units in one 'data' event
          MaxHeaderSize, PauseAt,
          HeadersTimeout, KeepAliveTimeout   \* whether they are > 0

\* the units of a request; a head holds the request line and the header lines
Format ==
  [plain |-> <<"head", "tail">>, close |-> <<"head", "tail">>,
   body |-> <<"head", "tail", "body">>, blank |-> <<"empty", "head", "tail">>,
   \* a bad or unsupported header (400, 413, 501), a bare LF, a block too long (431)
   refused |-> <<"head", "tail">>, bare |-> <<"bare", "head", "tail">>,
   long |-> [i \in 1..(MaxHeaderSize + 2) |->
               IF i <= MaxHeaderSize THEN "empty" ELSE IF i = MaxHeaderSize + 1 THEN "head" ELSE "tail"]]
Wellformed == {"plain", "close", "body", "blank"}

ASSUME StreamAssumption ==
  Kinds \subseteq DOMAIN Format /\ MaxRequests \in Nat \ {0} /\ MaxChunk \in Nat \ {0}
ASSUME OptionsAssumption ==
  /\ MaxHeaderSize \in Nat \ {0, 1, 2} /\ PauseAt \in 1..MaxHeaderSize
  /\ HeadersTimeout \in BOOLEAN /\ KeepAliveTimeout \in BOOLEAN

VARIABLES conn,      \* every connection, accepted or not
          closing    \* cfg.closing
vars == <<conn, closing>>

Max2(a, b) == IF a > b THEN a ELSE b
Min2(a, b) == IF a < b THEN a ELSE b

-----------------------------------------------------------------------------
(* What the client sends. *)

\* the units of a request, and those of the first i requests
Block(stream, i) ==
  LET f == Format[stream[i]] IN [j \in 1..Len(f) |-> [req |-> i, part |-> f[j]]]
FirstUnits(stream) ==
  LET first[i \in 0..Len(stream)] == IF i = 0 THEN <<>> ELSE first[i - 1] \o Block(stream, i)
  IN  first

Units(s) == FirstUnits(s.stream)[Len(s.stream)]
EndOf(s, i) == Len(FirstUnits(s.stream)[i])

-----------------------------------------------------------------------------
(* makeConnState and the socket *)

NewConn(stream) ==
  [\* ConnState; hdrSince is a clock that is off, runs or has passed headersTimeout
   buf |-> <<>>, need |-> 0, scan |-> 0, hdrSince |-> "none", skip |-> 0,
   paused |-> FALSE, awaiting |-> FALSE, dead |-> FALSE, keepAlive |-> TRUE,
   inflight |-> 0, timeoutDeferred |-> FALSE,
   \* processBuffer while the handler runs; resume() scheduled
   running |-> FALSE, offset |-> 0, tick |-> FALSE,
   \* the socket: life cycle, write buffer, reading, 'drain' listener, idle timer
   state |-> "none", out |-> "empty", reading |-> TRUE, onDrain |-> FALSE,
   timer |-> KeepAliveTimeout, fin |-> FALSE,
   \* the stream and how much of it was read; requests handled, answers written
   stream |-> stream, arrived |-> 0, dispatched |-> <<>>, sent |-> <<>>, rejected |-> FALSE]

Init ==
  /\ closing = FALSE
  /\ conn \in [Conn -> {NewConn(stream) : stream \in UNION {[1..n -> Kinds] : n \in 1..MaxRequests}}]

Destroy(s) == [s EXCEPT !.state = IF @ \in {"open", "ended"} THEN "destroyed" ELSE @]
End(s) == [s EXCEPT !.state = IF @ = "open" THEN "ended" ELSE @]

\* needs 'drain' before more is written
NeedsDrain(s) == s.state = "open" /\ s.out = "full"

-----------------------------------------------------------------------------
(* tryParse and processBuffer *)

\* a search that resumes after the last unit, where a terminator may begin
RescanFrom_Past(start, end) == end

\* where the next search for the terminator starts
RescanFrom(start, end) == Max2(end - 1, start)

\* tryParse(conn, offset, end, scan)
TryParse(s, offset, scan) ==
  LET end == Len(s.buf)
      start == CHOOSE k \in offset..end :
                 /\ \A i \in (offset + 1)..k : s.buf[i].part = "empty"
                 /\ k < end => s.buf[k + 1].part # "empty"
      from == Max2(scan, start)
      ends == {k \in from..(end - 2) : s.buf[k + 1].part = "head" /\ s.buf[k + 2].part = "tail"}
      headerEnd == CHOOSE k \in ends : \A m \in ends : k <= m
      bareLF == \E i \in (from + 1)..Min2(end, offset + MaxHeaderSize) : s.buf[i].part = "bare"
      req == s.buf[headerEnd + 1].req
      bodyEnd == headerEnd + 2 + (IF s.stream[req] = "body" THEN 1 ELSE 0)
      keepAlive == s.stream[req] # "close" /\ ~closing
      reject == [tag |-> "reject"]
  IN  IF ends = {}
      THEN IF bareLF \/ end - offset > MaxHeaderSize THEN reject
           ELSE [tag |-> "incomplete", keepAlive |-> s.keepAlive, need |-> 0,
                 scan |-> RescanFrom(start, end) - offset]
      \* anything but one header block before its terminator does not parse
      ELSE IF headerEnd + 2 - offset > MaxHeaderSize \/ headerEnd # start
              \/ s.stream[req] = "refused" THEN reject
      ELSE IF bodyEnd > end
           THEN [tag |-> "incomplete", keepAlive |-> keepAlive, need |-> bodyEnd - offset, scan |-> 0]
      ELSE [tag |-> "request", keepAlive |-> keepAlive, req |-> req, consumed |-> bodyEnd]

Reject(s) == [End(s) EXCEPT !.dead = TRUE, !.buf = <<>>, !.rejected = TRUE,
                            !.out = IF s.state = "open" /\ @ = "empty" THEN "some" ELSE @]

\* a clock that also runs for a body
Compact_TimesBody(s, offset, incomplete) ==
  LET r == [s EXCEPT !.need = IF incomplete THEN @ ELSE 0, !.scan = IF incomplete THEN @ ELSE 0,
                     !.buf = SubSeq(@, offset + 1, Len(@)), !.running = FALSE]
  IN  [r EXCEPT !.hdrSince =
         IF r.buf = <<>> \/ ~incomplete \/ ~HeadersTimeout THEN "none"
         ELSE IF offset > 0 \/ @ = "none" THEN "running" ELSE @]

\* processBuffer after its loop
Compact(s, offset, incomplete) ==
  LET r == [s EXCEPT !.need = IF incomplete THEN @ ELSE 0, !.scan = IF incomplete THEN @ ELSE 0,
                     !.buf = SubSeq(@, offset + 1, Len(@)), !.running = FALSE]
  IN  [r EXCEPT !.hdrSince =
         IF r.buf = <<>> \/ ~incomplete \/ r.need # 0 \/ ~HeadersTimeout THEN "none"
         ELSE IF offset > 0 \/ @ = "none" THEN "running" ELSE @]

\* one turn of the loop: to the call of the handler, or out of the loop
Iterate(s, offset, scan) ==
  LET p == TryParse(s, offset, scan)
  IN  IF offset >= Len(s.buf) THEN Compact(s, offset, FALSE)
      ELSE CASE p.tag = "incomplete" ->
                  Compact([s EXCEPT !.keepAlive = p.keepAlive, !.need = p.need, !.scan = p.scan],
                          offset, TRUE)
             [] p.tag = "reject" -> [Reject(s) EXCEPT !.running = FALSE]
             [] p.tag = "request" ->
                  [s EXCEPT !.running = TRUE, !.offset = p.consumed, !.inflight = 1,
                            !.keepAlive = p.keepAlive, !.dispatched = Append(@, p.req)]

ProcessBuffer(s) == Iterate([s EXCEPT !.skip = 0], s.skip, s.scan)

WaitForDrain(s) == [s EXCEPT !.paused = TRUE, !.reading = FALSE, !.onDrain = TRUE]

\* a loop that compacts while the handler of an earlier request still works
AfterHandler_NoSkip(s) ==
  IF s.dead \/ s.state # "open" THEN [s EXCEPT !.dead = TRUE, !.running = FALSE]
  ELSE IF s.inflight # 0
       THEN [s EXCEPT !.running = FALSE, !.awaiting = TRUE, !.paused = TRUE,
                      !.need = 0, !.scan = 0, !.hdrSince = "none"]
  ELSE IF NeedsDrain(s) THEN Compact(WaitForDrain(s), s.offset, FALSE)
  ELSE Iterate(s, s.offset, 0)

\* the rest of the turn, once the handler has returned, and the next turn
AfterHandler(s) ==
  IF s.dead \/ s.state # "open" THEN [s EXCEPT !.dead = TRUE, !.running = FALSE]
  ELSE IF s.inflight # 0
       THEN [s EXCEPT !.running = FALSE, !.awaiting = TRUE, !.paused = TRUE, !.skip = s.offset,
                      !.need = 0, !.scan = 0, !.hdrSince = "none"]
  ELSE IF NeedsDrain(s) THEN Compact(WaitForDrain(s), s.offset, FALSE)
  ELSE Iterate(s, s.offset, 0)

Resume(s) ==
  LET r == [s EXCEPT !.paused = FALSE]
  IN  IF r.dead \/ r.state # "open" THEN [r EXCEPT !.dead = TRUE]
      ELSE IF NeedsDrain(r) THEN WaitForDrain(r)
      ELSE ProcessBuffer([r EXCEPT !.reading = TRUE])

\* an exception of the handler
Fail(s) == [Destroy(s) EXCEPT !.dead = TRUE, !.running = FALSE]

OnData(s, chunk) ==
  LET r == [s EXCEPT !.buf = @ \o chunk]
  IN  IF s.dead THEN s
      ELSE IF s.paused \/ Len(r.buf) < s.need
           THEN [r EXCEPT !.reading = @ /\ ~(s.awaiting /\ Len(r.buf) - s.skip > PauseAt)]
      ELSE IF s.hdrSince = "expired" THEN [Destroy(r) EXCEPT !.dead = TRUE]
      ELSE ProcessBuffer(r)

-----------------------------------------------------------------------------
(* respond, respondRaw, respondBuffer *)

\* the response is written; a write after end() is an error, which destroys
Write(s, out) ==
  IF s.state = "open"
  THEN [s EXCEPT !.out = out, !.sent = Append(@, [req |-> Last(s.dispatched),
                                                  close |-> ~s.keepAlive, late |-> closing])]
  ELSE Destroy(s)

\* a deferred timeout that is forgotten
Responded_NoRearm(s) ==
  LET r == [s EXCEPT !.inflight = 0, !.timeoutDeferred = FALSE]
  IN  IF r.dead THEN r
      ELSE IF ~r.keepAlive THEN [End(r) EXCEPT !.dead = TRUE]
      ELSE [r EXCEPT !.tick = @ \/ r.awaiting, !.awaiting = FALSE]

Responded(s) ==
  LET r == [s EXCEPT !.inflight = 0, !.timeoutDeferred = FALSE,
                     !.timer = @ \/ s.timeoutDeferred]
  IN  IF r.dead THEN r
      ELSE IF ~r.keepAlive THEN [End(r) EXCEPT !.dead = TRUE]
      ELSE [r EXCEPT !.tick = @ \/ r.awaiting, !.awaiting = FALSE]

-----------------------------------------------------------------------------
(* Steps of the user's code: in a handler, or in any other callback. *)

Update(c, s) == conn' = [conn EXCEPT ![c] = s] /\ UNCHANGED closing

\* a handler holds the socket until it has answered, and a little longer
HasSocket(c) == conn[c].running \/ conn[c].inflight = 1 \/ conn[c].tick

Respond(c) ==
  /\ conn[c].inflight = 1
  /\ \E out \in (IF conn[c].out = "full" THEN {"full"} ELSE {"some", "full"}) :
       Update(c, Responded(Write(conn[c], out)))

EndSocket(c) == HasSocket(c) /\ conn[c].state = "open" /\ Update(c, End(conn[c]))

DestroySocket(c) ==
  HasSocket(c) /\ conn[c].state \in {"open", "ended"} /\ Update(c, Destroy(conn[c]))

HandlerReturns(c) == conn[c].running /\ Update(c, AfterHandler(conn[c]))
HandlerThrows(c) == conn[c].running /\ Update(c, Fail(conn[c]))

\* a close that leaves busy connections alone
CloseConn_KeepsBusy(s) ==
  IF s.buf # <<>> \/ s.inflight # 0 THEN s
  ELSE IF s.out = "empty" THEN [Destroy(s) EXCEPT !.dead = TRUE]
  ELSE [End(s) EXCEPT !.dead = TRUE]

\* what close() does to one connection
CloseConn(s) ==
  IF s.buf # <<>> \/ s.inflight # 0 THEN [s EXCEPT !.keepAlive = FALSE]
  ELSE IF s.out = "empty" THEN [Destroy(s) EXCEPT !.dead = TRUE]
  ELSE [End(s) EXCEPT !.dead = TRUE]

Close ==
  /\ ~closing
  /\ closing' = TRUE
  /\ conn' = [c \in Conn |-> IF conn[c].state \in {"none", "closed"} THEN conn[c]
                             ELSE CloseConn(conn[c])]

-----------------------------------------------------------------------------
(* Callbacks of the event loop. *)

\* process.nextTick(resume): once the callback that responded is over
Tick(c) ==
  /\ conn[c].tick /\ \A d \in Conn : ~conn[d].running
  /\ Update(c, Resume([conn[c] EXCEPT !.tick = FALSE]))

\* nothing is on the stack and no tick is due
Quiet == \A c \in Conn : ~conn[c].running /\ ~conn[c].tick

Connected(c) == Quiet /\ conn[c].state \in {"open", "ended"}

Accept(c) ==
  /\ Quiet /\ conn[c].state = "none" /\ ~closing
  /\ Update(c, [conn[c] EXCEPT !.state = "open"])

\* a fired timer is armed again by setTimeout only: bytes read or written keep
\* an armed one from firing, which is when Timeout does not happen
Data(c, n) ==
  /\ Connected(c) /\ conn[c].reading /\ ~conn[c].fin
  /\ conn[c].arrived + n <= Len(Units(conn[c]))
  /\ LET a == conn[c].arrived
     IN  Update(c, OnData([conn[c] EXCEPT !.arrived = a + n],
                          SubSeq(Units(conn[c]), a + 1, a + n)))

\* the peer has read everything written
Flushed(c) ==
  /\ Connected(c) /\ conn[c].out # "empty"
  /\ LET s == [conn[c] EXCEPT !.out = "empty"]
     IN  Update(c, IF NeedsDrain(conn[c]) /\ s.onDrain
                   THEN Resume([s EXCEPT !.onDrain = FALSE]) ELSE s)

OnTimeout(c) ==
  /\ Connected(c) /\ conn[c].timer
  /\ LET s == [conn[c] EXCEPT !.timer = FALSE]
     IN  Update(c, IF s.inflight > 0 THEN [s EXCEPT !.timeoutDeferred = TRUE] ELSE Destroy(s))

\* time passes
HeaderExpires(c) ==
  /\ Connected(c) /\ conn[c].hdrSince = "running"
  /\ Update(c, [conn[c] EXCEPT !.hdrSince = "expired"])

Stale(c) == conn[c].hdrSince = "expired" /\ conn[c].state \notin {"none", "closed"}

Sweep ==
  /\ Quiet /\ \E c \in Conn : Stale(c)
  /\ conn' = [c \in Conn |-> IF Stale(c) THEN [Destroy(conn[c]) EXCEPT !.dead = TRUE] ELSE conn[c]]
  /\ UNCHANGED closing

\* the client's FIN ends our side too (allowHalfOpen is off)
ClientEnds(c) ==
  Connected(c) /\ ~conn[c].fin /\ Update(c, [End(conn[c]) EXCEPT !.fin = TRUE])

ClientResets(c) == Connected(c) /\ Update(c, Destroy(conn[c]))

\* both sides have ended and nothing is left to write
Finished(c) ==
  /\ Connected(c) /\ conn[c].state = "ended" /\ conn[c].fin /\ conn[c].out = "empty"
  /\ Update(c, Destroy(conn[c]))

OnClose(c) ==
  /\ Quiet /\ conn[c].state = "destroyed"
  /\ Update(c, [conn[c] EXCEPT !.state = "closed", !.dead = TRUE])

\* the server is closed and every handler has answered
Done ==
  /\ closing /\ \A c \in Conn : conn[c].state \in {"none", "closed"} /\ ~HasSocket(c)
  /\ UNCHANGED vars

Next ==
  \/ Close \/ Sweep \/ Done
  \/ \E c \in Conn :
       \/ Respond(c) \/ EndSocket(c) \/ DestroySocket(c) \/ HandlerReturns(c) \/ HandlerThrows(c)
       \/ Tick(c) \/ Accept(c) \/ \E n \in 1..MaxChunk : Data(c, n)
       \/ Flushed(c) \/ OnTimeout(c) \/ HeaderExpires(c)
       \/ ClientEnds(c) \/ ClientResets(c) \/ Finished(c) \/ OnClose(c)

Spec == Init /\ [][Next]_vars

(* A handler returns or throws, and every request is answered, as Handler  *)
(* demands; ticks, timers and 'close' events come.  Nothing is assumed of  *)
(* clients: they may neither read, nor finish a request, nor disconnect.   *)
FairSpec ==
  /\ Spec
  /\ \A c \in Conn : /\ WF_vars(HandlerReturns(c) \/ HandlerThrows(c)) /\ WF_vars(Respond(c))
                     /\ WF_vars(Tick(c)) /\ WF_vars(OnTimeout(c)) /\ WF_vars(OnClose(c))

-----------------------------------------------------------------------------
(* Properties. *)

\* the part of the buffer that has not been dispatched
Unparsed(s) == SubSeq(s.buf, (IF s.running THEN s.offset ELSE s.skip) + 1, Len(s.buf))

\* However the stream is cut into chunks, and wherever dispatch is suspended
\* and resumed: the handler gets the client's requests, each once and in
\* order, nothing malformed is dispatched and nothing wellformed rejected, and
\* the bytes not yet dispatched are all in the buffer.
Framing ==
  \A c \in Conn :
    LET s == conn[c]
        n == Len(s.dispatched)
    IN  /\ \A i \in 1..n : s.dispatched[i] = i /\ s.stream[i] \in Wellformed
        /\ s.rejected => n < Len(s.stream) /\ s.stream[n + 1] \notin Wellformed
        /\ ~s.dead => Unparsed(s) = SubSeq(Units(s), EndOf(s, n) + 1, s.arrived)

\* Answers go out one per request, in order.  A response says "close" exactly
\* if it is the last: always once close() has been called or the request asked
\* for it, and then the socket has ended and no later request is dispatched.
Answers ==
  \A c \in Conn :
    LET s == conn[c]
    IN  /\ Len(s.dispatched) - Len(s.sent) \in {0, 1}
        /\ \A i \in DOMAIN s.sent :
             /\ s.sent[i].req = i
             /\ s.sent[i].late \/ s.stream[i] = "close" => s.sent[i].close
             /\ s.sent[i].close => /\ i = Len(s.dispatched)
                                   /\ s.state # "open" /\ s.dead

\* No lost wake-up: an open connection that does not dispatch waits for an
\* answer it is owed or for a 'drain' that will come, one that does not read is
\* one of those, and a request that has arrived is never left in the buffer.
NoStall ==
  Quiet => \A c \in Conn :
    LET s == conn[c]
        n == Len(s.dispatched)
    IN  s.state = "open" =>
          /\ ~s.dead
          /\ s.paused <=> s.awaiting \/ s.onDrain
          /\ s.awaiting <=> s.inflight = 1
          /\ s.onDrain => s.out = "full" /\ ~s.awaiting
          /\ ~s.reading => s.paused
          /\ ~s.paused => n = Len(s.stream) \/ s.arrived < EndOf(s, n + 1)

\* The header clock runs exactly while an open connection that may dispatch
\* holds the beginning of a header block; a body, an answer under way or an
\* empty buffer stops it.
HeaderClock ==
  Quiet => \A c \in Conn :
    LET s == conn[c]
        header == \A i \in DOMAIN Unparsed(s) : Unparsed(s)[i].part # "tail"
    IN  s.state = "open" =>
          (s.hdrSince # "none" <=> HeadersTimeout /\ ~s.paused /\ Unparsed(s) # <<>> /\ header)

\* With a keepAliveTimeout every connection ends, whatever the client does not
\* do, so close() resolves: a timeout deferred for a working handler is not lost.
ConnectionsEnd ==
  \A c \in Conn : conn[c].state = "open" ~> conn[c].state = "closed"

-----------------------------------------------------------------------------
(* What the documentation says and the code does not do. *)

\* "destroys idle ones immediately": after close() an open connection has part
\* of a request or a response outstanding.
IdleDestroyed ==
  closing /\ Quiet => \A c \in Conn :
    conn[c].state = "open" => conn[c].buf # <<>> \/ conn[c].inflight = 1

\* "until a header block's worth is queued": behind a working handler at most
\* pauseAt bytes are queued, besides the chunk its request came in and the one
\* that passes the limit.
QueueBounded ==
  \A c \in Conn : conn[c].awaiting => Len(Unparsed(conn[c])) <= PauseAt + 2 * MaxChunk
=============================================================================
