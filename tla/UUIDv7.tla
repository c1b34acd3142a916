------------------------------- MODULE UUIDv7 -------------------------------
(***************************************************************************)
(* src/src/UUID.v7.ts: identifiers made of a timestamp, a counter and      *)
(* random bits.  The counter is reseeded when the clock passes the last    *)
(* timestamp and counted up otherwise; the clock may stall or step back.   *)
(***************************************************************************)
EXTENDS Integers

CONSTANTS Clock,        \* the values Date.now() returns
          LOW, HIGH,    \* sizes of the counter's two fields (2^30 and 2^12)
          POOL_SIZE, RANDOM_BYTES,
          MaxInMs       \* bound: identifiers per timestamp (the headroom of the counter)

VARIABLES lastMs, counter, poolPos, id, inMs

uVars == <<lastMs, counter, poolPos, id, inMs>>

\* The random seed leaves the counter's top bit clear.
Seeds == 0..((LOW * HIGH) \div 2 - 1)

\* A clock that stepped back taken for a new millisecond.
ReseedsOnChange(now) == now # lastMs

Reseeds(now) == now > lastMs

\* The fields in the order of the string; hi and lo keep 12 and 30 bits of the counter.
Format(ms, c) == <<ms, (c \div LOW) % HIGH, c % LOW>>

Init == /\ lastMs = -1 /\ counter = 0 /\ poolPos = POOL_SIZE
        /\ id = <<-1, 0, 0>> /\ inMs = 0

V7(now, seed) ==
    LET o == IF poolPos + RANDOM_BYTES > POOL_SIZE THEN 0 ELSE poolPos
    IN  /\ poolPos' = o + RANDOM_BYTES
        /\ inMs' = IF Reseeds(now) THEN 1 ELSE inMs + 1
        /\ inMs' <= MaxInMs
        /\ lastMs' = IF Reseeds(now) THEN now ELSE lastMs
        /\ counter' = IF Reseeds(now) THEN seed ELSE counter + 1
        /\ id' = Format(lastMs', counter')

\* resetV7State, which tests use, is left out: it gives up the order on purpose.
Next == \E now \in Clock, seed \in Seeds : V7(now, seed)

Spec == Init /\ [][Next]_uVars
-----------------------------------------------------------------------------
Before(x, y) == \/ x[1] < y[1]
                \/ x[1] = y[1] /\ x[2] < y[2]
                \/ x[1] = y[1] /\ x[2] = y[2] /\ x[3] < y[3]

(***************************************************************************)
(* Each identifier is greater than the one before, when the clock stalls   *)
(* or steps back and when the counter carries from its low field into its  *)
(* high one too, and the random bytes are read inside the pool.            *)
(***************************************************************************)
Ascending == [][/\ Before(id, id')
                /\ poolPos' <= POOL_SIZE]_uVars
=============================================================================
