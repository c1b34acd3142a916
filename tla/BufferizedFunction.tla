------------------------- MODULE BufferizedFunction -------------------------
(***************************************************************************)
(* The call buffer of src/src/BufferizedFunction.ts.  A call appends its   *)
(* arguments and schedules the worker unless it is scheduled; the worker   *)
(* lowers the flag and hands fn everything buffered.  Which timer is used  *)
(* (setTimeout or setImmediate) changes when the worker runs, not what it  *)
(* does: here it may run at any later time.                                *)
(*                                                                         *)
(* Both operations are conjuncts of the actions of the module that makes   *)
(* the buffered function; fn is the rest of the action Worker is in.       *)
(***************************************************************************)
EXTENDS Naturals, Sequences

VARIABLES buffer,     \* queue
          scheduled,  \* scheduled.contents
          timers      \* callbacks handed to setTimeout or setImmediate that have not run
bufferVars == <<buffer, scheduled, timers>>

BufferInit == buffer = <<>> /\ scheduled = FALSE /\ timers = 0

BufferizedFn(args) ==
  /\ buffer' = buffer \o args
  /\ scheduled' = TRUE
  /\ timers' = IF scheduled THEN timers ELSE timers + 1

\* a worker that forgets to lower the flag
Worker_KeepsFlag ==
  /\ timers > 0
  /\ timers' = timers - 1
  /\ buffer' = <<>>
  /\ UNCHANGED scheduled

\* the callback, up to its call fn(buffer)
Worker ==
  /\ timers > 0
  /\ timers' = timers - 1
  /\ scheduled' = FALSE
  /\ buffer' = <<>>
=============================================================================
