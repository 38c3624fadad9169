-------------------------------- MODULE Fifo --------------------------------
(***************************************************************************)
(* What a queue of src/internal/queue/mpmc promises to its callers: a      *)
(* bounded first-in first-out queue.  Push appends one value, Pop gives    *)
(* the oldest value to one caller, and nothing else happens to it.         *)
(***************************************************************************)
EXTENDS Integers, Sequences

CONSTANTS Consumers, Values, Cap, NoValue

VARIABLES queue,  \* the values pushed and not yet popped, oldest first
          got     \* the value each consumer got last

fvars == <<queue, got>>

FInit == queue = <<>> /\ got = [c \in Consumers |-> NoValue]

Enqueue(v) ==
  /\ Len(queue) < Cap
  /\ queue' = Append(queue, v)
  /\ UNCHANGED got

Dequeue(c) ==
  /\ queue # <<>>
  /\ got' = [got EXCEPT ![c] = Head(queue)]
  /\ queue' = Tail(queue)

FNext == (\E v \in Values : Enqueue(v)) \/ (\E c \in Consumers : Dequeue(c))

FSpec == FInit /\ [][FNext]_fvars
=============================================================================
