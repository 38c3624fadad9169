----------------------------- MODULE Reassembly -----------------------------
(***************************************************************************)
(* What a shard promises to the rest of the receiver, without goroutines,  *)
(* mutex, channel, clock or metrics: a store of message buckets.  Fragments *)
(* collect in open buckets; a bucket is sealed when it is complete, or     *)
(* early; a sealed bucket is never touched again until it is taken, whole, *)
(* exactly once.  Shard implements this specification.                     *)
(***************************************************************************)
EXTENDS Integers, Sequences

CONSTANTS Keys, MaxSeq

VARIABLES store,   \* the bucket of each key
          handed   \* the buckets taken so far, in order

rvars == <<store, handed>>

Empty == [state |-> "absent", frags |-> {}, maxSeq |-> 0]

RInit == store = [k \in Keys |-> Empty] /\ handed = <<>>

\* The bucket of k after fragment s of a message of m + 1 fragments.
With(k, s, m) ==
  LET all == store[k].frags \union {s}
  IN  [state  |-> IF all = 0 .. m THEN "filled" ELSE "open",
       frags  |-> all,
       maxSeq |-> m]

Add(k, s, m) ==
  /\ s <= m
  /\ \/ store[k].state = "absent"
     \/ store[k].state = "open" /\ store[k].maxSeq = m
  /\ store' = [store EXCEPT ![k] = With(k, s, m)]
  /\ UNCHANGED handed

\* Seals the open buckets in K as they are.
Seal(K) ==
  /\ \A k \in K : store[k].state = "open"
  /\ store' = [k \in Keys |-> IF k \in K THEN [store[k] EXCEPT !.state = "filled"]
                              ELSE store[k]]
  /\ UNCHANGED handed

Take(k) ==
  /\ store[k].state = "filled"
  /\ store' = [store EXCEPT ![k] = Empty]
  /\ handed' = Append(handed, [key    |-> k,
                               frags  |-> store[k].frags,
                               maxSeq |-> store[k].maxSeq])

RNext ==
  \/ \E k \in Keys, s, m \in 0 .. MaxSeq : Add(k, s, m)
  \/ \E K \in SUBSET Keys : Seal(K)
  \/ \E k \in Keys : Take(k)

RSpec == RInit /\ [][RNext]_rvars

=============================================================================
