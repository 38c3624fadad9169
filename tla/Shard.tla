------------------------------- MODULE Shard -------------------------------
(***************************************************************************)
(* One shard of the receiver's defragmentation stage, with the goroutines  *)
(* that work on it (src/internal/receiver/shard/queue.go, runtime.go and   *)
(* the worker loop of src/internal/receiver/assembler/worker.go):          *)
(*                                                                         *)
(*   - the pushers, goroutines that call push: processors, and the FIPR    *)
(*     connection handlers during an update.  Each has its own context;    *)
(*   - the deadline watcher, which seals buckets that were idle too long;  *)
(*   - the assembler, the only consumer of keyQueue.                       *)
(*                                                                         *)
(* They share the mutex Mu, the map Buckets and the bounded channel        *)
(* keyQueue.  A step is the code between two points where a goroutine can  *)
(* block or another can see its writes: push blocks on keyQueue while it   *)
(* HOLDS Mu, the watcher blocks on it after it released Mu.                *)
(*                                                                         *)
(* A fragment is its bucket key, its sequence number and its maximum; what *)
(* the payload says is of no consequence here.  packetDeadline is a        *)
(* constant: the scaler that may change it never does (see README).        *)
(***************************************************************************)
EXTENDS Integers, Sequences, FiniteSets

CONSTANTS Pushers,        \* goroutines that call push
          StoppedPushers, \* the pushers whose context may be cancelled
          StopShard,      \* may the shard's own context be cancelled?
          Keys,           \* bucket keys: address, host id and message id
          Traffic,        \* the fragments each pusher may take from the inbox
          MaxSeq,         \* greatest MessageSeqMax a fragment carries
          KeyQueueCap,    \* capacity of the channel keyQueue (1024)
          Deadline,       \* packetDeadline, in clock ticks
          MaxTime,        \* bound: the clock stops here
          MaxArrivals,    \* bound: fragments that reach this shard
          NoOne,          \* owner of Mu when it is free; no key
          Assembler       \* owner of Mu when the assembler holds it

Seqs == 0 .. MaxSeq
Time == 0 .. MaxTime

\* DeconstructPayload has refused sequence numbers above the maximum.
Fragments == {f \in [key : Keys, seq : Seqs, max : Seqs] : f.seq <= f.max}

ASSUME ShardAssumption ==
  /\ IsFiniteSet(Keys)
  /\ StoppedPushers \subseteq Pushers
  /\ StopShard \in BOOLEAN
  /\ MaxSeq \in Nat
  /\ Traffic \in [Pushers -> SUBSET Fragments]
  /\ KeyQueueCap \in Nat \ {0}
  /\ Deadline \in Nat
  /\ MaxTime \in Nat
  /\ MaxArrivals \in Nat
  /\ NoOne \notin Pushers \union Keys
  /\ Assembler \notin Pushers
  /\ NoOne # Assembler

VARIABLES
  clock,        \* wall clock
  arrivals,     \* number of fragments given to pushers so far
  Mu,           \* owner of the shard's mutex, or NoOne
  Buckets,      \* the bucket stored under each key
  keyQueue,     \* channel of the keys of filled buckets
  TotalBuckets, WaitingBuckets,   \* the two metrics a removal waits on
  pc, frag, start,                \* pushers: control, fragment, start time
  cancelled,                      \* pushers whose context is done
  wpc, keysToSend,                \* watcher: control, keys it has to send
  apc, akey, aread,               \* assembler: control, key, value it loaded
  ctxDone,                        \* is the shard's context done?
  handed                          \* history: buckets given to Defragment

pvars == <<pc, frag, start, cancelled>>
wvars == <<wpc, keysToSend>>
avars == <<apc, akey, aread>>
vars  == <<clock, arrivals, Mu, Buckets, keyQueue, TotalBuckets,
           WaitingBuckets, pvars, wvars, avars, ctxDone, handed>>

----------------------------------------------------------------------------
(* Data.                                                                   *)

\* The fragment of a pusher that has none.
NoFragment == [key |-> NoOne, seq |-> 0, max |-> 0]

\* A key without a bucket maps to NoBucket; deleting a key restores it.
BucketStates == {"absent", "open", "filled"}
Bucket == [state : BucketStates, frags : SUBSET Seqs, maxSeq : Seqs, last : Time]
NoBucket == [state |-> "absent", frags |-> {}, maxSeq |-> 0, last |-> 0]

Live == {k \in Keys : Buckets[k].state # "absent"}

\* The bucket push works on: the stored one, or a new empty one.
BucketFor(f) ==
  IF Buckets[f.key].state = "absent"
  THEN [NoBucket EXCEPT !.state = "open", !.maxSeq = f.max]
  ELSE Buckets[f.key]

\* Nothing reads the time of a filled bucket any more.
Sealed(b) == [b EXCEPT !.state = "filled", !.last = 0]

\* push ignores a fragment of a filled bucket, or one whose maximum differs
\* from that of the fragment that opened the bucket.
Discards(b, f) == b.state = "filled" \/ b.maxSeq # f.max

\* Time since the fragment before; a bucket without fragments has none.
Elapsed(b, t) == IF b.frags = {} THEN 0 ELSE t - b.last

Stored(b, f, t) == [b EXCEPT !.frags = @ \union {f.seq}, !.last = t]

CompleteWithLast(b) == b.maxSeq \in b.frags
Complete(b) == Cardinality(b.frags) = b.maxSeq + 1

\* What the watcher seals.
ExpiredOfAnyState(b) == b.state # "absent" /\ clock - b.last > Deadline
Expired(b) == b.state = "open" /\ clock - b.last > Deadline

----------------------------------------------------------------------------
Init ==
  /\ clock = 0
  /\ arrivals = 0
  /\ Mu = NoOne
  /\ Buckets = [k \in Keys |-> NoBucket]
  /\ keyQueue = <<>>
  /\ TotalBuckets = 0
  /\ WaitingBuckets = 0
  /\ pc = [p \in Pushers |-> "idle"]
  /\ frag = [p \in Pushers |-> NoFragment]
  /\ start = [p \in Pushers |-> 0]
  /\ cancelled = {}
  /\ wpc = "top"
  /\ keysToSend = {}
  /\ apc = "top"
  /\ akey = NoOne
  /\ aread = 0
  /\ ctxDone = FALSE
  /\ handed = <<>>

----------------------------------------------------------------------------
(* Environment: time, contexts, and packets taken from the inbox.          *)

Tick ==
  /\ clock < MaxTime
  /\ clock' = clock + 1
  /\ UNCHANGED <<arrivals, Mu, Buckets, keyQueue, TotalBuckets,
                 WaitingBuckets, pvars, wvars, avars, ctxDone, handed>>

\* A pusher that is not cancelled takes a packet, notes the time and, having
\* routed the fragment to this shard, is about to lock Mu.  The bound on the
\* clock leaves every bucket the time to expire.
Receive(p, f) ==
  /\ pc[p] = "idle"
  /\ p \notin cancelled
  /\ arrivals < MaxArrivals
  /\ clock + Deadline < MaxTime
  /\ arrivals' = arrivals + 1
  /\ frag' = [frag EXCEPT ![p] = f]
  /\ start' = [start EXCEPT ![p] = clock]
  /\ pc' = [pc EXCEPT ![p] = "lock"]
  /\ UNCHANGED <<clock, Mu, Buckets, keyQueue, TotalBuckets, WaitingBuckets,
                 cancelled, wvars, avars, ctxDone, handed>>

\* RemoveLastInstance of the processor manager cancels a pusher's context.
CancelPusher(p) ==
  /\ p \in StoppedPushers \ cancelled
  /\ cancelled' = cancelled \union {p}
  /\ UNCHANGED <<clock, arrivals, Mu, Buckets, keyQueue, TotalBuckets,
                 WaitingBuckets, pc, frag, start, wvars, avars, ctxDone, handed>>

\* removeInstance of the assembler manager cancels watcher and assembler.
CancelShard ==
  /\ StopShard
  /\ ~ctxDone
  /\ ctxDone' = TRUE
  /\ UNCHANGED <<clock, arrivals, Mu, Buckets, keyQueue, TotalBuckets,
                 WaitingBuckets, pvars, wvars, avars, handed>>

----------------------------------------------------------------------------
(* push: from Lock to the return, or to the send on keyQueue with Mu held. *)

Return(p) ==
  /\ pc' = [pc EXCEPT ![p] = "idle"]
  /\ frag' = [frag EXCEPT ![p] = NoFragment]
  /\ start' = [start EXCEPT ![p] = 0]
  /\ UNCHANGED cancelled

BlockOnSend(p) ==
  /\ Mu' = p
  /\ pc' = [pc EXCEPT ![p] = "send"]
  /\ UNCHANGED <<frag, start, cancelled>>

PushDiscard(p) ==
  /\ pc[p] = "lock"
  /\ Mu = NoOne
  /\ Discards(BucketFor(frag[p]), frag[p])
  /\ Return(p)
  /\ UNCHANGED <<clock, arrivals, Mu, Buckets, keyQueue, TotalBuckets,
                 WaitingBuckets, wvars, avars, ctxDone, handed>>

\* The fragment came too long after the one before: the bucket is sealed as
\* it is and the fragment is not stored.
PushLate(p) ==
  LET f == frag[p]
      b == BucketFor(f)
  IN  /\ pc[p] = "lock"
      /\ Mu = NoOne
      /\ ~Discards(b, f)
      /\ Elapsed(b, start[p]) > Deadline
      /\ Buckets' = [Buckets EXCEPT ![f.key] = Sealed(b)]
      /\ BlockOnSend(p)
      /\ UNCHANGED <<clock, arrivals, keyQueue, TotalBuckets, WaitingBuckets,
                     wvars, avars, ctxDone, handed>>

CountNew(f) == IF f.key \in Live THEN TotalBuckets ELSE TotalBuckets + 1

PushStore(p) ==
  LET f == frag[p]
      b == Stored(BucketFor(f), f, start[p])
  IN  /\ pc[p] = "lock"
      /\ Mu = NoOne
      /\ ~Discards(BucketFor(f), f)
      /\ Elapsed(BucketFor(f), start[p]) <= Deadline
      /\ TotalBuckets' = CountNew(f)
      /\ IF Complete(b)
         THEN /\ Buckets' = [Buckets EXCEPT ![f.key] = Sealed(b)]
              /\ BlockOnSend(p)
         ELSE /\ Buckets' = [Buckets EXCEPT ![f.key] = b]
              /\ Mu' = NoOne
              /\ Return(p)
      /\ UNCHANGED <<clock, arrivals, keyQueue, WaitingBuckets, wvars, avars,
                     ctxDone, handed>>

\* The select at the end of push: send the key, then count it and unlock ...
PushSend(p) ==
  /\ pc[p] = "send"
  /\ Len(keyQueue) < KeyQueueCap
  /\ keyQueue' = Append(keyQueue, frag[p].key)
  /\ pc' = [pc EXCEPT ![p] = "count"]
  /\ UNCHANGED <<clock, arrivals, Mu, Buckets, TotalBuckets, WaitingBuckets,
                 frag, start, cancelled, wvars, avars, ctxDone, handed>>

PushCount(p) ==
  /\ pc[p] = "count"
  /\ WaitingBuckets' = WaitingBuckets + 1
  /\ Mu' = NoOne
  /\ Return(p)
  /\ UNCHANGED <<clock, arrivals, Buckets, keyQueue, TotalBuckets, wvars,
                 avars, ctxDone, handed>>

\* ... or give up because the pusher's context is done.  The bucket stays
\* filled and no key announces it.
PushAbort(p) ==
  /\ pc[p] = "send"
  /\ p \in cancelled
  /\ Mu' = NoOne
  /\ Return(p)
  /\ UNCHANGED <<clock, arrivals, Buckets, keyQueue, TotalBuckets,
                 WaitingBuckets, wvars, avars, ctxDone, handed>>

----------------------------------------------------------------------------
(* StartTimeoutWatcher.                                                    *)

WatchTop ==
  /\ wpc = "top"
  /\ wpc' = IF ctxDone THEN "exit" ELSE "asleep"
  /\ UNCHANGED <<clock, arrivals, Mu, Buckets, keyQueue, TotalBuckets,
                 WaitingBuckets, pvars, keysToSend, avars, ctxDone, handed>>

\* Wakes up and, under Mu, seals every bucket that expired.
WatchScan ==
  LET expired == {k \in Keys : Expired(Buckets[k])}
  IN  /\ wpc = "asleep"
      /\ Mu = NoOne
      /\ Buckets' = [k \in Keys |-> IF k \in expired THEN Sealed(Buckets[k])
                                    ELSE Buckets[k]]
      /\ keysToSend' = expired
      /\ wpc' = IF expired = {} THEN "top" ELSE "send"
      /\ UNCHANGED <<clock, arrivals, Mu, keyQueue, TotalBuckets,
                     WaitingBuckets, pvars, avars, ctxDone, handed>>

WatchSend(k) ==
  /\ wpc = "send"
  /\ k \in keysToSend
  /\ Len(keyQueue) < KeyQueueCap
  /\ keyQueue' = Append(keyQueue, k)
  /\ keysToSend' = keysToSend \ {k}
  /\ wpc' = "count"
  /\ UNCHANGED <<clock, arrivals, Mu, Buckets, TotalBuckets, WaitingBuckets,
                 pvars, avars, ctxDone, handed>>

WatchCountFirst ==
  /\ wpc = "count"
  /\ WaitingBuckets' = WaitingBuckets + 1
  /\ wpc' = "top"
  /\ keysToSend' = {}
  /\ UNCHANGED <<clock, arrivals, Mu, Buckets, keyQueue, TotalBuckets,
                 pvars, avars, ctxDone, handed>>

WatchForgetCount ==
  /\ wpc = "count"
  /\ wpc' = IF keysToSend = {} THEN "top" ELSE "send"
  /\ UNCHANGED <<clock, arrivals, Mu, Buckets, keyQueue, TotalBuckets,
                 WaitingBuckets, pvars, keysToSend, avars, ctxDone, handed>>

\* The metric follows the send, and Mu is not held.
WatchCount ==
  /\ wpc = "count"
  /\ WaitingBuckets' = WaitingBuckets + 1
  /\ wpc' = IF keysToSend = {} THEN "top" ELSE "send"
  /\ UNCHANGED <<clock, arrivals, Mu, Buckets, keyQueue, TotalBuckets,
                 pvars, keysToSend, avars, ctxDone, handed>>

WatchAbort ==
  /\ wpc = "send"
  /\ ctxDone
  /\ keysToSend' = {}
  /\ wpc' = "top"
  /\ UNCHANGED <<clock, arrivals, Mu, Buckets, keyQueue, TotalBuckets,
                 WaitingBuckets, pvars, avars, ctxDone, handed>>

----------------------------------------------------------------------------
(* The assembler: PopKey, then DrainBucket.                                *)

AsmTop ==
  /\ apc = "top"
  /\ apc' = IF ctxDone THEN "exit" ELSE "pop"
  /\ UNCHANGED <<clock, arrivals, Mu, Buckets, keyQueue, TotalBuckets,
                 WaitingBuckets, pvars, wvars, akey, aread, ctxDone, handed>>

AsmPop ==
  /\ apc = "pop"
  /\ keyQueue # <<>>
  /\ akey' = Head(keyQueue)
  /\ keyQueue' = Tail(keyQueue)
  /\ apc' = "lock"
  /\ UNCHANGED <<clock, arrivals, Mu, Buckets, TotalBuckets, WaitingBuckets,
                 pvars, wvars, aread, ctxDone, handed>>

AsmPopDone ==
  /\ apc = "pop"
  /\ ctxDone
  /\ apc' = "top"
  /\ UNCHANGED <<clock, arrivals, Mu, Buckets, keyQueue, TotalBuckets,
                 WaitingBuckets, pvars, wvars, akey, aread, ctxDone, handed>>

\* Subtract(&WaitingBuckets, 1, 1) under Mu: load, then one compare-and-swap.
AsmLoad ==
  /\ apc = "lock"
  /\ Mu = NoOne
  /\ Mu' = Assembler
  /\ aread' = WaitingBuckets
  /\ apc' = "subtract"
  /\ UNCHANGED <<clock, arrivals, Buckets, keyQueue, TotalBuckets,
                 WaitingBuckets, pvars, wvars, akey, ctxDone, handed>>

Subtract(loaded, now) ==
  IF loaded = 0 \/ now # loaded THEN now ELSE now - 1

AsmSubtract ==
  /\ apc = "subtract"
  /\ WaitingBuckets' = Subtract(aread, WaitingBuckets)
  /\ Mu' = NoOne
  /\ apc' = "drain"
  /\ aread' = 0
  /\ UNCHANGED <<clock, arrivals, Buckets, keyQueue, TotalBuckets, pvars,
                 wvars, akey, ctxDone, handed>>

\* DrainBucket.  When the key has no bucket it unlocks Mu twice, which ends
\* the process.
AsmDrain ==
  /\ apc = "drain"
  /\ Mu = NoOne
  /\ IF akey \in Live
     THEN /\ handed' = Append(handed, [key    |-> akey,
                                       frags  |-> Buckets[akey].frags,
                                       maxSeq |-> Buckets[akey].maxSeq])
          /\ Buckets' = [Buckets EXCEPT ![akey] = NoBucket]
          /\ TotalBuckets' = IF TotalBuckets = 0 THEN 0 ELSE TotalBuckets - 1
          /\ apc' = "top"
     ELSE /\ apc' = "fatal"
          /\ UNCHANGED <<handed, Buckets, TotalBuckets>>
  /\ akey' = NoOne
  /\ UNCHANGED <<clock, arrivals, Mu, keyQueue, WaitingBuckets, pvars, wvars,
                 aread, ctxDone>>

----------------------------------------------------------------------------
Push(p) == \/ PushDiscard(p) \/ PushLate(p) \/ PushStore(p)
           \/ PushSend(p) \/ PushCount(p) \/ PushAbort(p)

Watcher == \/ WatchTop \/ WatchScan \/ WatchCount \/ WatchAbort
           \/ \E k \in Keys : WatchSend(k)

AssemblerStep == \/ AsmTop \/ AsmPop \/ AsmPopDone \/ AsmLoad
                 \/ AsmSubtract \/ AsmDrain

Next ==
  /\ apc # "fatal"
  /\ \/ Tick
     \/ \E p \in Pushers : (\E f \in Traffic[p] : Receive(p, f)) \/ CancelPusher(p) \/ Push(p)
     \/ CancelShard
     \/ Watcher
     \/ AssemblerStep

Spec == Init /\ [][Next]_vars

\* Every goroutine that can take a step eventually takes it, and time passes.
Fairness ==
  /\ WF_vars(Tick)
  /\ \A p \in Pushers : WF_vars(Push(p))
  /\ WF_vars(Watcher)
  /\ WF_vars(AssemblerStep)

FairSpec == Spec /\ Fairness

----------------------------------------------------------------------------
(* Who has the key that announces a filled bucket.                         *)

Sending(p) == pc[p] \in {"send", "count"}

Queued(k)      == \E i \in 1 .. Len(keyQueue) : keyQueue[i] = k
AtPusher(k)    == \E p \in Pushers : pc[p] = "send" /\ frag[p].key = k
AtWatcher(k)   == k \in keysToSend
AtAssembler(k) == akey = k

Announced(k) == Queued(k) \/ AtPusher(k) \/ AtWatcher(k) \/ AtAssembler(k)

----------------------------------------------------------------------------
(* Invariants.                                                             *)

\* Type invariant: the range of every variable; a goroutine that has no
\* fragment or key holds none.
TypeOK ==
  /\ clock \in Time
  /\ arrivals \in Nat
  /\ Mu \in Pushers \union {NoOne, Assembler}
  /\ Buckets \in [Keys -> Bucket]
  /\ keyQueue \in Seq(Keys)
  /\ Len(keyQueue) <= KeyQueueCap
  /\ TotalBuckets \in Nat
  /\ WaitingBuckets \in Nat
  /\ pc \in [Pushers -> {"idle", "lock", "send", "count"}]
  /\ frag \in [Pushers -> Fragments \union {NoFragment}]
  /\ start \in [Pushers -> Time]
  /\ \A p \in Pushers : pc[p] # "idle" => frag[p] \in Fragments
  /\ cancelled \subseteq Pushers
  /\ wpc \in {"top", "asleep", "send", "count", "exit"}
  /\ keysToSend \subseteq Keys
  /\ apc \in {"top", "pop", "lock", "subtract", "drain", "exit", "fatal"}
  /\ akey \in Keys \union {NoOne}
  /\ akey \in Keys <=> apc \in {"lock", "subtract", "drain"}
  /\ aread \in Nat
  /\ ctxDone \in BOOLEAN
  /\ handed \in Seq([key : Keys, frags : SUBSET Seqs, maxSeq : Seqs])

\* A key that some goroutine or the channel holds is the key of a filled
\* bucket, and it is held in one place only: keyQueue has no duplicates, and
\* pusher, watcher, assembler and keyQueue never hold the same key.
KeyAnnouncedOnce ==
  /\ \A k \in Keys : Announced(k) => Buckets[k].state = "filled"
  /\ \A i, j \in 1 .. Len(keyQueue) : keyQueue[i] = keyQueue[j] => i = j
  /\ \A p, q \in Pushers : Sending(p) /\ Sending(q) => p = q
  /\ \A k \in Keys :
       /\ Queued(k)   => ~AtPusher(k) /\ ~AtWatcher(k) /\ ~AtAssembler(k)
       /\ AtPusher(k) => ~AtWatcher(k) /\ ~AtAssembler(k)
       /\ AtWatcher(k) => ~AtAssembler(k)

\* DrainBucket always finds the bucket of the key it was given, so the
\* double unlock of its not-found path is never reached.
DrainFindsBucket == apc # "fatal"

\* A filled bucket is announced to the assembler, unless a context was
\* cancelled: then the select in push or in the watcher may give up.
FilledIsAnnounced ==
  cancelled = {} /\ ~ctxDone =>
    \A k \in Keys : Buckets[k].state = "filled" => Announced(k)

\* The metric on which a removal waits first counts the stored buckets.
TotalCountsBuckets == TotalBuckets = Cardinality(Live)

\* The metric on which a removal waits next never counts fewer keys than are
\* queued, but for one the watcher and one a pusher has sent and not yet
\* counted.
WaitingCoversQueue ==
  Len(keyQueue) + (IF apc \in {"lock", "subtract"} THEN 1 ELSE 0)
    <= WaitingBuckets + (IF wpc = "count" THEN 1 ELSE 0)
                      + (IF \E p \in Pushers : pc[p] = "count" THEN 1 ELSE 0)

\* What the assembler is given has a fragment and no sequence number above
\* the maximum, so Defragment neither fails nor writes past the end.
HandedIsAssemblable ==
  \A i \in 1 .. Len(handed) :
    handed[i].frags # {} /\ handed[i].frags \subseteq 0 .. handed[i].maxSeq

----------------------------------------------------------------------------
(* Action properties.                                                      *)

\* Once filled, a bucket does not change until the assembler takes it, and
\* then it is handed over as it was.
FilledIsFrozen ==
  [][\A k \in Keys : Buckets[k].state = "filled" /\ Buckets'[k] # Buckets[k] =>
       /\ Buckets'[k] = NoBucket
       /\ handed' = Append(handed, [key    |-> k,
                                    frags  |-> Buckets[k].frags,
                                    maxSeq |-> Buckets[k].maxSeq])]_vars

\* A bucket is filled only when it has every sequence number up to its
\* maximum, or when more than the deadline has passed since the fragment
\* stored last was taken from the inbox.
SealedWhenDue ==
  [][\A k \in Keys : Buckets[k].state # "filled" /\ Buckets'[k].state = "filled" =>
       \/ Buckets'[k].frags = 0 .. Buckets'[k].maxSeq
       \/ clock - Buckets[k].last > Deadline]_vars

----------------------------------------------------------------------------
(* Refinement.                                                             *)

\* The shard's map as the abstract store: when the last fragment came is of
\* no interest to the users of a shard.
R == INSTANCE Reassembly
       WITH store <- [k \in Keys |-> [state  |-> Buckets[k].state,
                                      frags  |-> Buckets[k].frags,
                                      maxSeq |-> Buckets[k].maxSeq]]

\* Locks, channel, watcher and assembler together behave as the abstract
\* store: push adds a fragment or seals, the watcher seals, DrainBucket takes
\* a sealed bucket; nothing else touches a bucket.
ImplementsReassembly == R!RSpec

----------------------------------------------------------------------------
(* Liveness, under FairSpec.                                               *)

\* push waits for room in keyQueue with Mu held (queue.go:99-105), keyQueue is
\* full, and its only reader waits for Mu: only the pusher's context ends this.
Jammed ==
  /\ \E p \in Pushers \ cancelled : pc[p] = "send"
  /\ Len(keyQueue) = KeyQueueCap /\ apc \in {"lock", "drain"}

\* Every bucket reaches the assembler, unless a processor or the shard is
\* told to stop or the shard jams: as fragments do not come forever, the map is
\* empty in the end.
BucketIsHanded ==
  Live # {} ~> Live = {} \/ cancelled # {} \/ ctxDone \/ Jammed

----------------------------------------------------------------------------
(* What comments and documents say, and the code does not do.              *)

\* runtime.go: the watcher "ensures buckets that exceed deadline are marked
\* filled".
ExpiredIsFilled ==
  \A k \in Keys : Expired(Buckets[k]) ~> (Buckets[k].state # "open")

============================================================================
