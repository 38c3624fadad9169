---------------------------- MODULE ShardProofs ----------------------------
(***************************************************************************)
(* What Shard guarantees for any number of pushers, keys and fragments,    *)
(* any channel capacity and any deadline: its types, the way of a key from *)
(* the goroutine that seals a bucket to the assembler, and the metrics.    *)
(***************************************************************************)
EXTENDS Shard, FiniteSetTheorems, TLAPS

----------------------------------------------------------------------------
(* The operators on buckets.                                               *)

\* A fragment's key, sequence number and maximum are in range, and the bucket
\* push works on is a bucket that is not absent.
LEMMA BucketForType ==
  ASSUME Buckets \in [Keys -> Bucket], NEW f \in Fragments
  PROVE  /\ f.key \in Keys /\ f.seq \in Seqs /\ f.max \in Seqs /\ f.seq <= f.max
         /\ BucketFor(f) \in Bucket
         /\ BucketFor(f).state # "absent"
<1>1. 0 \in Seqs /\ 0 \in Time
  BY ShardAssumption DEF Seqs, Time
<1>2. f.key \in Keys /\ f.seq \in Seqs /\ f.max \in Seqs /\ f.seq <= f.max
  BY DEF Fragments
<1>3. CASE Buckets[f.key].state = "absent"
  <2>1. BucketFor(f) = [state |-> "open", frags |-> {}, maxSeq |-> f.max, last |-> 0]
    BY Zenon, <1>3 DEF BucketFor, NoBucket
  <2> QED
    BY <1>1, <1>2, <2>1 DEF Bucket, BucketStates
<1>4. CASE Buckets[f.key].state # "absent"
  BY <1>2, <1>4 DEF BucketFor
<1> QED
  BY <1>2, <1>3, <1>4

\* What a pusher takes from the inbox is a fragment.
LEMMA TrafficFits == \A p \in Pushers : \A f \in Traffic[p] : f \in Fragments
BY ZenonT(30), ShardAssumption

\* Sealing or storing changes the fields it names and no other.
LEMMA SealedFields ==
  ASSUME NEW b \in Bucket
  PROVE  Sealed(b) = [state |-> "filled", frags |-> b.frags,
                      maxSeq |-> b.maxSeq, last |-> 0]
<1> DEFINE c == [b EXCEPT !.state = "filled"]
<1>1. c = [state |-> "filled", frags |-> b.frags, maxSeq |-> b.maxSeq, last |-> b.last]
  BY DEF Bucket
<1> HIDE DEF c
<1>2. [c EXCEPT !.last = 0] = [state |-> "filled", frags |-> b.frags,
                               maxSeq |-> b.maxSeq, last |-> 0]
  BY <1>1
<1>3. Sealed(b) = [c EXCEPT !.last = 0]
  BY DEF Sealed, c, Bucket
<1> QED
  BY <1>2, <1>3

LEMMA StoredFields ==
  ASSUME NEW b \in Bucket, NEW f \in Fragments, NEW t \in Time
  PROVE  Stored(b, f, t) = [state |-> b.state, frags |-> b.frags \union {f.seq},
                            maxSeq |-> b.maxSeq, last |-> t]
<1> DEFINE c == [b EXCEPT !.frags = b.frags \union {f.seq}]
<1>1. c = [state |-> b.state, frags |-> b.frags \union {f.seq},
           maxSeq |-> b.maxSeq, last |-> b.last]
  BY DEF Bucket
<1> HIDE DEF c
<1>2. [c EXCEPT !.last = t] = [state |-> b.state, frags |-> b.frags \union {f.seq},
                               maxSeq |-> b.maxSeq, last |-> t]
  BY <1>1
<1>3. Stored(b, f, t) = [c EXCEPT !.last = t]
  BY DEF Stored, c, Bucket
<1> QED
  BY <1>2, <1>3

LEMMA BucketTypes ==
  ASSUME NEW b \in Bucket, NEW f \in Fragments, NEW t \in Time
  PROVE  /\ Sealed(b) \in Bucket
         /\ Stored(b, f, t) \in Bucket
         /\ Sealed(Stored(b, f, t)) \in Bucket
<1>1. f.seq \in Seqs /\ 0 \in Time
  BY ShardAssumption DEF Fragments, Time
<1>2. Sealed(b) \in Bucket
  BY <1>1, SealedFields DEF Bucket, BucketStates
<1>3. Stored(b, f, t) \in Bucket
  BY <1>1, StoredFields DEF Bucket
<1>4. Sealed(Stored(b, f, t)) \in Bucket
  BY <1>1, <1>3, SealedFields DEF Bucket, BucketStates
<1> QED
  BY <1>2, <1>3, <1>4

LEMMA NoBucketType == NoBucket \in Bucket
BY ShardAssumption DEF NoBucket, Bucket, BucketStates, Seqs, Time

----------------------------------------------------------------------------
(* Type correctness.                                                       *)

\* The type invariant holds in the initial state ...
LEMMA InitType == Init => TypeOK
<1> SUFFICES ASSUME Init PROVE TypeOK
  OBVIOUS
<1>1. Buckets \in [Keys -> Bucket]
  BY NoBucketType DEF Init
<1>2. start \in [Pushers -> Time] /\ clock \in Time
  BY ShardAssumption DEF Init, Time
<1>3. keyQueue \in Seq(Keys) /\ Len(keyQueue) <= KeyQueueCap
  BY ShardAssumption DEF Init
<1>4. handed \in Seq([key : Keys, frags : SUBSET Seqs, maxSeq : Seqs])
  BY DEF Init
<1>5. akey \in Keys <=> apc \in {"lock", "subtract", "drain"}
  BY ShardAssumption DEF Init
<1> QED
  BY Zenon, <1>1, <1>2, <1>3, <1>4, <1>5 DEF Init, TypeOK

\* ... and every step of every goroutine preserves it.
LEMMA NextType == TypeOK /\ [Next]_vars => TypeOK'
<1> SUFFICES ASSUME TypeOK, [Next]_vars PROVE TypeOK'
  OBVIOUS
<1>1. CASE Tick
  BY <1>1, ShardAssumption DEF Tick, TypeOK, Time, pvars, wvars, avars
<1>2. ASSUME NEW p \in Pushers, NEW f \in Fragments, Receive(p, f) PROVE TypeOK'
  BY <1>2 DEF Receive, TypeOK, wvars, avars
<1>3. ASSUME NEW p \in Pushers, CancelPusher(p) PROVE TypeOK'
  BY <1>3, ShardAssumption DEF CancelPusher, TypeOK, wvars, avars
<1>4. CASE CancelShard
  BY <1>4 DEF CancelShard, TypeOK, pvars, wvars, avars
<1>5. ASSUME NEW p \in Pushers, PushDiscard(p) PROVE TypeOK'
  BY <1>5, ShardAssumption DEF PushDiscard, Return, TypeOK, Time, wvars, avars
<1>6. ASSUME NEW p \in Pushers, PushLate(p) PROVE TypeOK'
  <2>1. frag[p] \in Fragments
    BY <1>6 DEF PushLate, TypeOK
  <2>2. Buckets' \in [Keys -> Bucket]
    BY <1>6, <2>1, BucketForType, BucketTypes DEF PushLate, TypeOK
  <2> QED
    BY <1>6, <2>1, <2>2 DEF PushLate, BlockOnSend, TypeOK, wvars, avars
<1>7. ASSUME NEW p \in Pushers, PushStore(p) PROVE TypeOK'
  <2>1. frag[p] \in Fragments /\ start[p] \in Time
    BY <1>7 DEF PushStore, TypeOK
  <2>2. Buckets' \in [Keys -> Bucket]
    <3>1. /\ BucketFor(frag[p]) \in Bucket
          /\ Buckets \in [Keys -> Bucket]
          /\ frag[p].key \in Keys
      BY <2>1, BucketForType DEF TypeOK
    <3>2. /\ Stored(BucketFor(frag[p]), frag[p], start[p]) \in Bucket
          /\ Sealed(Stored(BucketFor(frag[p]), frag[p], start[p])) \in Bucket
      BY <2>1, <3>1, BucketTypes
    <3> QED
      BY <1>7, <3>1, <3>2 DEF PushStore
  <2>3. TotalBuckets' \in Nat
    BY SMTT(30), <1>7 DEF PushStore, CountNew, TypeOK
  <2>4. BlockOnSend(p) \/ (Mu' = NoOne /\ Return(p))
    BY <1>7 DEF PushStore
  <2>5. UNCHANGED <<clock, arrivals, keyQueue, WaitingBuckets, wvars, avars, ctxDone, handed>>
    BY <1>7 DEF PushStore
  <2>6. CASE BlockOnSend(p)
    BY SMTT(30), <2>1, <2>2, <2>3, <2>5, <2>6 DEF BlockOnSend, TypeOK, wvars, avars
  <2>7. CASE Mu' = NoOne /\ Return(p)
    BY <2>2, <2>3, <2>5, <2>7, ShardAssumption DEF Return, TypeOK, Time, wvars, avars
  <2> QED
    BY <2>4, <2>6, <2>7
<1>8. ASSUME NEW p \in Pushers, PushSend(p) PROVE TypeOK'
  <2>1. frag[p].key \in Keys
    BY <1>8 DEF PushSend, TypeOK, Fragments
  <2> QED
    BY <1>8, <2>1, ShardAssumption DEF PushSend, TypeOK, wvars, avars
<1>9. ASSUME NEW p \in Pushers, PushCount(p) PROVE TypeOK'
  BY <1>9, ShardAssumption DEF PushCount, Return, TypeOK, Time, wvars, avars
<1>10. ASSUME NEW p \in Pushers, PushAbort(p) PROVE TypeOK'
  BY <1>10, ShardAssumption DEF PushAbort, Return, TypeOK, Time, wvars, avars
<1>11. CASE WatchTop
  BY <1>11 DEF WatchTop, TypeOK, pvars, avars
<1>12. CASE WatchScan
  <2>0. 0 \in Time
    BY ShardAssumption DEF Time
  <2>1. Buckets' \in [Keys -> Bucket]
    BY <1>12, <2>0, SealedFields DEF WatchScan, TypeOK, Bucket, BucketStates
  <2> QED
    BY <1>12, <2>1 DEF WatchScan, TypeOK, pvars, avars
<1>13. ASSUME NEW k \in Keys, WatchSend(k) PROVE TypeOK'
  BY <1>13, ShardAssumption DEF WatchSend, TypeOK, pvars, avars
<1>14. CASE WatchCount
  BY <1>14 DEF WatchCount, TypeOK, pvars, avars
<1>15. CASE WatchAbort
  BY <1>15 DEF WatchAbort, TypeOK, pvars, avars
<1>16. CASE AsmTop
  BY <1>16 DEF AsmTop, TypeOK, pvars, wvars
<1>17. CASE AsmPop
  BY <1>17, ShardAssumption DEF AsmPop, TypeOK, pvars, wvars
<1>18. CASE AsmPopDone
  BY <1>18 DEF AsmPopDone, TypeOK, pvars, wvars
<1>19. CASE AsmLoad
  BY <1>19 DEF AsmLoad, TypeOK, pvars, wvars
<1>20. CASE AsmSubtract
  BY <1>20 DEF AsmSubtract, Subtract, TypeOK, pvars, wvars
<1>21. CASE AsmDrain
  <2>1. akey \in Keys /\ Buckets[akey] \in Bucket
    BY <1>21 DEF AsmDrain, TypeOK
  <2>2. [key |-> akey, frags |-> Buckets[akey].frags, maxSeq |-> Buckets[akey].maxSeq]
          \in [key : Keys, frags : SUBSET Seqs, maxSeq : Seqs]
    BY <2>1 DEF Bucket
  <2>3. handed' \in Seq([key : Keys, frags : SUBSET Seqs, maxSeq : Seqs])
    <3> DEFINE H == [key : Keys, frags : SUBSET Seqs, maxSeq : Seqs]
               h == [key    |-> akey,
                     frags  |-> Buckets[akey].frags,
                     maxSeq |-> Buckets[akey].maxSeq]
    <3>1. handed \in Seq(H) /\ h \in H
      BY <2>2 DEF TypeOK
    <3>2. handed' = Append(handed, h) \/ handed' = handed
      BY <1>21 DEF AsmDrain
    <3> HIDE DEF H, h
    <3>3. handed' \in Seq(H)
      BY <3>1, <3>2
    <3> QED
      BY <3>3 DEF H
  <2>4. Buckets' \in [Keys -> Bucket] /\ TotalBuckets' \in Nat
    <3>1. \/ Buckets' = [Buckets EXCEPT ![akey] = NoBucket]
          \/ Buckets' = Buckets
      BY <1>21 DEF AsmDrain
    <3>2. \/ TotalBuckets' = IF TotalBuckets = 0 THEN 0 ELSE TotalBuckets - 1
          \/ TotalBuckets' = TotalBuckets
      BY <1>21 DEF AsmDrain
    <3> QED
      BY SMTT(30), <2>1, <3>1, <3>2, NoBucketType DEF TypeOK
  <2> QED
    BY SMTT(30), <1>21, <2>3, <2>4, ShardAssumption DEF AsmDrain, TypeOK, pvars, wvars
<1>22. CASE UNCHANGED vars
  BY <1>22 DEF vars, TypeOK, pvars, wvars, avars
<1> QED
  BY SMTT(30), TrafficFits, <1>1, <1>2, <1>3, <1>4, <1>5, <1>6, <1>7, <1>8, <1>9, <1>10, <1>11, <1>12,
     <1>13, <1>14, <1>15, <1>16, <1>17, <1>18, <1>19, <1>20, <1>21, <1>22
  DEF Next, Push, Watcher, AssemblerStep

\* Type correctness: no step of push, watcher or assembler leaves the ranges
\* of TypeOK; keyQueue never exceeds its capacity, the metrics never wrap.
THEOREM TypeCorrect == Spec => []TypeOK
BY InitType, NextType, PTL DEF Spec

----------------------------------------------------------------------------
(* A key is announced once.                                                *)
(*                                                                         *)
(* KeyAnnouncedOnce is not inductive on its own: that two pushers never    *)
(* have a key to send at the same time rests on the mutex.                 *)

\* A pusher that sends or counts, and the assembler while it subtracts, hold
\* the mutex.
MutexHeld ==
  /\ \A p \in Pushers : Sending(p) => Mu = p
  /\ apc = "subtract" => Mu = Assembler

LEMMA NextMutex == TypeOK /\ MutexHeld /\ [Next]_vars => MutexHeld'
<1> SUFFICES ASSUME TypeOK, MutexHeld, [Next]_vars PROVE MutexHeld'
  OBVIOUS
<1> USE ShardAssumption DEF TypeOK, MutexHeld, Sending
<1>1. CASE Tick
  BY <1>1 DEF Tick, pvars, avars
<1>2. ASSUME NEW p \in Pushers, NEW f \in Fragments, Receive(p, f) PROVE MutexHeld'
  BY <1>2 DEF Receive, avars
<1>3. ASSUME NEW p \in Pushers, CancelPusher(p) PROVE MutexHeld'
  BY <1>3 DEF CancelPusher, avars
<1>4. CASE CancelShard
  BY <1>4 DEF CancelShard, pvars, avars
<1>5. ASSUME NEW p \in Pushers, PushDiscard(p) PROVE MutexHeld'
  BY ZenonT(30), <1>5 DEF PushDiscard, Return, avars
<1>6. ASSUME NEW p \in Pushers, PushLate(p) PROVE MutexHeld'
  BY <1>6 DEF PushLate, BlockOnSend, avars
<1>7. ASSUME NEW p \in Pushers, PushStore(p) PROVE MutexHeld'
  <2>1. BlockOnSend(p) \/ (Mu' = NoOne /\ Return(p))
    BY Zenon, <1>7 DEF PushStore
  <2>2. Mu = NoOne /\ UNCHANGED apc
    BY <1>7 DEF PushStore, avars
  <2> QED
    BY ZenonT(30), <2>1, <2>2 DEF BlockOnSend, Return
<1>8. ASSUME NEW p \in Pushers, PushSend(p) PROVE MutexHeld'
  BY <1>8 DEF PushSend, avars
<1>9. ASSUME NEW p \in Pushers, PushCount(p) PROVE MutexHeld'
  BY <1>9 DEF PushCount, Return, avars
<1>10. ASSUME NEW p \in Pushers, PushAbort(p) PROVE MutexHeld'
  BY <1>10 DEF PushAbort, Return, avars
<1>11. CASE Watcher
  BY ZenonT(30), <1>11 DEF Watcher, WatchTop, WatchScan, WatchSend, WatchCount, WatchAbort,
               pvars, avars
<1>12. CASE AssemblerStep
  BY <1>12 DEF AssemblerStep, AsmTop, AsmPop, AsmPopDone, AsmLoad, AsmSubtract,
               AsmDrain, pvars
<1>13. CASE UNCHANGED vars
  BY <1>13 DEF vars, pvars, avars
<1> QED
  BY SMTT(30), <1>1, <1>2, <1>3, <1>4, <1>5, <1>6, <1>7, <1>8, <1>9, <1>10, <1>11, <1>12,
     <1>13
  DEF Next, Push

\* push stores into, or seals, only buckets that are not filled.
LEMMA NotDiscarded ==
  ASSUME Buckets \in [Keys -> Bucket], NEW f \in Fragments,
         ~Discards(BucketFor(f), f)
  PROVE  /\ BucketFor(f).state = "open"
         /\ Buckets[f.key].state \in {"absent", "open"}
         /\ BucketFor(f).maxSeq = f.max
<1>1. f.key \in Keys /\ BucketFor(f) \in Bucket /\ BucketFor(f).state # "absent"
  BY BucketForType
<1>2. BucketFor(f).state = "open" /\ BucketFor(f).maxSeq = f.max
  BY Zenon, <1>1 DEF Discards, Bucket, BucketStates
<1> QED
  BY <1>1, <1>2 DEF BucketFor, Bucket, BucketStates

\* A step that gives no goroutine a new key and leaves map and channel alone
\* preserves KeyAnnouncedOnce.
LEMMA FrameAnnounced ==
  ASSUME TypeOK, KeyAnnouncedOnce,
         UNCHANGED <<Buckets, keyQueue, keysToSend, akey>>,
         \A q \in Pushers : pc'[q] = "send" => pc[q] = "send" /\ frag'[q] = frag[q],
         \A q \in Pushers : Sending(q)' => Sending(q)
  PROVE  KeyAnnouncedOnce'
<1>1. \A k \in Keys : /\ Queued(k)' <=> Queued(k)
                      /\ AtPusher(k)' => AtPusher(k)
                      /\ AtWatcher(k)' <=> AtWatcher(k)
                      /\ AtAssembler(k)' <=> AtAssembler(k)
  BY DEF Queued, AtPusher, AtWatcher, AtAssembler
<1> QED
  BY Zenon, <1>1 DEF KeyAnnouncedOnce, Announced

\* A pusher that found the mutex free seals the bucket of its key and gets
\* the key to send.
LEMMA BlockAnnounced ==
  ASSUME TypeOK, MutexHeld, KeyAnnouncedOnce, Mu = NoOne,
         NEW p \in Pushers, frag[p] \in Fragments, BlockOnSend(p),
         Buckets[frag[p].key].state # "filled",
         NEW b, b.state = "filled", Buckets' = [Buckets EXCEPT ![frag[p].key] = b],
         UNCHANGED <<keyQueue, keysToSend, akey>>
  PROVE  KeyAnnouncedOnce'
<1> DEFINE k0 == frag[p].key
<1>1. k0 \in Keys
  BY DEF Fragments
<1>2. \A q \in Pushers : ~Sending(q)
  BY ShardAssumption DEF MutexHeld
<1>3. \A k \in Keys : ~AtPusher(k)
  BY <1>2 DEF AtPusher, Sending
<1>4. ~Announced(k0)
  BY ZenonT(30), <1>1 DEF KeyAnnouncedOnce
<1>5. \A k \in Keys : /\ Queued(k)' <=> Queued(k)
                      /\ AtPusher(k)' <=> k = k0
                      /\ AtWatcher(k)' <=> AtWatcher(k)
                      /\ AtAssembler(k)' <=> AtAssembler(k)
  BY <1>1, <1>2 DEF Queued, AtPusher, AtWatcher, AtAssembler, BlockOnSend,
                    Sending, TypeOK
<1>6. \A q \in Pushers : Sending(q)' => q = p
  BY ZenonT(30), <1>2 DEF BlockOnSend, Sending, TypeOK
<1>7. \A k \in Keys : Announced(k)' => Buckets'[k].state = "filled"
  BY <1>1, <1>4, <1>5 DEF KeyAnnouncedOnce, Announced, TypeOK
<1>8. \A k \in Keys : Queued(k)' \/ AtWatcher(k)' \/ AtAssembler(k)' => ~AtPusher(k)'
  BY Zenon, <1>4, <1>5 DEF Announced
<1> HIDE DEF k0
<1> QED
  BY <1>5, <1>6, <1>7, <1>8 DEF KeyAnnouncedOnce

\* Appending a key the queue does not hold.
LEMMA AppendQueued ==
  ASSUME keyQueue \in Seq(Keys), NEW k0 \in Keys, keyQueue' = Append(keyQueue, k0)
  PROVE  /\ \A k \in Keys : Queued(k)' <=> Queued(k) \/ k = k0
         /\ /\ ~Queued(k0)
            /\ \A i, j \in 1 .. Len(keyQueue) : keyQueue[i] = keyQueue[j] => i = j
            => \A i, j \in 1 .. Len(keyQueue') : keyQueue'[i] = keyQueue'[j] => i = j
<1>1. /\ Len(keyQueue') = Len(keyQueue) + 1
      /\ Len(keyQueue) \in Nat
      /\ \A i \in 1 .. Len(keyQueue) : keyQueue'[i] = keyQueue[i]
      /\ keyQueue'[Len(keyQueue) + 1] = k0
  OBVIOUS
<1> QED
  BY <1>1 DEF Queued

\* Every step preserves KeyAnnouncedOnce: a key is created when a bucket is
\* sealed, and from then on it moves.
LEMMA NextAnnounced ==
  TypeOK /\ MutexHeld /\ KeyAnnouncedOnce /\ [Next]_vars => KeyAnnouncedOnce'
<1> SUFFICES ASSUME TypeOK, MutexHeld, KeyAnnouncedOnce, [Next]_vars
             PROVE  KeyAnnouncedOnce'
  BY Zenon
<1>1. ASSUME UNCHANGED <<Buckets, keyQueue, pc, frag, keysToSend, akey>>
      PROVE  KeyAnnouncedOnce'
  BY <1>1, FrameAnnounced DEF Sending
<1>2. CASE Tick \/ CancelShard \/ \E p \in Pushers : CancelPusher(p)
  BY Zenon, <1>1, <1>2 DEF Tick, CancelShard, CancelPusher, pvars, wvars, avars
<1>3. CASE WatchTop \/ WatchCount \/ AsmTop \/ AsmPopDone \/ AsmLoad \/ AsmSubtract
  BY Zenon, <1>1, <1>3 DEF WatchTop, WatchCount, AsmTop, AsmPopDone, AsmLoad,
                    AsmSubtract, pvars, wvars, avars
<1>4. ASSUME NEW p \in Pushers, NEW f \in Fragments, Receive(p, f)
      PROVE  KeyAnnouncedOnce'
  BY ZenonT(30), <1>4, FrameAnnounced DEF Receive, TypeOK, Sending, wvars, avars
<1>5. ASSUME NEW p \in Pushers, PushDiscard(p) \/ PushCount(p) \/ PushAbort(p)
      PROVE  KeyAnnouncedOnce'
  BY <1>5, FrameAnnounced
  DEF PushDiscard, PushCount, PushAbort, Return, TypeOK, Sending, wvars, avars
<1>6. ASSUME NEW p \in Pushers, PushLate(p) PROVE KeyAnnouncedOnce'
  <2>1. frag[p] \in Fragments /\ Buckets \in [Keys -> Bucket]
    BY <1>6 DEF PushLate, TypeOK
  <2>2. /\ BucketFor(frag[p]) \in Bucket
        /\ Buckets[frag[p].key].state # "filled"
    BY Zenon, <1>6, <2>1, BucketForType, NotDiscarded DEF PushLate
  <2>3. Sealed(BucketFor(frag[p])).state = "filled"
    BY <2>2, SealedFields
  <2> QED
    BY ZenonT(30), <1>6, <2>1, <2>2, <2>3, BlockAnnounced DEF PushLate, wvars, avars
<1>7. ASSUME NEW p \in Pushers, PushStore(p) PROVE KeyAnnouncedOnce'
  <2> DEFINE f == frag[p]
             b == Stored(BucketFor(f), f, start[p])
  <2>1. f \in Fragments /\ f.key \in Keys /\ start[p] \in Time
    BY Zenon, <1>7 DEF PushStore, TypeOK, Fragments
  <2>2. Buckets[f.key].state \in {"absent", "open"} /\ BucketFor(f).state = "open"
    BY ZenonT(30), <1>7, <2>1, NotDiscarded DEF PushStore, TypeOK
  <2>3. b \in Bucket /\ b.state = "open" /\ Sealed(b).state = "filled"
    <3>1. BucketFor(f) \in Bucket
      BY <2>1, BucketForType DEF TypeOK
    <3>2. b \in Bucket /\ b.state = "open"
      BY <2>1, <2>2, <3>1, BucketTypes, StoredFields
    <3> QED
      BY <3>2, SealedFields
  <2>4. CASE Complete(b)
    BY Zenon, <1>7, <2>1, <2>2, <2>3, <2>4, BlockAnnounced DEF PushStore, wvars, avars
  <2>5. CASE ~Complete(b)
    <3>1. /\ Buckets' = [Buckets EXCEPT ![f.key] = b]
          /\ Return(p)
          /\ UNCHANGED <<keyQueue, keysToSend, akey>>
          /\ pc[p] = "lock"
      BY Zenon, <1>7, <2>5 DEF PushStore, wvars, avars
    <3>2. ~Announced(f.key)
      BY ZenonT(30), <2>1, <2>2 DEF KeyAnnouncedOnce
    <3> HIDE DEF f, b
    <3>3. \A k \in Keys : /\ Queued(k)' <=> Queued(k)
                          /\ AtPusher(k)' => AtPusher(k)
                          /\ AtWatcher(k)' <=> AtWatcher(k)
                          /\ AtAssembler(k)' <=> AtAssembler(k)
      BY <3>1 DEF Queued, AtPusher, AtWatcher, AtAssembler, Return, TypeOK
    <3>4. \A q \in Pushers : Sending(q)' => Sending(q)
      BY Zenon, <3>1 DEF Return, Sending, TypeOK
    <3>5. \A k \in Keys : Announced(k)' => Buckets'[k].state = "filled"
      BY ZenonT(30), <3>1, <3>2, <3>3 DEF KeyAnnouncedOnce, Announced, TypeOK
    <3> QED
      BY Zenon, <3>1, <3>3, <3>4, <3>5 DEF KeyAnnouncedOnce
  <2> QED
    BY Zenon, <2>4, <2>5
<1>8. ASSUME NEW p \in Pushers, PushSend(p) PROVE KeyAnnouncedOnce'
  <2> DEFINE k0 == frag[p].key
  <2>1. k0 \in Keys /\ AtPusher(k0)
    BY Zenon, <1>8 DEF PushSend, TypeOK, Fragments, AtPusher
  <2>2. \A q \in Pushers : pc[q] = "send" => q = p
    BY Zenon, <1>8 DEF PushSend, KeyAnnouncedOnce, Sending
  <2>3. \A k \in Keys : /\ AtPusher(k) <=> k = k0
                        /\ ~AtPusher(k)'
                        /\ AtWatcher(k)' <=> AtWatcher(k)
                        /\ AtAssembler(k)' <=> AtAssembler(k)
    BY <1>8, <2>1, <2>2 DEF PushSend, AtPusher, AtWatcher, AtAssembler, TypeOK, wvars, avars
  <2>4. \A q \in Pushers : Sending(q)' => Sending(q)
    BY <1>8 DEF PushSend, Sending, TypeOK
  <2>5. keyQueue' = Append(keyQueue, k0) /\ Buckets' = Buckets
    BY Zenon, <1>8 DEF PushSend
  <2>6. \A k \in Keys : Queued(k)' <=> Queued(k) \/ k = k0
    BY Zenon, <2>1, <2>5, AppendQueued DEF TypeOK
  <2>7. \A i, j \in 1 .. Len(keyQueue') : keyQueue'[i] = keyQueue'[j] => i = j
    BY Zenon, <2>1, <2>5, AppendQueued DEF TypeOK, KeyAnnouncedOnce
  <2> HIDE DEF k0
  <2> QED
    BY <2>1, <2>3, <2>4, <2>5, <2>6, <2>7 DEF KeyAnnouncedOnce, Announced
<1>9. CASE WatchScan
  <2> DEFINE expired == {k \in Keys : Expired(Buckets[k])}
  <2>1. \A k \in Keys : Buckets[k].state = "filled" =>
                          k \notin expired /\ Buckets'[k] = Buckets[k]
    BY ZenonT(30), <1>9 DEF WatchScan, Expired
  <2>2. \A k \in expired : Buckets'[k].state = "filled" /\ ~Announced(k)
    BY <1>9, SealedFields DEF WatchScan, Expired, TypeOK, KeyAnnouncedOnce
  <2>3. /\ keysToSend' = expired
        /\ UNCHANGED <<keyQueue, pc, frag, akey>>
    BY <1>9 DEF WatchScan, pvars, avars
  <2> HIDE DEF expired
  <2>4. \A k \in Keys : /\ Queued(k)' <=> Queued(k)
                        /\ AtPusher(k)' <=> AtPusher(k)
                        /\ AtWatcher(k)' <=> k \in expired
                        /\ AtAssembler(k)' <=> AtAssembler(k)
    BY <2>3 DEF Queued, AtPusher, AtWatcher, AtAssembler
  <2>5. \A q \in Pushers : Sending(q)' <=> Sending(q)
    BY ZenonT(30), <2>3 DEF Sending
  <2> QED
    BY Zenon, <2>1, <2>2, <2>3, <2>4, <2>5 DEF KeyAnnouncedOnce, Announced
<1>10. ASSUME NEW k0 \in Keys, WatchSend(k0) PROVE KeyAnnouncedOnce'
  <2>1. /\ AtWatcher(k0)
        /\ keyQueue' = Append(keyQueue, k0)
        /\ UNCHANGED <<Buckets, pc, frag, akey>>
        /\ keysToSend' = keysToSend \ {k0}
    BY <1>10 DEF WatchSend, AtWatcher, pvars, avars
  <2>2. \A k \in Keys : /\ AtPusher(k)' <=> AtPusher(k)
                        /\ AtWatcher(k)' <=> AtWatcher(k) /\ k # k0
                        /\ AtAssembler(k)' <=> AtAssembler(k)
    BY <2>1 DEF AtPusher, AtWatcher, AtAssembler
  <2>3. \A q \in Pushers : Sending(q)' <=> Sending(q)
    BY <2>1 DEF Sending
  <2>4. \A k \in Keys : Queued(k)' <=> Queued(k) \/ k = k0
    BY Zenon, <2>1, AppendQueued DEF TypeOK
  <2>5. \A i, j \in 1 .. Len(keyQueue') : keyQueue'[i] = keyQueue'[j] => i = j
    BY ZenonT(30), <2>1, AppendQueued DEF TypeOK, KeyAnnouncedOnce
  <2> QED
    BY SMTT(30), <2>1, <2>2, <2>3, <2>4, <2>5 DEF KeyAnnouncedOnce, Announced
<1>11. CASE WatchAbort
  <2>1. /\ UNCHANGED <<Buckets, keyQueue, pc, frag, akey>>
        /\ keysToSend' = {}
    BY <1>11 DEF WatchAbort, pvars, avars
  <2>2. \A k \in Keys : /\ Queued(k)' <=> Queued(k)
                        /\ AtPusher(k)' <=> AtPusher(k)
                        /\ ~AtWatcher(k)'
                        /\ AtAssembler(k)' <=> AtAssembler(k)
    BY <2>1 DEF Queued, AtPusher, AtWatcher, AtAssembler
  <2>3. \A q \in Pushers : Sending(q)' <=> Sending(q)
    BY ZenonT(30), <2>1 DEF Sending
  <2> QED
    BY <2>1, <2>2, <2>3 DEF KeyAnnouncedOnce, Announced
<1>12. CASE AsmPop
  <2> DEFINE k0 == Head(keyQueue)
  <2>1. /\ UNCHANGED <<Buckets, pc, frag, keysToSend>>
        /\ akey' = k0
        /\ keyQueue' = Tail(keyQueue)
        /\ akey \notin Keys
        /\ keyQueue \in Seq(Keys) /\ keyQueue # <<>>
    BY <1>12 DEF AsmPop, pvars, wvars, TypeOK
  <2>2. /\ k0 \in Keys /\ keyQueue[1] = k0 /\ Len(keyQueue) \in Nat \ {0}
        /\ Len(keyQueue') = Len(keyQueue) - 1
        /\ \A i \in 1 .. Len(keyQueue') : keyQueue'[i] = keyQueue[i + 1]
    BY <2>1
  <2> HIDE DEF k0
  <2>3. Queued(k0)
    <3>1. 1 \in 1 .. Len(keyQueue)
      BY <2>2
    <3> QED
      BY Zenon, <2>2, <3>1 DEF Queued
  <2>4. \A k \in Keys : Queued(k)' => Queued(k) /\ k # k0
    <3> SUFFICES ASSUME NEW k \in Keys, Queued(k)'
                 PROVE  Queued(k) /\ k # k0
      OBVIOUS
    <3>1. PICK i \in 1 .. Len(keyQueue') : keyQueue'[i] = k
      BY Zenon DEF Queued
    <3>2. /\ i + 1 \in 1 .. Len(keyQueue) /\ 1 \in 1 .. Len(keyQueue)
          /\ i + 1 # 1
      BY <2>2
    <3>3. keyQueue[i + 1] = k
      BY Zenon, <2>2, <3>1
    <3>4. Queued(k)
      BY Zenon, <3>2, <3>3 DEF Queued
    <3>5. k # k0
      BY ZenonT(30), <2>2, <3>2, <3>3 DEF KeyAnnouncedOnce
    <3> QED
      BY <3>4, <3>5
  <2>5. \A i, j \in 1 .. Len(keyQueue') : keyQueue'[i] = keyQueue'[j] => i = j
    <3> SUFFICES ASSUME NEW i \in 1 .. Len(keyQueue'), NEW j \in 1 .. Len(keyQueue'),
                        keyQueue'[i] = keyQueue'[j]
                 PROVE  i = j
      OBVIOUS
    <3>1. i + 1 \in 1 .. Len(keyQueue) /\ j + 1 \in 1 .. Len(keyQueue)
      BY SMTT(30), <2>2
    <3>2. keyQueue[i + 1] = keyQueue[j + 1]
      BY ZenonT(30), <2>2
    <3>3. i + 1 = j + 1
      BY ZenonT(30), <3>1, <3>2 DEF KeyAnnouncedOnce
    <3> QED
      BY SMTT(30), <3>3
  <2>6. \A k \in Keys : /\ AtPusher(k)' <=> AtPusher(k)
                        /\ AtWatcher(k)' <=> AtWatcher(k)
                        /\ AtAssembler(k)' <=> k = k0
    BY <2>1 DEF AtPusher, AtWatcher, AtAssembler
  <2>7. \A q \in Pushers : Sending(q)' <=> Sending(q)
    BY <2>1 DEF Sending
  <2> QED
    BY SMTT(30), <2>1, <2>2, <2>3, <2>4, <2>5, <2>6, <2>7 DEF KeyAnnouncedOnce, Announced
<1>13. CASE AsmDrain
  <2>1. /\ UNCHANGED <<keyQueue, pc, frag, keysToSend>>
        /\ akey' = NoOne
        /\ akey \in Keys
        /\ \A k \in Keys : k # akey => Buckets'[k] = Buckets[k]
    BY ZenonT(30), <1>13 DEF AsmDrain, pvars, wvars, TypeOK
  <2>2. \A k \in Keys : /\ Queued(k)' <=> Queued(k)
                        /\ AtPusher(k)' <=> AtPusher(k)
                        /\ AtWatcher(k)' <=> AtWatcher(k)
                        /\ ~AtAssembler(k)'
    BY SMTT(30), <2>1, ShardAssumption DEF Queued, AtPusher, AtWatcher, AtAssembler
  <2>3. \A q \in Pushers : Sending(q)' <=> Sending(q)
    BY <2>1 DEF Sending
  <2>4. AtAssembler(akey)
    BY DEF AtAssembler
  <2> QED
    BY ZenonT(30), <2>1, <2>2, <2>3, <2>4 DEF KeyAnnouncedOnce, Announced
<1>14. CASE UNCHANGED vars
  BY <1>1, <1>14 DEF vars, pvars, wvars, avars
<1> QED
  BY SMTT(30), TrafficFits, <1>2, <1>3, <1>4, <1>5, <1>6, <1>7, <1>8, <1>9, <1>10, <1>11, <1>12, <1>13,
     <1>14
  DEF Next, Push, Watcher, AssemblerStep

\* The inductive invariant of the key's way from push or watcher to DrainBucket.
KeyInv == TypeOK /\ MutexHeld /\ KeyAnnouncedOnce /\ DrainFindsBucket

LEMMA InitKeyInv == Init => KeyInv
<1> SUFFICES ASSUME Init PROVE KeyInv
  OBVIOUS
<1>1. TypeOK
  BY InitType
<1>2. MutexHeld /\ DrainFindsBucket
  BY Zenon DEF Init, MutexHeld, Sending, DrainFindsBucket
<1>3. \A k \in Keys : ~Announced(k)
  BY ShardAssumption
  DEF Init, Announced, Queued, AtPusher, AtWatcher, AtAssembler
<1>4. KeyAnnouncedOnce
  BY <1>3 DEF Init, KeyAnnouncedOnce, Announced, Sending
<1> QED
  BY <1>1, <1>2, <1>4 DEF KeyInv

LEMMA NextKeyInv == KeyInv /\ [Next]_vars => KeyInv'
<1> SUFFICES ASSUME KeyInv, [Next]_vars PROVE DrainFindsBucket'
  BY NextType, NextMutex, NextAnnounced DEF KeyInv
<1> USE DEF KeyInv, DrainFindsBucket
<1>1. CASE AsmDrain
  <2>1. akey \in Keys /\ Announced(akey)
    BY Zenon, <1>1 DEF AsmDrain, TypeOK, Announced, AtAssembler
  <2>2. akey \in Live
    BY ZenonT(30), <2>1 DEF KeyAnnouncedOnce, Live
  <2> QED
    BY Zenon, <1>1, <2>2 DEF AsmDrain
<1>2. CASE Tick \/ CancelShard \/ Watcher
  BY <1>2 DEF Tick, CancelShard, Watcher, WatchTop, WatchScan, WatchSend,
              WatchCount, WatchAbort, avars
<1>3. ASSUME NEW p \in Pushers, NEW f \in Fragments, Receive(p, f) PROVE apc' # "fatal"
  BY <1>3 DEF Receive, avars
<1>4. ASSUME NEW p \in Pushers, CancelPusher(p) \/ Push(p) PROVE apc' # "fatal"
  BY ZenonT(30), <1>4 DEF CancelPusher, Push, PushDiscard, PushLate, PushStore, PushSend,
              PushCount, PushAbort, avars
<1>5. CASE AsmTop \/ AsmPop \/ AsmPopDone \/ AsmLoad \/ AsmSubtract
  BY <1>5 DEF AsmTop, AsmPop, AsmPopDone, AsmLoad, AsmSubtract
<1>6. CASE UNCHANGED vars
  BY <1>6 DEF vars, avars
<1> QED
  BY TrafficFits, <1>1, <1>2, <1>3, <1>4, <1>5, <1>6 DEF Next, AssemblerStep

\* KeyInv is an invariant of the shard.
LEMMA KeyInvariant == Spec => []KeyInv
BY InitKeyInv, NextKeyInv, PTL DEF Spec

\* However many processors push, a bucket's key exists once: no two goroutines
\* ever hold the same key, the channel has no duplicate, and the bucket behind
\* a key is filled and still there.
THEOREM AnnouncedOnce == Spec => []KeyAnnouncedOnce
<1>1. KeyInv => KeyAnnouncedOnce
  BY DEF KeyInv
<1> QED
  BY <1>1, KeyInvariant, PTL

\* DrainBucket always finds the bucket: its second unlock, which would end the
\* process, is unreachable.
THEOREM DrainSafe == Spec => []DrainFindsBucket
<1>1. KeyInv => DrainFindsBucket
  BY ZenonT(30) DEF KeyInv
<1> QED
  BY <1>1, KeyInvariant, PTL

----------------------------------------------------------------------------
(* The metrics that the removal of an instance waits on.                   *)

\* A send is counted after it happened, a receive is subtracted at most once:
\* the waiting metric keeps covering the queue.
LEMMA NextWaiting == KeyInv /\ WaitingCoversQueue /\ [Next]_vars => WaitingCoversQueue'
<1> SUFFICES ASSUME KeyInv, WaitingCoversQueue, [Next]_vars PROVE WaitingCoversQueue'
  BY ZenonT(30)
<1> DEFINE a == IF apc \in {"lock", "subtract"} THEN 1 ELSE 0
           w == IF wpc = "count" THEN 1 ELSE 0
           c == IF \E p \in Pushers : pc[p] = "count" THEN 1 ELSE 0
<1>1. /\ Len(keyQueue) \in Nat /\ WaitingBuckets \in Nat /\ keyQueue \in Seq(Keys)
      /\ Len(keyQueue) + a <= WaitingBuckets + w + c
      /\ a \in {0, 1} /\ w \in {0, 1} /\ c \in {0, 1}
      /\ a' \in {0, 1} /\ w' \in {0, 1} /\ c' \in {0, 1}
  BY DEF KeyInv, TypeOK, WaitingCoversQueue
<1>2. ASSUME Len(keyQueue') + a' <= WaitingBuckets' + w' + c'
      PROVE  WaitingCoversQueue'
  BY Zenon, <1>2 DEF WaitingCoversQueue
<1> USE DEF KeyInv, TypeOK
<1>3. CASE Tick \/ CancelShard
  BY Zenon, <1>1, <1>2, <1>3 DEF Tick, CancelShard, pvars, wvars, avars
<1>4. ASSUME NEW p \in Pushers, NEW f \in Fragments, Receive(p, f)
      PROVE  WaitingCoversQueue'
  <2>1. c' = c /\ a' = a /\ w' = w
    BY Zenon, <1>4 DEF Receive, wvars, avars
  <2> QED
    BY ZenonT(30), <1>1, <1>2, <1>4, <2>1 DEF Receive
<1>5. ASSUME NEW p \in Pushers,
             CancelPusher(p) \/ PushDiscard(p) \/ PushLate(p) \/ PushStore(p) \/ PushAbort(p)
      PROVE  WaitingCoversQueue'
  <2>1. /\ a' = a /\ w' = w
        /\ UNCHANGED <<keyQueue, WaitingBuckets>>
    BY Zenon, <1>5 DEF CancelPusher, PushDiscard, PushLate, PushStore, PushAbort, wvars, avars
  <2>2. pc[p] # "count" \/ pc' = pc
    BY Zenon, <1>5 DEF CancelPusher, PushDiscard, PushLate, PushStore, PushAbort
  <2>3. pc' = pc \/ pc' = [pc EXCEPT ![p] = "idle"] \/ pc' = [pc EXCEPT ![p] = "send"]
    BY Zenon, <1>5 DEF CancelPusher, PushDiscard, PushLate, PushStore, PushAbort, Return,
                BlockOnSend
  <2>4. c' = c
    BY ZenonT(30), <2>2, <2>3
  <2> QED
    BY ZenonT(30), <1>1, <1>2, <2>1, <2>4
<1>6. ASSUME NEW p \in Pushers, PushSend(p) PROVE WaitingCoversQueue'
  <2>1. c = 0
    BY Zenon, <1>6 DEF PushSend, KeyAnnouncedOnce, Sending
  <2>2. c' = 1 /\ a' = a /\ w' = w
    BY ZenonT(30), <1>6 DEF PushSend, wvars, avars
  <2>3. Len(keyQueue') = Len(keyQueue) + 1 /\ WaitingBuckets' = WaitingBuckets
    BY SMTT(30), <1>1, <1>6 DEF PushSend
  <2> QED
    BY SMTT(30), <1>1, <1>2, <2>1, <2>2, <2>3
<1>7. ASSUME NEW p \in Pushers, PushCount(p) PROVE WaitingCoversQueue'
  <2>1. a' = a /\ w' = w
    BY Zenon, <1>7 DEF PushCount, wvars, avars
  <2>2. keyQueue' = keyQueue /\ WaitingBuckets' = WaitingBuckets + 1
    BY Zenon, <1>7 DEF PushCount
  <2> QED
    BY <1>1, <1>2, <2>1, <2>2
<1>8. CASE WatchTop \/ WatchScan \/ WatchAbort
  <2>1. a' = a /\ w' = w /\ c' = c
    BY ZenonT(30), <1>8 DEF WatchTop, WatchScan, WatchAbort, pvars, avars
  <2> QED
    BY ZenonT(30), <1>1, <1>2, <1>8, <2>1 DEF WatchTop, WatchScan, WatchAbort
<1>9. ASSUME NEW k \in Keys, WatchSend(k) PROVE WaitingCoversQueue'
  <2>1. a' = a /\ w = 0 /\ w' = 1 /\ c' = c
    BY ZenonT(30), <1>9 DEF WatchSend, pvars, avars
  <2>2. Len(keyQueue') = Len(keyQueue) + 1 /\ WaitingBuckets' = WaitingBuckets
    BY SMTT(30), <1>1, <1>9 DEF WatchSend
  <2> QED
    BY <1>1, <1>2, <2>1, <2>2
<1>10. CASE WatchCount
  <2>1. a' = a /\ c' = c
    BY Zenon, <1>10 DEF WatchCount, pvars, avars
  <2> QED
    BY <1>1, <1>2, <1>10, <2>1 DEF WatchCount
<1>11. CASE AsmTop \/ AsmPopDone \/ AsmLoad \/ AsmDrain
  <2>1. a' = a /\ w' = w /\ c' = c
    BY ZenonT(30), <1>11 DEF AsmTop, AsmPopDone, AsmLoad, AsmDrain, pvars, wvars
  <2> QED
    BY ZenonT(30), <1>1, <1>2, <1>11, <2>1 DEF AsmTop, AsmPopDone, AsmLoad, AsmDrain
<1>12. CASE AsmPop
  <2>1. a = 0 /\ a' = 1 /\ w' = w /\ c' = c
    BY ZenonT(30), <1>12 DEF AsmPop, pvars, wvars
  <2>2. Len(keyQueue') = Len(keyQueue) - 1 /\ WaitingBuckets' = WaitingBuckets
    BY SMTT(30), <1>1, <1>12 DEF AsmPop
  <2> QED
    BY <1>1, <1>2, <2>1, <2>2
<1>13. CASE AsmSubtract
  <2>1. a = 1 /\ a' = 0 /\ w' = w /\ c' = c
    BY ZenonT(30), <1>13 DEF AsmSubtract, pvars, wvars
  <2>2. keyQueue' = keyQueue /\ WaitingBuckets' >= WaitingBuckets - 1
    BY SMTT(30), <1>1, <1>13 DEF AsmSubtract, Subtract
  <2>3. WaitingBuckets' \in Int
    BY SMTT(30), <1>1, <1>13 DEF AsmSubtract, Subtract
  <2> QED
    BY <1>1, <1>2, <2>1, <2>2, <2>3
<1>14. CASE UNCHANGED vars
  BY <1>1, <1>2, <1>14 DEF vars, pvars, wvars, avars
<1> QED
  BY ZenonT(30), TrafficFits, <1>3, <1>4, <1>5, <1>6, <1>7, <1>8, <1>9, <1>10, <1>11, <1>12,
     <1>13, <1>14
  DEF Next, Push, Watcher, AssemblerStep

\* WaitingBuckets never counts fewer keys than are queued, up to the two that
\* were just sent: when it reads zero, at most two keys are left.
THEOREM WaitingCovers == Spec => []WaitingCoversQueue
<1>1. Init => WaitingCoversQueue
  BY SMTT(30) DEF Init, WaitingCoversQueue
<1> QED
  BY <1>1, NextWaiting, KeyInvariant, PTL DEF Spec

\* The buckets that exist after storing under, or deleting, a key.
LEMMA LiveChanges ==
  ASSUME TypeOK, NEW k0 \in Keys, NEW b, Buckets' = [Buckets EXCEPT ![k0] = b]
  PROVE  /\ IsFiniteSet(Live) /\ Cardinality(Live) \in Nat
         /\ b.state # "absent" => Live' = Live \union {k0}
         /\ b.state = "absent" => Live' = Live \ {k0}
<1>1. IsFiniteSet(Live)
  BY ShardAssumption, FS_Subset DEF Live
<1>2. Cardinality(Live) \in Nat
  BY <1>1, FS_CardinalityType
<1> QED
  BY <1>1, <1>2 DEF Live, TypeOK

LEMMA NextTotal == KeyInv /\ TotalCountsBuckets /\ [Next]_vars => TotalCountsBuckets'
<1> SUFFICES ASSUME KeyInv, TotalCountsBuckets, [Next]_vars PROVE TotalCountsBuckets'
  OBVIOUS
<1>1. ASSUME UNCHANGED <<Buckets, TotalBuckets>> PROVE TotalCountsBuckets'
  BY <1>1 DEF TotalCountsBuckets, Live
<1>2. CASE Tick \/ CancelShard
  BY <1>1, <1>2 DEF Tick, CancelShard
<1>3. ASSUME NEW p \in Pushers, NEW f \in Fragments, Receive(p, f)
      PROVE  TotalCountsBuckets'
  BY ZenonT(30), <1>1, <1>3 DEF Receive
<1>4. ASSUME NEW p \in Pushers,
             CancelPusher(p) \/ PushDiscard(p) \/ PushSend(p) \/ PushCount(p) \/ PushAbort(p)
      PROVE  TotalCountsBuckets'
  BY <1>1, <1>4 DEF CancelPusher, PushDiscard, PushSend, PushCount, PushAbort
<1>5. ASSUME NEW p \in Pushers, PushLate(p) PROVE TotalCountsBuckets'
  <2> DEFINE f == frag[p]
             b == BucketFor(f)
  <2>1. f \in Fragments /\ f.key \in Keys /\ b \in Bucket
    BY SMTT(30), <1>5, BucketForType DEF PushLate, KeyInv, TypeOK
  <2>2. Buckets[f.key].state # "absent"
    BY <1>5, ShardAssumption DEF PushLate, Elapsed, BucketFor, NoBucket
  <2>3. Sealed(b).state # "absent"
    BY <2>1, SealedFields
  <2>4. Live' = Live \union {f.key}
    BY ZenonT(30), <1>5, <2>1, <2>3, LiveChanges DEF PushLate, KeyInv
  <2>5. Live' = Live
    BY <2>1, <2>2, <2>4 DEF Live
  <2> QED
    BY ZenonT(30), <1>5, <2>5 DEF PushLate, TotalCountsBuckets
<1>6. ASSUME NEW p \in Pushers, PushStore(p) PROVE TotalCountsBuckets'
  <2> DEFINE f == frag[p]
             b == Stored(BucketFor(f), f, start[p])
  <2>1. f \in Fragments /\ f.key \in Keys /\ BucketFor(f) \in Bucket /\ start[p] \in Time
    BY Zenon, <1>6, BucketForType DEF PushStore, KeyInv, TypeOK
  <2>2. BucketFor(f).state # "absent"
    BY ZenonT(30), <2>1, BucketForType DEF KeyInv, TypeOK
  <2>3. b \in Bucket /\ b.state # "absent" /\ Sealed(b).state # "absent"
    <3>1. b \in Bucket /\ b.state # "absent"
      BY SMTT(30), <2>1, <2>2, StoredFields, BucketTypes
    <3> QED
      BY SMTT(30), <3>1, SealedFields
  <2>4. /\ IsFiniteSet(Live) /\ Cardinality(Live) \in Nat
        /\ Live' = Live \union {f.key}
    <3>1. \/ Buckets' = [Buckets EXCEPT ![f.key] = b]
          \/ Buckets' = [Buckets EXCEPT ![f.key] = Sealed(b)]
      BY Zenon, <1>6 DEF PushStore
    <3> HIDE DEF f, b
    <3> QED
      BY <2>1, <2>3, <3>1, LiveChanges DEF KeyInv
  <2>5. TotalBuckets' = CountNew(f)
    BY Zenon, <1>6 DEF PushStore
  <2> HIDE DEF f, b
  <2> QED
    BY Zenon, <2>4, <2>5, FS_AddElement DEF CountNew, TotalCountsBuckets
<1>7. CASE WatchScan
  <2>1. Live' = Live
    BY <1>7, SealedFields DEF WatchScan, Live, Expired, KeyInv, TypeOK
  <2> QED
    BY ZenonT(30), <1>7, <2>1 DEF WatchScan, TotalCountsBuckets
<1>8. CASE WatchTop \/ WatchCount \/ WatchAbort \/ \E k \in Keys : WatchSend(k)
  BY Zenon, <1>1, <1>8 DEF WatchTop, WatchCount, WatchAbort, WatchSend
<1>9. CASE AsmTop \/ AsmPop \/ AsmPopDone \/ AsmLoad \/ AsmSubtract
  BY Zenon, <1>1, <1>9 DEF AsmTop, AsmPop, AsmPopDone, AsmLoad, AsmSubtract
<1>10. CASE AsmDrain
  <2>1. akey \in Keys /\ akey \in Live
    <3>1. akey \in Keys /\ Announced(akey)
      BY <1>10 DEF AsmDrain, KeyInv, TypeOK, Announced, AtAssembler
    <3> QED
      BY ZenonT(30), <3>1 DEF KeyInv, KeyAnnouncedOnce, Live
  <2>2. /\ IsFiniteSet(Live) /\ Cardinality(Live) \in Nat
        /\ Live' = Live \ {akey}
    <3>1. Buckets' = [Buckets EXCEPT ![akey] = NoBucket] /\ NoBucket.state = "absent"
      BY <1>10, <2>1 DEF AsmDrain, NoBucket
    <3> QED
      BY ZenonT(30), <2>1, <3>1, LiveChanges DEF KeyInv
  <2>3. Cardinality(Live') = Cardinality(Live) - 1
    BY <2>1, <2>2, FS_RemoveElement
  <2>4. Cardinality(Live) # 0
    BY <2>1, <2>2, FS_EmptySet
  <2> QED
    BY Zenon, <1>10, <2>1, <2>2, <2>3, <2>4 DEF AsmDrain, TotalCountsBuckets
<1>11. CASE UNCHANGED vars
  BY SMTT(30), <1>1, <1>11 DEF vars
<1> QED
  BY SMTT(30), TrafficFits, <1>2, <1>3, <1>4, <1>5, <1>6, <1>7, <1>8, <1>9, <1>10, <1>11
  DEF Next, Push, Watcher, AssemblerStep

\* TotalBuckets is the number of buckets whenever no goroutine is inside a
\* locked section: waiting for it to reach zero waits for the last bucket.
THEOREM TotalCounts == Spec => []TotalCountsBuckets
<1>1. Init => TotalCountsBuckets
  <2> SUFFICES ASSUME Init PROVE TotalCountsBuckets
    BY Zenon
  <2>1. Live = {}
    BY DEF Init, Live, NoBucket
  <2> QED
    BY <2>1, FS_EmptySet DEF Init, TotalCountsBuckets
<1> QED
  BY <1>1, NextTotal, KeyInvariant, PTL DEF Spec

============================================================================
