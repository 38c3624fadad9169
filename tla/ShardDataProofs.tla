-------------------------- MODULE ShardDataProofs --------------------------
(***************************************************************************)
(* What happens to the buckets of a shard: what they hold, when they are   *)
(* sealed, that none is forgotten, and that the shard implements           *)
(* Reassembly.                                                             *)
(***************************************************************************)
EXTENDS ShardProofs

----------------------------------------------------------------------------
(* What the buckets hold.                                                  *)

\* Every bucket holds a fragment and only sequence numbers of its message,
\* and nothing is left of one that is gone; no pusher's start time is in the
\* future.
Sound(b) ==
  IF b.state = "absent" THEN b = NoBucket
  ELSE b.frags # {} /\ b.frags \subseteq 0 .. b.maxSeq

BucketsSound ==
  /\ \A k \in Keys : Sound(Buckets[k])
  /\ \A p \in Pushers : start[p] <= clock

DataInv == KeyInv /\ BucketsSound /\ HandedIsAssemblable

\* A fragment push accepts leaves a sound bucket.
LEMMA StoredSound ==
  ASSUME TypeOK, BucketsSound, NEW p \in Pushers, PushStore(p)
  PROVE  LET f == frag[p]
             b == Stored(BucketFor(f), f, start[p])
         IN  /\ f \in Fragments /\ f.key \in Keys
             /\ b \in Bucket /\ b.state = "open"
             /\ b.frags # {} /\ b.frags \subseteq 0 .. b.maxSeq
             /\ b.frags = BucketFor(f).frags \union {f.seq}
             /\ b.maxSeq = f.max
             /\ \/ Complete(b) /\ Buckets' = [Buckets EXCEPT ![f.key] = Sealed(b)]
                \/ ~Complete(b) /\ Buckets' = [Buckets EXCEPT ![f.key] = b]
<1> DEFINE f == frag[p]
           b == Stored(BucketFor(f), f, start[p])
<1>1. f \in Fragments /\ start[p] \in Time /\ Buckets \in [Keys -> Bucket]
  BY DEF PushStore, TypeOK
<1>2. /\ f.key \in Keys /\ f.seq \in Seqs /\ f.max \in Seqs /\ f.seq <= f.max
      /\ BucketFor(f) \in Bucket
  BY Zenon, <1>1, BucketForType
<1>3. /\ BucketFor(f).state = "open"
      /\ Buckets[f.key].state \in {"absent", "open"}
      /\ BucketFor(f).maxSeq = f.max
  BY Zenon, <1>1, NotDiscarded DEF PushStore
<1>4. b = [state |-> "open", frags |-> BucketFor(f).frags \union {f.seq},
           maxSeq |-> f.max, last |-> start[p]]
  BY Zenon, <1>1, <1>2, <1>3, StoredFields
<1>5. b \in Bucket
  BY Zenon, <1>1, <1>2, BucketTypes
<1>6. BucketFor(f).frags \subseteq 0 .. f.max
  <2>1. CASE Buckets[f.key].state = "absent"
    BY <2>1 DEF BucketFor, NoBucket
  <2>2. CASE Buckets[f.key].state = "open"
    BY <1>2, <1>3, <2>2 DEF BucketFor, BucketsSound, Sound
  <2> QED
    BY <1>3, <2>1, <2>2
<1>7. f.seq \in 0 .. f.max
  BY <1>2 DEF Seqs
<1>8. \/ Complete(b) /\ Buckets' = [Buckets EXCEPT ![f.key] = Sealed(b)]
      \/ ~Complete(b) /\ Buckets' = [Buckets EXCEPT ![f.key] = b]
  BY Zenon DEF PushStore
<1> HIDE DEF f, b
<1>9. b.state = "open" /\ b.maxSeq = f.max /\ b.frags = BucketFor(f).frags \union {f.seq}
  BY <1>4
<1>10. b.frags # {} /\ b.frags \subseteq 0 .. b.maxSeq
  BY <1>6, <1>7, <1>9
<1> QED
  BY Zenon, <1>1, <1>2, <1>5, <1>8, <1>9, <1>10 DEF f, b

\* push never seals a new bucket as late.
LEMMA LateSound ==
  ASSUME TypeOK, NEW p \in Pushers, PushLate(p)
  PROVE  LET k == frag[p].key
         IN  /\ k \in Keys /\ frag[p] \in Fragments
             /\ Buckets[k].state = "open"
             /\ Buckets' = [Buckets EXCEPT ![k] = Sealed(Buckets[k])]
             /\ start[p] - Buckets[k].last > Deadline
<1> DEFINE f == frag[p]
<1>1. f \in Fragments /\ Buckets \in [Keys -> Bucket]
  BY DEF PushLate, TypeOK
<1>2. f.key \in Keys
  BY <1>1, BucketForType
<1>3. Buckets[f.key].state \in {"absent", "open"}
  BY <1>1, NotDiscarded DEF PushLate
<1>4. Buckets[f.key].state # "absent"
  BY ShardAssumption DEF PushLate, Elapsed, BucketFor, NoBucket
<1>5. BucketFor(f) = Buckets[f.key]
  BY <1>4 DEF BucketFor
<1>6. Elapsed(Buckets[f.key], start[p]) > Deadline
  BY <1>5 DEF PushLate
<1>7. start[p] - Buckets[f.key].last > Deadline
  BY <1>6, ShardAssumption DEF Elapsed
<1> QED
  BY Zenon, <1>1, <1>2, <1>3, <1>4, <1>5, <1>7 DEF PushLate

\* The only steps that change a bucket or hand one over.
LEMMA BucketSteps ==
  ASSUME KeyInv, [Next]_vars
  PROVE  \/ UNCHANGED <<Buckets, handed>>
         \/ \E p \in Pushers : PushStore(p)
         \/ \E p \in Pushers : PushLate(p)
         \/ WatchScan
         \/ AsmDrain
<1>1. CASE Tick \/ CancelShard \/ UNCHANGED vars
  BY <1>1 DEF Tick, CancelShard, vars
<1>2. ASSUME NEW p \in Pushers, NEW f \in Fragments, Receive(p, f)
      PROVE  UNCHANGED <<Buckets, handed>>
  BY <1>2 DEF Receive
<1>3. ASSUME NEW p \in Pushers,
             CancelPusher(p) \/ PushDiscard(p) \/ PushSend(p) \/ PushCount(p) \/ PushAbort(p)
      PROVE  UNCHANGED <<Buckets, handed>>
  BY <1>3 DEF CancelPusher, PushDiscard, PushSend, PushCount, PushAbort
<1>4. CASE WatchTop \/ WatchCount \/ WatchAbort \/ \E k \in Keys : WatchSend(k)
  BY <1>4 DEF WatchTop, WatchCount, WatchAbort, WatchSend
<1>5. CASE AsmTop \/ AsmPop \/ AsmPopDone \/ AsmLoad \/ AsmSubtract
  BY <1>5 DEF AsmTop, AsmPop, AsmPopDone, AsmLoad, AsmSubtract
<1> QED
  BY TrafficFits, <1>1, <1>2, <1>3, <1>4, <1>5 DEF Next, Push, Watcher, AssemblerStep

\* DrainBucket takes a filled bucket, whole.
LEMMA DrainTakes ==
  ASSUME KeyInv, AsmDrain
  PROVE  /\ akey \in Keys /\ Buckets[akey].state = "filled"
         /\ Buckets' = [Buckets EXCEPT ![akey] = NoBucket]
         /\ handed' = Append(handed, [key    |-> akey,
                                      frags  |-> Buckets[akey].frags,
                                      maxSeq |-> Buckets[akey].maxSeq])
<1>1. akey \in Keys /\ Announced(akey)
  BY DEF AsmDrain, KeyInv, TypeOK, Announced, AtAssembler
<1>2. Buckets[akey].state = "filled"
  BY <1>1 DEF KeyInv, KeyAnnouncedOnce
<1> QED
  BY <1>1, <1>2 DEF AsmDrain, Live

\* Start times stay in the past.
LEMMA NextStart ==
  ASSUME TypeOK, [Next]_vars, \A p \in Pushers : start[p] <= clock
  PROVE  \A p \in Pushers : start'[p] <= clock'
<1> USE DEF TypeOK
<1>1. clock \in Int /\ clock >= 0 /\ \A p \in Pushers : start[p] \in Int
  BY DEF Time
<1>2. CASE Tick
  BY <1>1, <1>2 DEF Tick, pvars
<1>3. ASSUME NEW p \in Pushers, NEW f \in Fragments, Receive(p, f)
      PROVE  \A q \in Pushers : start'[q] <= clock'
  BY <1>1, <1>3 DEF Receive
<1>4. ASSUME NEW p \in Pushers, CancelPusher(p) \/ Push(p)
      PROVE  \A q \in Pushers : start'[q] <= clock'
  <2>1. clock' = clock
    BY <1>4 DEF CancelPusher, Push, PushDiscard, PushLate, PushStore, PushSend,
                PushCount, PushAbort
  <2>2. start' = start \/ start' = [start EXCEPT ![p] = 0]
    BY Zenon, <1>4 DEF CancelPusher, Push, PushDiscard, PushLate, PushStore, PushSend,
                PushCount, PushAbort, Return, BlockOnSend
  <2> QED
    BY ZenonT(30), <1>1, <2>1, <2>2
<1>5. CASE CancelShard \/ Watcher \/ AssemblerStep \/ UNCHANGED vars
  <2>1. UNCHANGED <<clock, start>>
    BY Zenon, <1>5 DEF CancelShard, Watcher, WatchTop, WatchScan, WatchSend, WatchCount,
                WatchAbort, AssemblerStep, AsmTop, AsmPop, AsmPopDone, AsmLoad,
                AsmSubtract, AsmDrain, vars, pvars
  <2> QED
    BY <2>1
<1> QED
  BY TrafficFits, <1>2, <1>3, <1>4, <1>5 DEF Next

LEMMA NextData == DataInv /\ [Next]_vars => DataInv'
<1> SUFFICES ASSUME DataInv, [Next]_vars PROVE DataInv'
  OBVIOUS
<1>1. KeyInv /\ TypeOK /\ KeyInv'
  BY NextKeyInv DEF DataInv, KeyInv
<1>2. \A k \in Keys : Sound(Buckets[k])
  BY DEF DataInv, BucketsSound
<1>3. ASSUME \A k \in Keys : Sound(Buckets'[k]), HandedIsAssemblable' PROVE DataInv'
  BY <1>1, <1>3, NextStart DEF DataInv, BucketsSound
<1>4. ASSUME UNCHANGED handed PROVE HandedIsAssemblable'
  BY <1>4 DEF DataInv, HandedIsAssemblable
<1>5. CASE UNCHANGED <<Buckets, handed>>
  BY <1>2, <1>3, <1>4, <1>5
<1>6. ASSUME NEW p \in Pushers, PushStore(p) PROVE DataInv'
  <2> DEFINE f == frag[p]
             b == Stored(BucketFor(f), f, start[p])
  <2>1. /\ f.key \in Keys /\ b \in Bucket /\ Sound(b)
        /\ \/ Buckets' = [Buckets EXCEPT ![f.key] = Sealed(b)]
           \/ Buckets' = [Buckets EXCEPT ![f.key] = b]
    BY Zenon, <1>1, <1>6, StoredSound DEF DataInv, Sound
  <2> HIDE DEF f, b
  <2>2. Sound(Sealed(b))
    <3>1. b.state = "open"
      BY Zenon, <1>1, <1>6, StoredSound DEF DataInv, f, b
    <3> QED
      BY <2>1, <3>1, SealedFields DEF Sound
  <2>3. \A k \in Keys : Sound(Buckets'[k])
    BY SMTT(30), <1>1, <1>2, <2>1, <2>2 DEF TypeOK
  <2> QED
    BY Zenon, <1>3, <1>4, <1>6, <2>3 DEF PushStore
<1>7. ASSUME NEW p \in Pushers, PushLate(p) PROVE DataInv'
  <2> DEFINE k0 == frag[p].key
  <2>1. /\ k0 \in Keys /\ Buckets[k0].state = "open"
        /\ Buckets' = [Buckets EXCEPT ![k0] = Sealed(Buckets[k0])]
    BY <1>1, <1>7, LateSound
  <2> HIDE DEF k0
  <2>2. Sound(Sealed(Buckets[k0]))
    BY SMTT(30), <1>1, <1>2, <2>1, SealedFields DEF TypeOK, Sound
  <2>3. \A k \in Keys : Sound(Buckets'[k])
    BY SMTT(30), <1>1, <1>2, <2>1, <2>2 DEF TypeOK
  <2> QED
    BY <1>3, <1>4, <1>7, <2>3 DEF PushLate
<1>8. CASE WatchScan
  <2>1. \A k \in Keys : Sound(Buckets'[k])
    <3> SUFFICES ASSUME NEW k \in Keys PROVE Sound(Buckets'[k])
      OBVIOUS
    <3>1. \/ Buckets'[k] = Buckets[k]
          \/ Expired(Buckets[k]) /\ Buckets'[k] = Sealed(Buckets[k])
      BY <1>8 DEF WatchScan
    <3> QED
      BY SMTT(30), <1>1, <1>2, <3>1, SealedFields DEF TypeOK, Expired, Sound
  <2> QED
    BY SMTT(30), <1>3, <1>4, <1>8, <2>1 DEF WatchScan
<1>9. CASE AsmDrain
  <2> DEFINE h == [key    |-> akey,
                   frags  |-> Buckets[akey].frags,
                   maxSeq |-> Buckets[akey].maxSeq]
             Fit(x) == x.frags # {} /\ x.frags \subseteq 0 .. x.maxSeq
             H == [key : Keys, frags : SUBSET Seqs, maxSeq : Seqs]
  <2>1. /\ akey \in Keys /\ Buckets[akey].state = "filled"
        /\ Buckets' = [Buckets EXCEPT ![akey] = NoBucket]
        /\ handed' = Append(handed, h)
    BY <1>1, <1>9, DrainTakes
  <2>2. \A k \in Keys : Sound(Buckets'[k])
    BY ZenonT(30), <1>1, <1>2, <2>1 DEF TypeOK, NoBucket, Sound
  <2>3. Fit(h) /\ \A i \in 1 .. Len(handed) : Fit(handed[i])
    BY <1>2, <2>1 DEF DataInv, HandedIsAssemblable, Sound
  <2>4. handed \in Seq(H) /\ h \in H
    BY <1>1, <2>1 DEF TypeOK, Bucket
  <2> HIDE DEF h, Fit, H
  <2>5. \A i \in 1 .. Len(handed') : Fit(handed'[i])
    BY <2>1, <2>3, <2>4
  <2> QED
    BY <1>3, <2>2, <2>5 DEF HandedIsAssemblable, Fit
<1> QED
  BY <1>1, <1>5, <1>6, <1>7, <1>8, <1>9, BucketSteps

LEMMA DataInvariant == Spec => []DataInv
<1>1. Init => DataInv
  <2> SUFFICES ASSUME Init PROVE BucketsSound /\ HandedIsAssemblable
    BY InitKeyInv DEF DataInv
  <2> QED
    BY DEF Init, BucketsSound, Sound, NoBucket, HandedIsAssemblable
<1> QED
  BY <1>1, NextData, PTL DEF Spec

\* Every bucket the assembler is given has a fragment, and its fragments fit
\* its maximum: Defragment is never called with what it refuses.
THEOREM HandedAssemblable == Spec => []HandedIsAssemblable
<1>1. DataInv => HandedIsAssemblable
  BY DEF DataInv
<1> QED
  BY <1>1, DataInvariant, PTL

----------------------------------------------------------------------------
(* What a step may do to a bucket.                                         *)

\* A filled bucket stays as it is until DrainBucket hands it over: no late
\* fragment, duplicate or second timeout touches it.
THEOREM Frozen == Spec => FilledIsFrozen
<1> DEFINE A == \A k \in Keys : Buckets[k].state = "filled" /\ Buckets'[k] # Buckets[k] =>
                  /\ Buckets'[k] = NoBucket
                  /\ handed' = Append(handed, [key    |-> k,
                                               frags  |-> Buckets[k].frags,
                                               maxSeq |-> Buckets[k].maxSeq])
<1>1. KeyInv /\ [Next]_vars => [A]_vars
  <2> SUFFICES ASSUME KeyInv, [Next]_vars,
                      NEW k \in Keys, Buckets[k].state = "filled", Buckets'[k] # Buckets[k]
               PROVE  /\ Buckets'[k] = NoBucket
                      /\ handed' = Append(handed, [key    |-> k,
                                                   frags  |-> Buckets[k].frags,
                                                   maxSeq |-> Buckets[k].maxSeq])
    OBVIOUS
  <2>1. Buckets \in [Keys -> Bucket] /\ TypeOK
    BY DEF KeyInv, TypeOK
  <2>2. ASSUME NEW p \in Pushers, PushStore(p) PROVE FALSE
    <3>1. frag[p] \in Fragments /\ Buckets[frag[p].key].state \in {"absent", "open"}
      BY Zenon, <2>1, <2>2, NotDiscarded DEF PushStore, TypeOK
    <3>2. \A j \in Keys : j # frag[p].key => Buckets'[j] = Buckets[j]
      BY ZenonT(30), <2>1, <2>2 DEF PushStore
    <3> QED
      BY <3>1, <3>2
  <2>3. ASSUME NEW p \in Pushers, PushLate(p) PROVE FALSE
    BY <2>1, <2>3, LateSound
  <2>4. CASE WatchScan
    BY Zenon, <2>4 DEF WatchScan, Expired
  <2>5. CASE AsmDrain
    BY Zenon, <2>1, <2>5, DrainTakes
  <2> QED
    BY SMTT(30), <2>2, <2>3, <2>4, <2>5, BucketSteps
<1> QED
  BY <1>1, KeyInvariant, PTL DEF Spec, FilledIsFrozen

\* Counting is enough: a bucket with as many fragments as its message has,
\* none above the maximum, has them all.
LEMMA CompleteIffAll ==
  ASSUME NEW b \in Bucket, b.frags \subseteq 0 .. b.maxSeq
  PROVE  Complete(b) <=> b.frags = 0 .. b.maxSeq
<1>1. b.maxSeq \in Nat
  BY ShardAssumption DEF Bucket, Seqs
<1>2. \A m \in Nat : IsFiniteSet(0 .. m) /\ Cardinality(0 .. m) = m + 1
  BY FS_Interval
<1>3. IsFiniteSet(0 .. b.maxSeq) /\ Cardinality(0 .. b.maxSeq) = b.maxSeq + 1
  BY SMTT(30), <1>1, <1>2
<1> QED
  BY Zenon, <1>3, FS_Subset DEF Complete

\* A bucket is sealed with all its fragments, or after the deadline, never
\* early: whatever pushers raced, and although push compares a number only.
THEOREM SealedDue == Spec => SealedWhenDue
<1> DEFINE A == \A k \in Keys :
                  Buckets[k].state # "filled" /\ Buckets'[k].state = "filled" =>
                    \/ Buckets'[k].frags = 0 .. Buckets'[k].maxSeq
                    \/ clock - Buckets[k].last > Deadline
<1>1. DataInv /\ [Next]_vars => [A]_vars
  <2> SUFFICES ASSUME DataInv, [Next]_vars, NEW k \in Keys,
                      Buckets[k].state # "filled", Buckets'[k].state = "filled"
               PROVE  \/ Buckets'[k].frags = 0 .. Buckets'[k].maxSeq
                      \/ clock - Buckets[k].last > Deadline
    OBVIOUS
  <2>1. KeyInv /\ TypeOK /\ BucketsSound /\ Buckets \in [Keys -> Bucket]
    BY Zenon DEF DataInv, KeyInv, TypeOK
  <2>2. ASSUME NEW p \in Pushers, PushStore(p) PROVE Buckets'[k].frags = 0 .. Buckets'[k].maxSeq
    <3> DEFINE f == frag[p]
               b == Stored(BucketFor(f), f, start[p])
    <3>1. /\ f.key \in Keys /\ b \in Bucket /\ b.state = "open"
          /\ b.frags \subseteq 0 .. b.maxSeq
          /\ \/ Complete(b) /\ Buckets' = [Buckets EXCEPT ![f.key] = Sealed(b)]
             \/ ~Complete(b) /\ Buckets' = [Buckets EXCEPT ![f.key] = b]
      BY Zenon, <2>1, <2>2, StoredSound
    <3> HIDE DEF f, b
    <3>2. k = f.key /\ Complete(b) /\ Buckets'[k] = Sealed(b)
      BY Zenon, <2>1, <3>1
    <3>3. b.frags = 0 .. b.maxSeq
      BY SMTT(30), <3>1, <3>2, CompleteIffAll
    <3> QED
      BY <3>1, <3>2, <3>3, SealedFields
  <2>3. ASSUME NEW p \in Pushers, PushLate(p) PROVE clock - Buckets[k].last > Deadline
    <3>1. k = frag[p].key /\ start[p] - Buckets[k].last > Deadline
      BY SMTT(30), <2>1, <2>3, LateSound
    <3>2. start[p] <= clock /\ start[p] \in Int /\ clock \in Int /\ Buckets[k].last \in Int
      BY <2>1 DEF BucketsSound, TypeOK, Time, Bucket
    <3> QED
      BY SMTT(30), <3>1, <3>2, ShardAssumption
  <2>4. CASE WatchScan
    BY <2>4 DEF WatchScan, Expired
  <2>5. CASE AsmDrain
    BY <2>1, <2>5, DrainTakes DEF NoBucket
  <2> QED
    BY <2>1, <2>2, <2>3, <2>4, <2>5, BucketSteps
<1> QED
  BY <1>1, DataInvariant, PTL DEF Spec, SealedWhenDue

----------------------------------------------------------------------------
(* Refinement.                                                             *)

\* Sealing a set of open buckets is the abstract Seal.
LEMMA SealsAre ==
  ASSUME Buckets \in [Keys -> Bucket], NEW K \in SUBSET Keys,
         \A k \in K : Buckets[k].state = "open",
         \A k \in Keys : Buckets'[k] = IF k \in K THEN Sealed(Buckets[k]) ELSE Buckets[k],
         handed' = handed
  PROVE  R!Seal(K)
<1> DEFINE View(b) == [state |-> b.state, frags |-> b.frags, maxSeq |-> b.maxSeq]
           store == [k \in Keys |-> View(Buckets[k])]
<1>1. \A k \in Keys : View(Buckets'[k]) =
        IF k \in K THEN [View(Buckets[k]) EXCEPT !.state = "filled"] ELSE View(Buckets[k])
  BY SealedFields
<1>2. store' = [k \in Keys |-> IF k \in K THEN [store[k] EXCEPT !.state = "filled"]
                               ELSE store[k]]
  BY <1>1
<1> QED
  BY <1>2 DEF R!Seal

\* The shard implements Reassembly: each step of each goroutine is one step of
\* the abstract store, or leaves it unchanged.
THEOREM Implements == Spec => ImplementsReassembly
<1> DEFINE View(b) == [state |-> b.state, frags |-> b.frags, maxSeq |-> b.maxSeq]
           store == [k \in Keys |-> View(Buckets[k])]
<1>1. Init => R!RInit
  BY DEF Init, R!RInit, R!Empty, NoBucket
<1>2. DataInv /\ [Next]_vars => [R!RNext]_(R!rvars)
  <2> SUFFICES ASSUME DataInv, [Next]_vars PROVE R!RNext \/ UNCHANGED R!rvars
    OBVIOUS
  <2>1. KeyInv /\ TypeOK /\ BucketsSound /\ Buckets \in [Keys -> Bucket]
    BY DEF DataInv, KeyInv, TypeOK
  <2>2. CASE UNCHANGED <<Buckets, handed>>
    BY <2>2 DEF R!rvars
  <2>3. ASSUME NEW p \in Pushers, PushStore(p) PROVE R!RNext
    <3> DEFINE b == Stored(BucketFor(frag[p]), frag[p], start[p])
    <3>1. frag[p] \in Fragments
      BY <2>3 DEF PushStore, TypeOK, DataInv, KeyInv
    <3>2. PICK f \in Fragments : f = frag[p]
      BY <3>1
    <3>3. PICK k0 \in Keys, s0 \in 0 .. MaxSeq, m0 \in 0 .. MaxSeq :
            k0 = f.key /\ s0 = f.seq /\ m0 = f.max /\ s0 <= m0
      BY <2>1, BucketForType DEF Seqs
    <3>4. /\ b \in Bucket /\ b.state = "open" /\ b.maxSeq = m0
          /\ b.frags \subseteq 0 .. m0
          /\ b.frags = BucketFor(f).frags \union {s0}
          /\ \/ Complete(b) /\ Buckets' = [Buckets EXCEPT ![k0] = Sealed(b)]
             \/ ~Complete(b) /\ Buckets' = [Buckets EXCEPT ![k0] = b]
          /\ handed' = handed
      BY Zenon, <2>1, <2>3, <3>2, <3>3, StoredSound DEF PushStore
    <3>5. Buckets[k0].state \in {"absent", "open"} /\ BucketFor(f).maxSeq = m0
      BY Zenon, <2>1, <2>3, <3>2, <3>3, NotDiscarded DEF PushStore
    <3>6. BucketFor(f).frags = Buckets[k0].frags
      BY Zenon, <2>1, <3>3, <3>5 DEF BucketFor, BucketsSound, Sound, NoBucket
    <3>7. Buckets[k0].state = "open" => Buckets[k0].maxSeq = m0
      BY <3>3, <3>5 DEF BucketFor
    <3>8. Complete(b) <=> b.frags = 0 .. m0
      BY Zenon, <3>4, CompleteIffAll
    <3> HIDE DEF b
    <3>9. View(Buckets'[k0]) = [state  |-> IF b.frags = 0 .. m0 THEN "filled" ELSE "open",
                                frags  |-> b.frags,
                                maxSeq |-> m0]
      <4>1. CASE Complete(b)
        <5>1. Buckets'[k0] = Sealed(b)
          BY <2>1, <3>4, <4>1
        <5>2. /\ Sealed(b).state = "filled"
              /\ Sealed(b).frags = b.frags
              /\ Sealed(b).maxSeq = b.maxSeq
          BY <3>4, SealedFields
        <5> QED
          BY ZenonT(30), <3>4, <3>8, <4>1, <5>1, <5>2
      <4>2. CASE ~Complete(b)
        BY SMTT(30), <2>1, <3>4, <3>8, <4>2
      <4> QED
        BY <4>1, <4>2
    <3>10. R!With(k0, s0, m0) = View(Buckets'[k0])
      BY SMTT(30), <3>4, <3>6, <3>9 DEF R!With
    <3>11. \A k \in Keys : k # k0 => Buckets'[k] = Buckets[k]
      BY <2>1, <3>4
    <3>12. store' = [store EXCEPT ![k0] = R!With(k0, s0, m0)]
      BY Zenon, <3>10, <3>11
    <3>13. R!Add(k0, s0, m0)
      BY Zenon, <3>3, <3>4, <3>5, <3>7, <3>12 DEF R!Add
    <3> QED
      BY SMTT(30), <3>13 DEF R!RNext
  <2>4. ASSUME NEW p \in Pushers, PushLate(p) PROVE R!RNext
    <3>1. PICK k0 \in Keys : k0 = frag[p].key
      BY <2>1, <2>4, LateSound
    <3>2. /\ Buckets[k0].state = "open"
          /\ Buckets' = [Buckets EXCEPT ![k0] = Sealed(Buckets[k0])]
          /\ handed' = handed
      BY Zenon, <2>1, <2>4, <3>1, LateSound DEF PushLate
    <3>3. R!Seal({k0})
      BY <2>1, <3>2, SealsAre
    <3> QED
      BY <3>3 DEF R!RNext
  <2>5. CASE WatchScan
    <3>1. PICK K \in SUBSET Keys : K = {k \in Keys : Expired(Buckets[k])}
      BY Zenon
    <3>2. R!Seal(K)
      BY <2>1, <2>5, <3>1, SealsAre DEF WatchScan, Expired
    <3> QED
      BY <3>2 DEF R!RNext
  <2>6. CASE AsmDrain
    <3>1. PICK k0 \in Keys : k0 = akey
      BY <2>1, <2>6, DrainTakes
    <3>2. /\ Buckets[k0].state = "filled"
          /\ Buckets' = [Buckets EXCEPT ![k0] = NoBucket]
          /\ handed' = Append(handed, [key    |-> k0,
                                       frags  |-> Buckets[k0].frags,
                                       maxSeq |-> Buckets[k0].maxSeq])
      BY SMTT(30), <2>1, <2>6, <3>1, DrainTakes
    <3>3. R!Empty = View(NoBucket)
      BY DEF R!Empty, NoBucket
    <3>4. store' = [store EXCEPT ![k0] = R!Empty]
      BY ZenonT(30), <2>1, <3>2, <3>3
    <3>5. R!Take(k0)
      BY <3>2, <3>4 DEF R!Take
    <3> QED
      BY <3>5 DEF R!RNext
  <2> QED
    BY SMTT(30), <2>1, <2>2, <2>3, <2>4, <2>5, <2>6, BucketSteps
<1> QED
  BY <1>1, <1>2, DataInvariant, PTL DEF Spec, ImplementsReassembly, R!RSpec

----------------------------------------------------------------------------
(* No filled bucket is forgotten while no context is cancelled.            *)

\* The watcher has no keys left when it starts its next scan.
WatcherEmpty == wpc \notin {"send", "count"} => keysToSend = {}

LEMMA NextWatcher == TypeOK /\ WatcherEmpty /\ [Next]_vars => WatcherEmpty'
<1> SUFFICES ASSUME TypeOK, WatcherEmpty, [Next]_vars PROVE WatcherEmpty'
  BY SMTT(30)
<1> USE DEF WatcherEmpty
<1>1. CASE Tick \/ CancelShard \/ AssemblerStep \/ UNCHANGED vars
  BY <1>1 DEF Tick, CancelShard, AssemblerStep, AsmTop, AsmPop, AsmPopDone,
              AsmLoad, AsmSubtract, AsmDrain, vars, wvars
<1>2. ASSUME NEW p \in Pushers, NEW f \in Fragments, Receive(p, f) PROVE WatcherEmpty'
  BY <1>2 DEF Receive, wvars
<1>3. ASSUME NEW p \in Pushers, CancelPusher(p) \/ Push(p) PROVE WatcherEmpty'
  BY Zenon, <1>3 DEF CancelPusher, Push, PushDiscard, PushLate, PushStore, PushSend,
              PushCount, PushAbort, wvars
<1>4. CASE Watcher
  BY <1>4 DEF Watcher, WatchTop, WatchScan, WatchSend, WatchCount, WatchAbort
<1> QED
  BY TrafficFits, <1>1, <1>2, <1>3, <1>4 DEF Next

AnnounceInv == DataInv /\ WatcherEmpty /\ FilledIsAnnounced

\* Keys are lost only by the two selects that a cancelled context ends.
LEMMA NextFilled == AnnounceInv /\ [Next]_vars => FilledIsAnnounced'
<1> SUFFICES ASSUME AnnounceInv, [Next]_vars, cancelled' = {}, ~ctxDone',
                    NEW k \in Keys, Buckets'[k].state = "filled"
             PROVE  Announced(k)'
  BY Zenon DEF FilledIsAnnounced
<1>1. /\ DataInv /\ KeyInv /\ TypeOK /\ BucketsSound
      /\ Buckets \in [Keys -> Bucket]
      /\ pc \in [Pushers -> {"idle", "lock", "send", "count"}]
      /\ frag \in [Pushers -> Fragments \union {NoFragment}]
  BY Zenon DEF AnnounceInv, DataInv, KeyInv, TypeOK
<1>2. ASSUME UNCHANGED <<cancelled, ctxDone>>, Buckets'[k] = Buckets[k]
      PROVE  Announced(k)
  BY ZenonT(30), <1>2 DEF AnnounceInv, FilledIsAnnounced
<1>3. ASSUME UNCHANGED <<cancelled, ctxDone, Buckets, keyQueue, keysToSend, akey>>,
             \A q \in Pushers : pc[q] = "send" => pc'[q] = "send" /\ frag'[q] = frag[q]
      PROVE  Announced(k)'
  BY <1>2, <1>3 DEF Announced, Queued, AtPusher, AtWatcher, AtAssembler
<1>4. CASE Tick \/ UNCHANGED vars
  BY Zenon, <1>3, <1>4 DEF Tick, vars, pvars, wvars, avars
<1>5. CASE CancelShard
  BY <1>5 DEF CancelShard
<1>6. ASSUME NEW p \in Pushers, NEW f \in Fragments, Receive(p, f) PROVE Announced(k)'
  BY <1>1, <1>3, <1>6 DEF Receive, wvars, avars
<1>7. ASSUME NEW p \in Pushers, CancelPusher(p) PROVE FALSE
  BY ZenonT(30), <1>7 DEF CancelPusher
<1>8. ASSUME NEW p \in Pushers, PushDiscard(p) \/ PushCount(p) PROVE Announced(k)'
  BY SMTT(30), <1>1, <1>3, <1>8 DEF PushDiscard, PushCount, Return, wvars, avars
<1>9. ASSUME NEW p \in Pushers, PushAbort(p) PROVE FALSE
  BY <1>9 DEF PushAbort, Return
<1>10. ASSUME NEW p \in Pushers, BlockOnSend(p), pc[p] = "lock", frag[p] \in Fragments,
              \A j \in Keys : j # frag[p].key => Buckets'[j] = Buckets[j],
              UNCHANGED <<keyQueue, keysToSend, akey, ctxDone>>
       PROVE  Announced(k)'
  <2>1. pc'[p] = "send" /\ frag' = frag /\ cancelled' = cancelled
    BY <1>1, <1>10 DEF BlockOnSend
  <2>2. CASE k = frag[p].key
    BY SMTT(30), <2>1, <2>2 DEF Announced, AtPusher
  <2>3. CASE k # frag[p].key
    <3>1. Announced(k)
      BY Zenon, <1>2, <1>10, <2>1, <2>3
    <3> QED
      BY <1>1, <1>10, <2>1, <3>1
      DEF Announced, Queued, AtPusher, AtWatcher, AtAssembler, BlockOnSend
  <2> QED
    BY SMTT(30), <2>2, <2>3
<1>11. ASSUME NEW p \in Pushers, PushLate(p) PROVE Announced(k)'
  <2>1. /\ frag[p] \in Fragments /\ BlockOnSend(p) /\ pc[p] = "lock"
        /\ \A j \in Keys : j # frag[p].key => Buckets'[j] = Buckets[j]
        /\ UNCHANGED <<keyQueue, keysToSend, akey, ctxDone>>
    BY Zenon, <1>1, <1>11, LateSound DEF PushLate, wvars, avars
  <2> QED
    BY Zenon, <1>10, <2>1
<1>12. ASSUME NEW p \in Pushers, PushStore(p) PROVE Announced(k)'
  <2> DEFINE f == frag[p]
             b == Stored(BucketFor(f), f, start[p])
  <2>1. /\ f \in Fragments /\ f.key \in Keys /\ b.state = "open"
        /\ \/ Complete(b) /\ Buckets' = [Buckets EXCEPT ![f.key] = Sealed(b)]
           \/ ~Complete(b) /\ Buckets' = [Buckets EXCEPT ![f.key] = b]
    BY Zenon, <1>1, <1>12, StoredSound
  <2>2. /\ pc[p] = "lock"
        /\ UNCHANGED <<keyQueue, keysToSend, akey, ctxDone>>
        /\ Complete(b) => BlockOnSend(p)
        /\ ~Complete(b) => Return(p)
    BY ZenonT(30), <1>12 DEF PushStore, wvars, avars
  <2> HIDE DEF b
  <2>3. \A j \in Keys : j # f.key => Buckets'[j] = Buckets[j]
    BY SMTT(30), <1>1, <2>1
  <2>4. CASE Complete(b)
    BY <1>10, <2>1, <2>2, <2>3, <2>4
  <2>5. CASE ~Complete(b)
    <3>1. k # f.key
      BY SMTT(30), <1>1, <2>1, <2>5
    <3>2. Announced(k)
      BY SMTT(30), <1>2, <2>2, <2>3, <2>5, <3>1 DEF Return
    <3> QED
      BY ZenonT(30), <1>1, <2>2, <2>5, <3>2
      DEF Announced, Queued, AtPusher, AtWatcher, AtAssembler, Return
  <2> QED
    BY <2>4, <2>5
<1>13. ASSUME NEW p \in Pushers, PushSend(p) PROVE Announced(k)'
  <2>1. /\ UNCHANGED <<Buckets, cancelled, ctxDone, frag, keysToSend, akey>>
        /\ \A q \in Pushers : q # p => pc'[q] = pc[q]
        /\ keyQueue' = Append(keyQueue, frag[p].key)
        /\ keyQueue \in Seq(Keys) /\ frag[p] \in Fragments
    BY <1>1, <1>13 DEF PushSend, wvars, avars, TypeOK
  <2>2. frag[p].key \in Keys
    BY <1>1, <2>1, BucketForType
  <2>3. PICK k0 \in Keys : k0 = frag[p].key
    BY SMTT(30), <2>2
  <2>4. Queued(k)' <=> Queued(k) \/ k = k0
    BY SMTT(30), <2>1, <2>3, AppendQueued
  <2>5. Announced(k)
    BY SMTT(30), <1>2, <2>1
  <2> QED
    BY SMTT(30), <2>1, <2>3, <2>4, <2>5 DEF Announced, AtPusher, AtWatcher, AtAssembler
<1>14. CASE WatchTop \/ WatchCount
  BY <1>3, <1>14 DEF WatchTop, WatchCount, pvars, avars
<1>15. CASE WatchScan
  <2>1. /\ keysToSend = {}
        /\ UNCHANGED <<cancelled, ctxDone, keyQueue, akey, pc, frag>>
        /\ keysToSend' = {j \in Keys : Expired(Buckets[j])}
        /\ k \notin keysToSend' => Buckets'[k] = Buckets[k]
    BY <1>15 DEF WatchScan, AnnounceInv, WatcherEmpty, pvars, avars
  <2>2. CASE k \in keysToSend'
    BY <2>2 DEF Announced, AtWatcher
  <2>3. CASE k \notin keysToSend'
    <3>1. Announced(k)
      BY Zenon, <1>2, <2>1, <2>3
    <3> QED
      BY Zenon, <2>1, <3>1 DEF Announced, Queued, AtPusher, AtWatcher, AtAssembler
  <2> QED
    BY SMTT(30), <2>2, <2>3
<1>16. ASSUME NEW k0 \in Keys, WatchSend(k0) PROVE Announced(k)'
  <2>1. /\ UNCHANGED <<Buckets, cancelled, ctxDone, pc, frag, akey>>
        /\ keysToSend' = keysToSend \ {k0}
        /\ keyQueue' = Append(keyQueue, k0)
        /\ keyQueue \in Seq(Keys)
    BY <1>1, <1>16 DEF WatchSend, pvars, avars, TypeOK
  <2>2. Queued(k)' <=> Queued(k) \/ k = k0
    BY ZenonT(30), <2>1, AppendQueued
  <2>3. Announced(k)
    BY <1>2, <2>1
  <2> QED
    BY ZenonT(30), <2>1, <2>2, <2>3 DEF Announced, AtPusher, AtWatcher, AtAssembler
<1>17. CASE WatchAbort
  BY SMTT(30), <1>17 DEF WatchAbort
<1>18. CASE AsmTop \/ AsmPopDone \/ AsmLoad \/ AsmSubtract
  BY <1>3, <1>18 DEF AsmTop, AsmPopDone, AsmLoad, AsmSubtract, pvars, wvars
<1>19. CASE AsmPop
  <2>1. /\ UNCHANGED <<Buckets, cancelled, ctxDone, pc, frag, keysToSend>>
        /\ akey' = Head(keyQueue) /\ keyQueue' = Tail(keyQueue)
        /\ keyQueue \in Seq(Keys) /\ keyQueue # <<>> /\ akey \notin Keys
    BY SMTT(30), <1>1, <1>19 DEF AsmPop, pvars, wvars, TypeOK
  <2>2. Announced(k) /\ ~AtAssembler(k)
    BY <1>2, <2>1 DEF AtAssembler
  <2>3. Queued(k) => Queued(k)' \/ AtAssembler(k)'
    <3> SUFFICES ASSUME NEW i \in 1 .. Len(keyQueue), keyQueue[i] = k
                 PROVE  Queued(k)' \/ AtAssembler(k)'
      BY DEF Queued
    <3>1. CASE i = 1
      BY <2>1, <3>1 DEF AtAssembler
    <3>2. CASE i # 1
      <4>1. i - 1 \in 1 .. Len(keyQueue') /\ keyQueue'[i - 1] = k
        BY SMTT(30), <2>1, <3>2
      <4> QED
        BY <4>1 DEF Queued
    <3> QED
      BY <3>1, <3>2
  <2> QED
    BY ZenonT(30), <2>1, <2>2, <2>3 DEF Announced, AtPusher, AtWatcher, AtAssembler
<1>20. CASE AsmDrain
  <2>1. /\ UNCHANGED <<cancelled, ctxDone, keyQueue, pc, frag, keysToSend>>
        /\ akey' = NoOne
    BY <1>20 DEF AsmDrain, pvars, wvars
  <2>2. k # akey /\ Buckets'[k] = Buckets[k]
    BY SMTT(30), <1>1, <1>20, DrainTakes DEF NoBucket
  <2>3. Announced(k)
    BY <1>2, <2>1, <2>2
  <2> QED
    BY SMTT(30), <2>1, <2>2, <2>3 DEF Announced, Queued, AtPusher, AtWatcher, AtAssembler
<1> QED
  BY ZenonT(30), TrafficFits, <1>4, <1>5, <1>6, <1>7, <1>8, <1>9, <1>11, <1>12, <1>13, <1>14, <1>15, <1>16,
     <1>17, <1>18, <1>19, <1>20
  DEF Next, Push, Watcher, AssemblerStep

\* As long as nobody is stopped, every filled bucket is on its way to the
\* assembler: its key is with the goroutine that sealed it, queued, or taken.
THEOREM FilledAnnounced == Spec => []FilledIsAnnounced
<1>1. Init => WatcherEmpty /\ FilledIsAnnounced
  BY DEF Init, WatcherEmpty, FilledIsAnnounced, NoBucket
<1>2. DataInv => TypeOK
  BY DEF DataInv, KeyInv
<1>3. DataInv /\ WatcherEmpty /\ FilledIsAnnounced /\ [Next]_vars
        => WatcherEmpty' /\ FilledIsAnnounced'
  BY <1>2, NextWatcher, NextFilled DEF AnnounceInv
<1> QED
  BY <1>1, <1>3, DataInvariant, PTL DEF Spec

============================================================================
