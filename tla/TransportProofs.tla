-------------------------- MODULE TransportProofs --------------------------
(***************************************************************************)
(* What the replay cache and the validity window of timestamps achieve     *)
(* together, for every message, window, number of listeners, shards and    *)
(* fragments: a datagram is routed twice only if its timestamp is valid    *)
(* TTL seconds after the start.                                            *)
(*                                                                         *)
(* The replay cache inside Transport does what the cache alone does, so    *)
(* that its invariant carries over.  To it comes where datagrams are: each *)
(* admission pays for one datagram in the queue or in the bucket, and the  *)
(* second admission comes TTL seconds after the first.                     *)
(*                                                                         *)
(* A listener and the eviction decide with a time read earlier, so that    *)
(* what the map holds is not enough to bound when a datagram may come      *)
(* back.  The invariant of the cache is that a datagram admitted once is   *)
(* still stored with the time of its last admission, or that admission is  *)
(* TTL seconds old; the times read are never ahead of the clock.           *)
(***************************************************************************)
EXTENDS Transport, TLAPS, FiniteSetTheorems, WellFoundedInduction

(* The cache alone *)

Remembered(k) == k \in seen /\ seenTime[k] = lastRead[k]

Past(k) == clock >= lastRead[k] + TTL

CacheInv ==
  /\ CacheTypeOK
  /\ sweep.now <= clock
  /\ \A l \in Listeners : call[l].now <= clock
  /\ \A k \in Datagrams : times[k] > 0 => Remembered(k) \/ Past(k)
  /\ \A k \in seen : seenTime[k] = lastRead[k]

\* The idle call is a call: there is a datagram to name in it.
LEMMA IdleIsCall == Idle \in Calls /\ Idle.now = 0
  <1>1. \E k \in Datagrams : TRUE
    BY CacheAssumption
  <1>2. (CHOOSE k \in Datagrams : TRUE) \in Datagrams
    BY <1>1
  <1> QED
    BY <1>2 DEF Idle, Calls

\* An empty cache satisfies the invariant (newReplayCacheWithShards).
LEMMA CacheInvInit == CacheInit => CacheInv
  <1> SUFFICES ASSUME CacheInit PROVE CacheInv
    OBVIOUS
  <1> USE DEF CacheInit
  <1>1. CacheTypeOK
    BY SMTT(30), IdleIsCall, CacheAssumption DEF CacheTypeOK, Sweeps
  <1> QED
    BY <1>1, IdleIsCall, CacheAssumption DEF CacheInv

\* Every step of the listeners, of the eviction and of the clock keeps it.
LEMMA CacheInvNext == CacheInv /\ [CacheNext]_rcvars => CacheInv'
  <1> SUFFICES ASSUME CacheInv, [CacheNext]_rcvars PROVE CacheInv'
    OBVIOUS
  <1> USE CacheAssumption DEF CacheInv, CacheTypeOK, Remembered, Past
  <1>1. CASE Tick
    BY <1>1 DEF Tick, Calls, Sweeps
  <1>2. ASSUME NEW l \in Listeners, NEW k \in Datagrams, Arrive(l, k) PROVE CacheInv'
    BY <1>2 DEF Arrive, Calls
  <1>3. ASSUME NEW l \in Listeners, Refuse(l) PROVE CacheInv'
    BY <1>3, IdleIsCall DEF Refuse, Return
  <1>4. ASSUME NEW l \in Listeners, Admit(l) PROVE CacheInv'
    <2> DEFINE a == call[l].key
    <2>1. a \in Datagrams /\ call[l].now \in Int
      BY DEF Calls
    <2>2. /\ seen' = seen \union {a}
          /\ seenTime' = [seenTime EXCEPT ![a] = call[l].now]
          /\ times' = [times EXCEPT ![a] = @ + 1]
          /\ lastRead' = [lastRead EXCEPT ![a] = call[l].now]
          /\ call' = [call EXCEPT ![l] = Idle]
          /\ UNCHANGED <<clock, sweep>>
      BY <1>4 DEF Admit, Return
    <2>3. CacheTypeOK'
      BY <2>1, <2>2, IdleIsCall
    <2>4. \A i \in Listeners : call'[i].now <= clock'
      BY <2>2, IdleIsCall
    <2>5. \A k \in Datagrams : (times'[k] > 0 => Remembered(k)' \/ Past(k)')
      BY <2>1, <2>2
    <2>6. \A k \in seen' : seenTime'[k] = lastRead'[k]
      BY <2>1, <2>2
    <2> QED
      BY ZenonT(30), <2>2, <2>3, <2>4, <2>5, <2>6
  <1>5. CASE CleanupTicks
    <2>1. sweep' \in Sweeps /\ sweep'.now = 0
      BY <1>5 DEF CleanupTicks, Sweeps
    <2> QED
      BY <1>5, <2>1 DEF CleanupTicks
  <1>6. CASE CleanupReads
    <2>1. sweep' \in Sweeps /\ sweep'.now = clock
      BY <1>6 DEF CleanupReads, Sweeps
    <2> QED
      BY <1>6, <2>1 DEF CleanupReads
  <1>7. CASE CleanupShard
    <2>1. CacheTypeOK'
      BY <1>7 DEF CleanupShard, Sweeps
    <2>2. sweep'.now <= clock'
      BY <1>7 DEF CleanupShard, Sweeps
    <2>3. ASSUME NEW k \in Datagrams, times'[k] > 0 PROVE Remembered(k)' \/ Past(k)'
      <3>1. CASE k \in seen /\ Expired(k)
        BY <1>7, <2>3, <3>1 DEF CleanupShard, Expired, Sweeps
      <3>2. CASE ~(k \in seen /\ Expired(k))
        BY <1>7, <2>3, <3>2 DEF CleanupShard
      <3> QED
        BY <3>1, <3>2
    <2> QED
      BY <1>7, <2>1, <2>2, <2>3 DEF CleanupShard
  <1>8. CASE UNCHANGED rcvars
    BY <1>8 DEF rcvars
  <1> QED
    BY <1>1, <1>2, <1>3, <1>4, <1>5, <1>6, <1>7, <1>8 DEF CacheNext

\* The invariant holds of the cache in every state.
THEOREM CacheIsSound == CacheSpec => []CacheInv
  BY CacheInvInit, CacheInvNext, PTL DEF CacheSpec

\* A step that admits a datagram again comes TTL seconds after the time read for
\* its last admission.
LEMMA AdmittedLate ==
  ASSUME CacheInv, CacheNext, NEW k \in Datagrams, times[k] > 0, times'[k] > times[k]
  PROVE  clock >= lastRead[k] + TTL
  <1> USE CacheAssumption DEF CacheInv, CacheTypeOK
  <1>1. PICK l \in Listeners : Admit(l)
    BY DEF CacheNext, Tick, CleanupTicks, CleanupReads, CleanupShard, Refuse, Arrive
  <1>2. call[l].key = k
    BY <1>1 DEF Admit, Calls
  <1>3. CASE k \in seen
    BY <1>1, <1>2, <1>3 DEF Admit, IsReplayed, Calls
  <1>4. CASE k \notin seen
    BY <1>4 DEF Remembered, Past
  <1> QED
    BY <1>3, <1>4

\* isReplayed refuses every datagram for TTL seconds after the time it read for
\* the last one it admitted, for any interleaving of listeners and eviction
\* (replayprotection.go:36-80).
THEOREM WindowIsKept == CacheSpec => WindowKept
  <1> DEFINE Late == \A k \in Datagrams :
               times[k] > 0 /\ times'[k] > times[k] => clock >= lastRead[k] + TTL
  <1>1. CacheInv /\ [CacheNext]_rcvars => [Late]_rcvars
    BY AdmittedLate
  <1>2. CacheSpec => [][Late]_rcvars
    BY <1>1, CacheIsSound, PTL DEF CacheSpec
  <1> QED
    BY <1>2 DEF WindowKept

(* The cache inside Transport *)

\* A step of the message's way is a step of the cache, or leaves it alone.
LEMMA StepOfCache == [Next]_tvars => [CacheNext]_rcvars
  <1> SUFFICES ASSUME [Next]_tvars PROVE [CacheNext]_rcvars
    OBVIOUS
  <1>1. CASE UNCHANGED tvars
    BY <1>1 DEF tvars
  <1>2. ASSUME NEW i \in Datagrams, Lose(i) \/ Copy(i) \/ Process(i) PROVE UNCHANGED rcvars
    BY ZenonT(30), <1>2 DEF Lose, Copy, Process
  <1>3. ASSUME NEW l \in Listeners, DropReplayed(l) \/ Forward(l) PROVE CacheNext
    BY ZenonT(30), <1>3 DEF DropReplayed, Forward, CacheNext
  <1>4. ASSUME NEW l \in Listeners, NEW i \in Datagrams, Receive(l, i) PROVE CacheNext
    BY <1>4 DEF Receive, CacheNext
  <1>5. CASE Background
    BY <1>5 DEF Background, CacheNext
  <1>6. CASE NewPinnedSenders \/ Expire \/ Assemble
    BY <1>6 DEF NewPinnedSenders, Expire, Assemble
  <1> QED
    BY ZenonT(30), <1>1, <1>2, <1>3, <1>4, <1>5, <1>6 DEF Next

\* The listeners of Transport use the replay cache as ReplayCache has it: with
\* the rest of the receiver around it, it implements its own specification.
THEOREM ImplementsCache == Spec => CacheSpec
  <1>1. Init => CacheInit
    BY DEF Init
  <1> QED
    BY <1>1, StepOfCache, PTL DEF Spec, CacheSpec

(* The timestamp on its way *)

\* A set of natural numbers has a least one.
LEMMA LeastNumber ==
  ASSUME NEW S, S \subseteq Nat, S # {}
  PROVE  \E k \in S : \A j \in S : k <= j
  <1>1. PICK k \in S : \A j \in S : ~(<<j, k>> \in OpToRel(<, Nat))
    BY NatLessThanWellFounded, WFMin, ZenonT(30)
  <1>2. \A j \in S : ~(j < k)
    BY ZenonT(30), <1>1 DEF OpToRel
  <1> QED
    BY <1>2

\* Fragment copies the timestamp into every fragment.
LEMMA FragmentStamps ==
  ASSUME NEW p, NEW size, NEW fixed, NEW pad, "Timestamp" \in DOMAIN p,
         Fragment(p, size, fixed, pad).err = "none",
         NEW n \in DOMAIN Fragment(p, size, fixed, pad).fragments
  PROVE  Fragment(p, size, fixed, pad).fragments[n].Timestamp = p.Timestamp
  BY ZenonT(30) DEF Fragment, Fail

\* ... which are numbered.
LEMMA FragmentNumbers ==
  ASSUME NEW p, NEW size, NEW fixed, NEW pad, Fragment(p, size, fixed, pad).err = "none"
  PROVE  DOMAIN Fragment(p, size, fixed, pad).fragments \subseteq Nat
  <1>1. ASSUME NEW S, S \subseteq 0 .. MaxFragments - 1 PROVE 1 .. Cardinality(S) \subseteq Nat
    <2>1. IsFiniteSet(0 .. MaxFragments - 1)
      BY SMTT(30), TransportAssumption, FS_Interval
    <2>2. Cardinality(S) \in Nat
      BY ZenonT(30), <1>1, <2>1, FS_Subset, FS_CardinalityType
    <2> QED
      BY <2>2
  <1> QED
    BY ZenonT(30), <1>1 DEF Fragment, Fail

\* ConstructPayload copies it into what is written.
LEMMA PayloadStamps ==
  ASSUME NEW p, NEW sigID, ConstructPayload(p, sigID).err = "none"
  PROVE  /\ ConstructPayload(p, sigID).Timestamp = p.Timestamp
         /\ {"Timestamp", "PaddingLen", "err"} \subseteq DOMAIN ConstructPayload(p, sigID)
  BY ZenonT(30) DEF ConstructPayload, Fail

\* A datagram with the timestamp of its message inside.
Stamps(packet, t) ==
  /\ packet.inner.err = "none"
  /\ {"Timestamp", "PaddingLen", "err"} \subseteq DOMAIN packet.inner.fields
  /\ packet.inner.fields.err = "none"
  /\ packet.inner.fields.Timestamp = t

\* The outer payload holds the inner one as it is.
LEMMA OuterHolds ==
  ASSUME NEW inner, NEW encrypt, NEW pub, ConstructOuterPayload(inner, encrypt, pub).err = "none"
  PROVE  ConstructOuterPayload(inner, encrypt, pub).inner = inner
  BY ZenonT(30) DEF ConstructOuterPayload, Fail

\* Both layers of a datagram keep it.
LEMMA PacketStamps ==
  ASSUME NEW p, NEW sigID, NEW encrypt, NEW pub,
         CreatePacket(p, sigID, encrypt, pub).err = "none"
  PROVE  Stamps(CreatePacket(p, sigID, encrypt, pub), p.Timestamp)
  <1> DEFINE payload == ConstructPayload(p, sigID)
             inner == ConstructInnerPayload(payload)
  <1>1. payload.err = "none"
    BY DEF CreatePacket, Then
  <1>2. /\ inner.err = "none"
        /\ CreatePacket(p, sigID, encrypt, pub) = ConstructOuterPayload(inner, encrypt, pub)
    BY ZenonT(30), <1>1 DEF CreatePacket, Then
  <1>3. inner.fields = [payload EXCEPT !.PaddingLen = 0]
    BY ZenonT(30), <1>2 DEF ConstructInnerPayload, Fail
  <1>4. CreatePacket(p, sigID, encrypt, pub).inner = inner
    BY SMTT(30), <1>2, OuterHolds
  <1> HIDE DEF payload, inner
  <1>5. /\ payload.Timestamp = p.Timestamp
        /\ {"Timestamp", "PaddingLen", "err"} \subseteq DOMAIN payload
    BY ZenonT(30), <1>1, PayloadStamps DEF payload
  <1> QED
    BY ZenonT(30), <1>1, <1>2, <1>3, <1>4, <1>5 DEF Stamps

\* A loop without an error has all its results, and none of them is an error.
LEMMA LoopResults ==
  ASSUME NEW results, DOMAIN results \subseteq Nat, Loop(results).err = "none"
  PROVE  /\ Loop(results).all = results
         /\ \A k \in DOMAIN results : results[k].err = "none"
  <1> DEFINE bad == {k \in DOMAIN results : results[k].err # "none"}
             first == CHOOSE k \in bad : \A j \in bad : k <= j
  <1>1. Loop(results) = IF bad # {} THEN Fail(results[first].err)
                        ELSE [err |-> "none", all |-> results]
    BY ZenonT(30) DEF Loop
  <1>2. \A k : k \in bad <=> k \in DOMAIN results /\ results[k].err # "none"
    OBVIOUS
  <1> HIDE DEF bad
  <1>3. bad = {}
    <2> SUFFICES ASSUME bad # {} PROVE FALSE
      OBVIOUS
    <2>1. bad \subseteq Nat
      BY <1>2
    <2>2. \E k \in bad : \A j \in bad : k <= j
      BY ZenonT(30), <2>1, LeastNumber
    <2>3. first \in bad
      BY SMTT(30), <2>2
    <2>4. Loop(results).err = results[first].err
      BY SMTT(30), <1>1 DEF Fail
    <2> QED
      BY SMTT(30), <1>2, <2>3, <2>4
  <1> QED
    BY SMTT(30), <1>1, <1>2, <1>3

\* Create puts the timestamp of the message into every datagram.
LEMMA CreateStamps ==
  ASSUME NEW in, NEW pad, CreateOf(in, pad).err = "none",
         NEW n \in DOMAIN CreateOf(in, pad).packets
  PROVE  Stamps(CreateOf(in, pad).packets[n], in.msg.Timestamp)
  <1> DEFINE key == SetupEncryptInnerPayload(in.encryptKey, NoKey)
             p == [HostID        |-> in.hostID,
                   MsgID         |-> in.msgID,
                   Timestamp     |-> in.msg.Timestamp,
                   Hostname      |-> in.msg.Hostname,
                   CustomFields  |-> in.msg.Fields,
                   Data          |-> in.msg.Data,
                   Signature     |-> CreateSignature(in.signKey,
                                       SerializeSignature(in.msg.Hostname, in.hostID,
                                                          in.msg.Timestamp), in.sigID),
                   MessageSeq    |-> 0,
                   MessageSeqMax |-> 0,
                   PaddingLen    |-> 0]
             overhead == CalculateProtocolOverhead(p)
             split == IF overhead.err # "none" THEN overhead
                      ELSE Fragment(p, in.maxPayloadSize, overhead.len, pad)
             packets == [k \in DOMAIN split.fragments |->
                           CreatePacket(split.fragments[k], in.sigID, key, k)]
             all == IF split.err # "none" THEN split ELSE Loop(packets)
  <1>1. CreateOf(in, pad) = IF all.err # "none" THEN all
                            ELSE [err |-> "none", packets |-> all.all]
    BY ZenonT(30) DEF CreateOf, Create, Then
  <1>2. "Timestamp" \in DOMAIN p /\ p.Timestamp = in.msg.Timestamp
    BY ZenonT(30)
  <1>3. all.err = "none" /\ split.err = "none"
    <2> HIDE DEF split, packets
    <2> QED
      BY <1>1, ZenonT(30)
  <1>4. split = Fragment(p, in.maxPayloadSize, overhead.len, pad)
    <2> HIDE DEF p, overhead
    <2> QED
      BY ZenonT(30), <1>3
  <1> HIDE DEF p, key, overhead, split
  <1>5. /\ DOMAIN split.fragments \subseteq Nat
        /\ \A k \in DOMAIN split.fragments : split.fragments[k].Timestamp = in.msg.Timestamp
    BY SMTT(30), <1>2, <1>3, <1>4, FragmentNumbers, FragmentStamps
  <1>6. /\ DOMAIN packets = DOMAIN split.fragments
        /\ \A k \in DOMAIN packets :
             packets[k] = CreatePacket(split.fragments[k], in.sigID, key, k)
    OBVIOUS
  <1> HIDE DEF packets
  <1>7. Loop(packets).err = "none" /\ CreateOf(in, pad).packets = Loop(packets).all
    BY SMTT(30), <1>1, <1>3
  <1>8. CreateOf(in, pad).packets = packets /\ packets[n].err = "none"
    BY SMTT(30), <1>5, <1>6, <1>7, LoopResults
  <1> QED
    BY SMTT(30), <1>5, <1>6, <1>8, PacketStamps

\* DeconstructPayload copies it into the fragment.
LEMMA FragmentKeepsStamp ==
  ASSUME NEW f, NEW hosts, DeconstructPayload(f, hosts).err = "none"
  PROVE  DeconstructPayload(f, hosts).Timestamp = f.Timestamp
  <1> DEFINE identity == Identity(StripMarkers(f.Hostname), f, hosts)
             context == DeconstructContext(f.ContextFields)
  <1>1. DeconstructPayload(f, hosts) \notin {identity, context}
           => DeconstructPayload(f, hosts).Timestamp = f.Timestamp
    BY ZenonT(30) DEF DeconstructPayload, Fail
  <1> QED
    BY ZenonT(30), <1>1 DEF DeconstructPayload, Fail

\* What comes out of a datagram has the timestamp of the message.
LEMMA ExtractStamps ==
  ASSUME NEW i, Stamps(Packets[i], input.msg.Timestamp), Payload(i).err = "none"
  PROVE  Payload(i).Timestamp = input.msg.Timestamp
  <1> DEFINE outer == DeconstructOuterPayload(Packets[i],
                        SetupDecryptInnerPayload(input.decryptKey, NoKey))
             inner == DeconstructInnerPayload(outer)
  <1>1. outer.err = "none" /\ inner.err = "none" /\ Payload(i) = DeconstructPayload(inner, pinned)
    BY ZenonT(30) DEF Payload, Then
  <1>2. outer = Packets[i].inner
    BY ZenonT(30), <1>1 DEF DeconstructOuterPayload, Fail
  <1>3. inner = [outer.fields EXCEPT !.PaddingLen = outer.len - InnerLen(outer.fields)]
    BY ZenonT(30), <1>1 DEF DeconstructInnerPayload, Fail
  <1> HIDE DEF outer, inner
  <1>4. inner.Timestamp = input.msg.Timestamp
    BY ZenonT(30), <1>2, <1>3 DEF Stamps
  <1>5. DeconstructPayload(inner, pinned).Timestamp = inner.Timestamp
    BY ZenonT(30), <1>1, FragmentKeepsStamp
  <1> QED
    BY SMTT(30), <1>1, <1>4, <1>5

(* The invariant *)

\* The datagrams anywhere are those Create made, with the message's timestamp.
FromCreate ==
  /\ \A i \in Sent : Stamps(Packets[i], input.msg.Timestamp)
  /\ \A i \in Datagrams : net[i] > 0 \/ inbox[i] > 0 => i \in Sent
  /\ \A l \in Listeners : call[l].busy => call[l].key \in Sent

\* Times read are not before the start, and a second admission is TTL after it.
AdmissionsApart ==
  /\ \A l \in Listeners : call[l].now >= 0
  /\ \A k \in Datagrams : lastRead[k] >= 0
  /\ \A k \in Datagrams : times[k] > 1 => clock >= TTL

\* Each admission pays for one datagram routed or to be routed.
Paid == \A i \in Datagrams : accepted[i] + inbox[i] <= times[i]

TransportInv == CacheInv /\ WayTypeOK /\ FromCreate /\ AdmissionsApart /\ Paid /\ NotTwice

\* At the start every datagram has its timestamp and none is admitted.
LEMMA TransportInvInit == Init => TransportInv
  <1> SUFFICES ASSUME Init PROVE TransportInv
    OBVIOUS
  <1>1. CacheInv /\ CacheInit
    BY SMTT(30), CacheInvInit DEF Init
  <1>2. WayTypeOK
    BY SMTT(30) DEF Init, WayTypeOK
  <1>3. FromCreate
    <2>1. \A i \in Sent : Stamps(Packets[i], input.msg.Timestamp)
      <3>1. PICK pad \in Paddings : created = CreateOf(input, pad)
        BY DEF Init
      <3> QED
        BY ZenonT(30), <3>1, CreateStamps DEF Sent, Packets
    <2>2. \A l \in Listeners : ~call[l].busy
      BY SMTT(30), <1>1 DEF CacheInit, Idle
    <2> QED
      BY SMTT(30), <2>1, <2>2 DEF FromCreate, Init
  <1>4. AdmissionsApart
    BY SMTT(30), <1>1, IdleIsCall DEF CacheInit, AdmissionsApart
  <1>5. Paid /\ NotTwice
    BY SMTT(30), <1>1 DEF Paid, NotTwice, Init, CacheInit
  <1> QED
    BY ZenonT(30), <1>1, <1>2, <1>3, <1>4, <1>5 DEF TransportInv

\* The cache leaves the admissions apart: a second admission is TTL seconds after
\* the time read for the first, which is no time before the start.
LEMMA ApartNext == TransportInv /\ [Next]_tvars => AdmissionsApart'
  <1> SUFFICES ASSUME TransportInv, [CacheNext]_rcvars PROVE AdmissionsApart'
    BY ZenonT(30), StepOfCache
  <1> USE CacheAssumption DEF TransportInv, CacheInv, CacheTypeOK, AdmissionsApart
  <1>1. \A l \in Listeners : call'[l].now >= 0
    BY SMTT(30), IdleIsCall DEF rcvars, CacheNext, Tick, CleanupTicks, CleanupReads, CleanupShard,
                      Refuse, Admit, Arrive, Return, Calls
  <1>2. \A k \in Datagrams : lastRead'[k] >= 0
    BY SMTT(30) DEF rcvars, CacheNext, Tick, CleanupTicks, CleanupReads, CleanupShard,
           Refuse, Admit, Arrive, Calls
  <1>3. clock' >= clock
    BY SMTT(30) DEF rcvars, CacheNext, Tick, CleanupTicks, CleanupReads, CleanupShard,
           Refuse, Admit, Arrive
  <1>4. clock' \in Nat
    BY ZenonT(30), CacheInvNext
  <1>5. ASSUME NEW k \in Datagrams, times'[k] > 1 PROVE clock' >= TTL
    <2>1. CASE times[k] > 1
      BY SMTT(30), <1>3, <1>4, <2>1
    <2>2. CASE times[k] <= 1
      <3>1. PICK l \in Listeners : Admit(l)
        BY SMTT(30), <1>5, <2>2 DEF rcvars, CacheNext, Tick, CleanupTicks, CleanupReads, CleanupShard,
                          Refuse, Arrive
      <3>2. times' = [times EXCEPT ![call[l].key] = @ + 1] /\ call[l].key \in Datagrams
        BY ZenonT(30), <3>1 DEF Admit, Calls
      <3>3. times[k] = 1 /\ times'[k] > times[k] /\ CacheNext
        BY SMTT(30), <1>5, <2>2, <3>1, <3>2 DEF CacheNext
      <3>4. clock >= lastRead[k] + TTL
        BY SMTT(30), <3>3, AdmittedLate
      <3> QED
        BY SMTT(30), <1>3, <1>4, <3>4
    <2> QED
      BY SMTT(30), <2>1, <2>2
  <1> QED
    BY ZenonT(30), <1>1, <1>2, <1>5

\* Every step on the way keeps the invariant.
LEMMA TransportInvNext == TransportInv /\ [Next]_tvars => TransportInv'
  <1> SUFFICES ASSUME TransportInv, [Next]_tvars PROVE TransportInv'
    OBVIOUS
  <1>1. CacheInv' /\ AdmissionsApart'
    BY SMTT(30), StepOfCache, CacheInvNext, ApartNext DEF TransportInv
  <1>2. UNCHANGED message
    BY ZenonT(30) DEF Next, tvars, Lose, Copy, Process, DropReplayed, Forward, Receive, Background,
           NewPinnedSenders, Expire, Assemble
  <1>3. Sent' = Sent /\ Packets' = Packets /\ input' = input
    BY SMTT(30), <1>2 DEF message, Sent, Packets
  <1>4. WayTypeOK /\ FromCreate /\ Paid /\ NotTwice /\ AdmissionsApart /\ CacheInv
    BY ZenonT(30) DEF TransportInv
  <1>5. times \in [Datagrams -> Nat] /\ call \in [Listeners -> Calls]
    BY SMTT(30), <1>4 DEF CacheInv, CacheTypeOK
  <1>6. SUFFICES WayTypeOK' /\ FromCreate' /\ Paid' /\ NotTwice'
    BY SMTT(30), <1>1 DEF TransportInv
  <1>7. CASE UNCHANGED <<net, inbox, accepted, times, call>>
    BY ZenonT(30), <1>3, <1>4, <1>7 DEF WayTypeOK, FromCreate, Paid, NotTwice
  <1>8. ASSUME NEW i \in Datagrams, Lose(i) \/ Copy(i)
        PROVE  WayTypeOK' /\ FromCreate' /\ Paid' /\ NotTwice'
    <2>1. /\ net[i] > 0 /\ UNCHANGED <<inbox, accepted, times, call>>
          /\ net' = [net EXCEPT ![i] = @ - 1] \/ net' = [net EXCEPT ![i] = @ + 1]
      BY ZenonT(30), <1>8 DEF Lose, Copy, rcvars
    <2>2. WayTypeOK'
      BY SMTT(30), <1>3, <1>4, <2>1 DEF WayTypeOK
    <2>3. FromCreate'
      BY ZenonT(30), <1>3, <1>4, <2>1 DEF WayTypeOK, FromCreate
    <2>4. Paid' /\ NotTwice'
      BY ZenonT(30), <1>3, <1>4, <2>1 DEF Paid, NotTwice
    <2> QED
      BY SMTT(30), <2>2, <2>3, <2>4
  <1>9. ASSUME NEW i \in Datagrams, Process(i)
        PROVE  WayTypeOK' /\ FromCreate' /\ Paid' /\ NotTwice'
    <2>1. /\ inbox[i] > 0 /\ inbox' = [inbox EXCEPT ![i] = @ - 1]
          /\ UNCHANGED <<net, times, call>>
      BY ZenonT(30), <1>9 DEF Process, wire, rcvars
    <2>2. \/ UNCHANGED accepted
          \/ /\ accepted' = [accepted EXCEPT ![i] = @ + 1]
             /\ Payload(i).err = "none" /\ Timely(Payload(i))
      BY ZenonT(30), <1>9 DEF Process
    <2>3. WayTypeOK'
      BY SMTT(30), <1>3, <1>4, <2>1, <2>2 DEF WayTypeOK
    <2>4. FromCreate'
      BY SMTT(30), <1>3, <1>4, <2>1 DEF WayTypeOK, FromCreate
    <2>5. Paid'
      BY SMTT(30), <1>4, <1>5, <2>1, <2>2 DEF WayTypeOK, Paid
    <2>6. NotTwice'
      <3> SUFFICES ASSUME NEW k \in Datagrams, accepted'[k] > 1
                   PROVE  input.msg.Timestamp + PastCutoff >= TTL
        BY ZenonT(30), <1>3 DEF NotTwice
      <3>1. CASE accepted[k] > 1
        BY ZenonT(30), <1>4, <3>1 DEF NotTwice
      <3>2. CASE ~(accepted[k] > 1)
        <4>1. k = i /\ Payload(i).err = "none" /\ Timely(Payload(i))
          BY SMTT(30), <1>4, <2>2, <3>2 DEF WayTypeOK
        <4>2. Stamps(Packets[i], input.msg.Timestamp)
          BY ZenonT(30), <1>4, <2>1 DEF FromCreate
        <4>3. Payload(i).Timestamp = input.msg.Timestamp
          BY ZenonT(30), <4>1, <4>2, ExtractStamps
        <4>4. accepted[i] + 1 > 1 /\ accepted[i] + inbox[i] <= times[i]
          BY SMTT(30), <1>4, <2>2, <3>2, <4>1 DEF WayTypeOK, Paid
        <4>5. times[i] > 1
          BY SMTT(30), <1>4, <1>5, <2>1, <4>4 DEF WayTypeOK
        <4>6. clock >= TTL
          BY SMTT(30), <1>4, <4>5 DEF AdmissionsApart
        <4>7. input.msg.Timestamp \in Int /\ PastCutoff \in Int /\ TTL \in Nat /\ clock \in Nat
          BY ZenonT(30), <1>4, TransportAssumption, CacheAssumption DEF WayTypeOK, CacheInv, CacheTypeOK
        <4>8. input.msg.Timestamp >= clock - PastCutoff
          BY ZenonT(30), <4>1, <4>3 DEF Timely
        <4> QED
          BY SMTT(30), <4>6, <4>7, <4>8
      <3> QED
        BY ZenonT(30), <3>1, <3>2
    <2> QED
      BY ZenonT(30), <2>3, <2>4, <2>5, <2>6
  <1>10. ASSUME NEW l \in Listeners, DropReplayed(l)
         PROVE  WayTypeOK' /\ FromCreate' /\ Paid' /\ NotTwice'
    <2>1. UNCHANGED <<net, inbox, accepted, times>>
      BY ZenonT(30), <1>10 DEF DropReplayed, Refuse, wire
    <2>2. \A m \in Listeners : call'[m] = call[m] \/ ~call'[m].busy
      BY ZenonT(30), <1>5, <1>10 DEF DropReplayed, Refuse, Return, Idle
    <2> QED
      BY ZenonT(30), <1>3, <1>4, <2>1, <2>2 DEF WayTypeOK, FromCreate, Paid, NotTwice
  <1>11. ASSUME NEW l \in Listeners, Forward(l)
         PROVE  WayTypeOK' /\ FromCreate' /\ Paid' /\ NotTwice'
    <2> DEFINE k == call[l].key
    <2>1. k \in Datagrams /\ k \in Sent
      BY ZenonT(30), <1>4, <1>5, <1>11 DEF Forward, Admit, Calls, FromCreate
    <2>2. /\ UNCHANGED <<net, accepted>>
          /\ times' = [times EXCEPT ![k] = @ + 1]
          /\ UNCHANGED inbox \/ inbox' = [inbox EXCEPT ![k] = @ + 1]
      BY ZenonT(30), <1>11 DEF Forward, Admit, wire
    <2>3. \A m \in Listeners : call'[m] = call[m] \/ ~call'[m].busy
      BY ZenonT(30), <1>5, <1>11 DEF Forward, Admit, Return, Idle
    <2> HIDE DEF k
    <2>4. WayTypeOK'
      BY SMTT(30), <1>3, <1>4, <2>1, <2>2 DEF WayTypeOK
    <2>5. NotTwice'
      BY SMTT(30), <1>3, <1>4, <2>2 DEF NotTwice
    <2>6. \A d \in Datagrams : inbox'[d] > 0 => inbox[d] > 0 \/ d = k
      BY ZenonT(30), <1>4, <2>2 DEF WayTypeOK
    <2>7. FromCreate'
      BY SMTT(30), <1>3, <1>4, <2>1, <2>2, <2>3, <2>6 DEF FromCreate
    <2>8. Paid'
      BY SMTT(30), <1>4, <1>5, <2>1, <2>2 DEF WayTypeOK, Paid
    <2> QED
      BY ZenonT(30), <2>4, <2>5, <2>7, <2>8
  <1>12. ASSUME NEW l \in Listeners, NEW i \in Datagrams, Receive(l, i)
         PROVE  WayTypeOK' /\ FromCreate' /\ Paid' /\ NotTwice'
    <2>1. /\ net[i] > 0 /\ net' = [net EXCEPT ![i] = @ - 1]
          /\ UNCHANGED <<inbox, accepted, times>>
      BY SMTT(30), <1>12 DEF Receive, Arrive
    <2>2. \A m \in Listeners : call'[m] = call[m] \/ call'[m].key = i
      BY ZenonT(30), <1>5, <1>12 DEF Receive, Arrive
    <2>3. WayTypeOK'
      BY SMTT(30), <1>3, <1>4, <2>1 DEF WayTypeOK
    <2>4. FromCreate'
      BY ZenonT(30), <1>3, <1>4, <2>1, <2>2 DEF WayTypeOK, FromCreate
    <2>5. Paid' /\ NotTwice'
      BY ZenonT(30), <1>3, <1>4, <2>1 DEF Paid, NotTwice
    <2> QED
      BY SMTT(30), <2>3, <2>4, <2>5
  <1>13. CASE Background \/ NewPinnedSenders \/ Expire \/ Assemble \/ UNCHANGED tvars
    BY ZenonT(30), <1>7, <1>13 DEF Background, Tick, CleanupTicks, CleanupReads, CleanupShard,
       NewPinnedSenders, Expire, Assemble, wire, rcvars, tvars
  <1> QED
    BY ZenonT(30), <1>8, <1>9, <1>10, <1>11, <1>12, <1>13 DEF Next

\* A datagram is routed twice only if its timestamp is valid TTL seconds after
\* the start: between them isReplayed and the check of timestamps let no copy
\* through (replayprotection.go:36-80, processor/worker.go:109-122).
THEOREM NoCopyAccepted == Spec => []NotTwice
  <1>1. TransportInv => NotTwice
    BY ZenonT(30) DEF TransportInv
  <1> QED
    BY <1>1, TransportInvInit, TransportInvNext, PTL DEF Spec

\* Message, datagrams on the way, queue and cache are of their types; a count of
\* datagrams never falls below zero.
THEOREM TransportTypeCorrect == Spec => []TypeOK
  <1>1. TransportInv => TypeOK
    BY ZenonT(30) DEF TransportInv, CacheInv, TypeOK
  <1> QED
    BY <1>1, TransportInvInit, TransportInvNext, PTL DEF Spec

\* The window of the cache is kept on the way of a message (WindowIsKept).
THEOREM WindowKeptOnTheWay == Spec => WindowKept
  BY ZenonT(30), ImplementsCache, WindowIsKept

=============================================================================
