---------------------------- MODULE ReplayCache ----------------------------
(***************************************************************************)
(* The cache by which the listeners refuse a datagram they have seen:      *)
(* internal/receiver/listener/replayprotection.go.  It remembers the       *)
(* ephemeral public key of every datagram, with the second at which it     *)
(* came.  A listener reads the time before it takes the lock of the key's  *)
(* shard, and so does the eviction; between the two anything may happen.   *)
(***************************************************************************)
EXTENDS Integers

CONSTANTS Datagrams,   \* public keys: every datagram has one of its own
          Listeners,
          NumShards,   \* one for each listener there may be
          ShardOf,     \* the hash of a key, modulo NumShards, plus 1
          TTL,         \* the replay window in whole seconds
          MaxTime      \* bound on the clock

ASSUME CacheAssumption ==
  /\ Datagrams # {}
  /\ TTL \in Nat
  /\ NumShards \in Nat \ {0}
  /\ ShardOf \in [Datagrams -> 1 .. NumShards]

VARIABLES clock,      \* time.Now().Unix()
          seen,       \* the keys in the shards' maps
          seenTime,   \* the second each was stored with
          call,       \* what each listener is checking
          sweep,      \* where the eviction is
          times,      \* how often a datagram was admitted
          lastRead    \* the time its last admission was decided with

rcvars == <<clock, seen, seenTime, call, sweep, times, lastRead>>

Calls == [busy : BOOLEAN, key : Datagrams, now : Int]

Sweeps == [pc : {"idle", "next", "lock"}, shard : 1 .. NumShards, now : Int]

CacheTypeOK ==
  /\ clock \in Nat
  /\ seen \in SUBSET Datagrams
  /\ seenTime \in [Datagrams -> Int]
  /\ call \in [Listeners -> Calls]
  /\ sweep \in Sweeps
  /\ times \in [Datagrams -> Nat]
  /\ lastRead \in [Datagrams -> Int]

Idle == [busy |-> FALSE, key |-> CHOOSE k \in Datagrams : TRUE, now |-> 0]

\* newReplayCacheWithShards
CacheInit ==
  /\ clock = 0
  /\ seen = {}
  /\ seenTime = [k \in Datagrams |-> 0]
  /\ call = [l \in Listeners |-> Idle]
  /\ sweep = [pc |-> "idle", shard |-> 1, now |-> 0]
  /\ times = [k \in Datagrams |-> 0]
  /\ lastRead = [k \in Datagrams |-> 0]

Tick ==
  /\ clock < MaxTime
  /\ clock' = clock + 1
  /\ UNCHANGED <<seen, seenTime, call, sweep, times, lastRead>>

\* A datagram is read and isReplayed reads the time.
Arrive(l, k) ==
  /\ ~call[l].busy
  /\ call' = [call EXCEPT ![l] = [busy |-> TRUE, key |-> k, now |-> clock]]
  /\ UNCHANGED <<clock, seen, seenTime, sweep, times, lastRead>>

IsReplayed(l) ==
  /\ call[l].key \in seen
  /\ call[l].now - seenTime[call[l].key] < TTL

Return(l) == call' = [call EXCEPT ![l] = Idle]

Refuse(l) ==
  /\ call[l].busy
  /\ IsReplayed(l)
  /\ Return(l)
  /\ UNCHANGED <<clock, seen, seenTime, sweep, times, lastRead>>

Admit(l) ==
  /\ call[l].busy
  /\ ~IsReplayed(l)
  /\ LET k == call[l].key
     IN  /\ seen' = seen \union {k}
         /\ seenTime' = [seenTime EXCEPT ![k] = call[l].now]
         /\ times' = [times EXCEPT ![k] = @ + 1]
         /\ lastRead' = [lastRead EXCEPT ![k] = call[l].now]
  /\ Return(l)
  /\ UNCHANGED <<clock, sweep>>

\* The ticker fires; the shards are swept one after the other.
CleanupTicks ==
  /\ sweep.pc = "idle"
  /\ sweep' = [pc |-> "next", shard |-> 1, now |-> 0]
  /\ UNCHANGED <<clock, seen, seenTime, call, times, lastRead>>

CleanupReads ==
  /\ sweep.pc = "next"
  /\ sweep' = [pc |-> "lock", shard |-> sweep.shard, now |-> clock]
  /\ UNCHANGED <<clock, seen, seenTime, call, times, lastRead>>

Expired(k) == ShardOf[k] = sweep.shard /\ sweep.now - seenTime[k] >= TTL

CleanupShard ==
  /\ sweep.pc = "lock"
  /\ seen' = {k \in seen : ~Expired(k)}
  /\ sweep' = IF sweep.shard = NumShards THEN [pc |-> "idle", shard |-> 1, now |-> 0]
              ELSE [pc |-> "next", shard |-> sweep.shard + 1, now |-> 0]
  /\ UNCHANGED <<clock, seenTime, call, times, lastRead>>

CacheNext ==
  \/ Tick
  \/ CleanupTicks \/ CleanupReads \/ CleanupShard
  \/ \E l \in Listeners : Refuse(l) \/ Admit(l) \/ \E k \in Datagrams : Arrive(l, k)

CacheSpec == CacheInit /\ [][CacheNext]_rcvars

\* A datagram is admitted again only when TTL seconds have passed since the
\* time isReplayed read for its last admission, whatever the listeners and the
\* eviction do between reading the time and taking the lock
\* (replayprotection.go:37-50, 72-78).
WindowKept ==
  [][\A k \in Datagrams :
       times[k] > 0 /\ times'[k] > times[k] => clock >= lastRead[k] + TTL]_rcvars

=============================================================================
