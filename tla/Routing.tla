------------------------------ MODULE Routing ------------------------------
(***************************************************************************)
(* The set of shard and assembler pairs of the receiver and how fragments  *)
(* find their way into it (src/internal/receiver/shard/routing.go,         *)
(* src/internal/receiver/assembler/runtime.go, routing.go, manager.go).    *)
(*                                                                         *)
(* Readers look at an immutable snapshot through an atomic pointer, which  *)
(* AddInstance and removeInstance replace with a compare-and-swap; every   *)
(* query of the routing view loads the pointer again.  The goroutines:     *)
(*                                                                         *)
(*   - routers, which call RouteFragment: processors and, during an        *)
(*     update, the FIPR connection handlers;                               *)
(*   - shutdown, Daemon.Shutdown when it removes one instance after the    *)
(*     other, and the scaler, whose loop is stopped only after that;       *)
(*   - watcher and assembler of each pair, which seal a bucket and take it *)
(*     (module Reassembly says what they do to a bucket).                  *)
(*                                                                         *)
(* Of FIPR to another process the outcome alone is modelled.               *)
(***************************************************************************)
EXTENDS Integers, Sequences, FiniteSets

CONSTANTS Routers,      \* goroutines that route fragments
          Keys,         \* bucket keys, one for each message
          Single,       \* the messages of one fragment; others have two
          HashOf,       \* the first 64 bits of the hash of each key
          MinInstances, MaxInstances,
          MaxId,        \* bound: no instance has a greater id
          RetryLimit,   \* 3 in RouteFragment
          MaxRouted,    \* bound: fragments that are routed
          MaxVer        \* bound: replacements of the snapshot after which none begins

ASSUME RoutingAssumption ==
  /\ Single \subseteq Keys
  /\ HashOf \in [Keys -> Nat]
  /\ MinInstances \in Nat \ {0} /\ MaxInstances \in Nat /\ MaxId \in Nat
  /\ MinInstances <= MaxId + 1
  /\ RetryLimit \in Nat \ {0, 1} /\ MaxRouted \in Nat /\ MaxVer \in Nat

Ids      == 0 .. MaxId
Managers == {"shutdown", "scaler"}
SeqsOf(k) == IF k \in Single THEN {0} ELSE {0, 1}
Fragments == {f \in Keys \X {0, 1} : f[2] \in SeqsOf(f[1])}
NoSnapshot == [ver |-> 0, instances |-> {}, ids |-> <<>>]
NoBucket == [frags |-> {}, filled |-> FALSE]

VARIABLES
  routing,         \* the snapshot: instances, ids and the pointer's identity
  nextInstanceID,
  running,         \* instances whose watcher and assembler run
  InShutdown,      \* instances that are draining
  bucket,          \* the bucket of each key in each instance's shard
  todo,            \* fragments that no router has taken yet
  drained,         \* history: instances whose wait for no buckets succeeded
  late,            \* history: the (instance, key) filled after that
  rpc, rfrag, rids, rtarget, rtries, rremote, rver,  \* routers
  mpc, mid, mold                                     \* managers

rvars == <<rpc, rfrag, rids, rtarget, rtries, rremote, rver>>
mvars == <<mpc, mid, mold>>
store == <<running, InShutdown, bucket, drained, late>>
vars  == <<routing, nextInstanceID, store, todo, rvars, mvars>>

ElementsOf(s) == {s[i] : i \in DOMAIN s}
Distinct(s) == \A i, j \in DOMAIN s : s[i] = s[j] => i = j
OrdersOf(S) == {s \in [1 .. Cardinality(S) -> S] : ElementsOf(s) = S /\ Distinct(s)}

\* Start has called AddInstance MinInstances times.  Each call lists the
\* instances there were in the order of a map, then the new one.
Init ==
  /\ routing \in {[ver |-> 0, instances |-> 0 .. MinInstances - 1,
                   ids |-> Append(o, MinInstances - 1)] :
                    o \in OrdersOf(0 .. MinInstances - 2)}
  /\ nextInstanceID = MinInstances
  /\ running = 0 .. MinInstances - 1
  /\ InShutdown = {} /\ drained = {} /\ late = {}
  /\ bucket = [i \in Ids |-> [k \in Keys |-> NoBucket]]
  /\ todo = Fragments
  /\ rpc = [r \in Routers |-> "idle"]
  /\ rfrag = [r \in Routers |-> <<>>]
  /\ rids = [r \in Routers |-> <<>>]
  /\ rtarget = [r \in Routers |-> -1]
  /\ rtries = [r \in Routers |-> 0]
  /\ rremote = [r \in Routers |-> FALSE]
  /\ rver = [r \in Routers |-> 0]
  /\ mpc = [m \in Managers |-> "idle"]
  /\ mid = [m \in Managers |-> -1]
  /\ mold = [m \in Managers |-> NoSnapshot]

----------------------------------------------------------------------------
(* What the routing view answers.                                          *)

NonDraining == routing.instances \ InShutdown
IsShardShutdown(i) == i \notin routing.instances \/ i \in InShutdown
BucketExists(i, k) == i \in routing.instances /\ bucket[i][k] # NoBucket

\* A faulty variant: round robin over the candidates.
RoundRobin(k, ids) == ids[(Cardinality(todo) % Len(ids)) + 1]

\* routeSelect; with one candidate both choices are the same.
Primary(k, ids)   == ids[(HashOf[k] % Len(ids)) + 1]
Secondary(k, ids) == ids[((HashOf[k] + 1) % Len(ids)) + 1]

----------------------------------------------------------------------------
(* RouteFragment.                                                          *)

Goto(r, l) == rpc' = [rpc EXCEPT ![r] = l]

Return(r) ==
  /\ Goto(r, "idle")
  /\ rfrag' = [rfrag EXCEPT ![r] = <<>>]
  /\ rids' = [rids EXCEPT ![r] = <<>>]
  /\ rtarget' = [rtarget EXCEPT ![r] = -1]
  /\ rtries' = [rtries EXCEPT ![r] = 0]
  /\ rremote' = [rremote EXCEPT ![r] = FALSE]
  /\ rver' = [rver EXCEPT ![r] = 0]

\* A return without success.
Fail(r) == Return(r) /\ UNCHANGED <<routing, nextInstanceID, store, todo, mvars>>

Begin(r, f) ==
  /\ rpc[r] = "idle" /\ f \in todo
  /\ Cardinality(Fragments \ todo) < MaxRouted
  /\ todo' = todo \ {f}
  /\ rfrag' = [rfrag EXCEPT ![r] = f]
  /\ rver' = [rver EXCEPT ![r] = routing.ver]
  /\ Goto(r, IF f[1] \in Single THEN "single" ELSE "sockets")
  /\ UNCHANGED <<routing, nextInstanceID, store, rids, rtarget, rtries, rremote, mvars>>

\* For a message of several fragments: while FIPR runs, the sockets of other
\* processes are looked up once, before the first round.
GetSocketFileList(r, remote) ==
  /\ rpc[r] = "sockets"
  /\ rremote' = [rremote EXCEPT ![r] = remote]
  /\ Goto(r, "list")
  /\ UNCHANGED <<routing, nextInstanceID, store, todo, rfrag, rids, rtarget,
                 rtries, rver, mvars>>

\* The directory exists and may be read, and reading it fails.
SocketsFail(r) == rpc[r] = "sockets" /\ Fail(r)

\* A message of one fragment goes to any instance that is not draining: the
\* list of these comes from a map, in random order.
RouteSingle(r, i) ==
  /\ rpc[r] = "single" /\ i \in NonDraining
  /\ rtarget' = [rtarget EXCEPT ![r] = i]
  /\ Goto(r, "get")
  /\ UNCHANGED <<routing, nextInstanceID, store, todo, rfrag, rids, rtries,
                 rremote, rver, mvars>>

\* A faulty variant: one draining instance stops the short circuit.
SingleFailsOnDrain(r) == rpc[r] = "single" /\ InShutdown # {} /\ Fail(r)

SingleFails(r) == rpc[r] = "single" /\ NonDraining = {} /\ Fail(r)

\* One round of the retry loop begins with GetAllIDs.
List(r) ==
  /\ rpc[r] = "list" /\ routing.ids # <<>>
  /\ rids' = [rids EXCEPT ![r] = routing.ids]
  /\ Goto(r, "check")
  /\ UNCHANGED <<routing, nextInstanceID, store, todo, rfrag, rtarget, rtries,
                 rremote, rver, mvars>>

ListFails(r) == rpc[r] = "list" /\ routing.ids = <<>> /\ Fail(r)

\* The primary when it is not draining or has the bucket; otherwise another
\* process, if there is one, and else the secondary, draining or not.
Choose(r, i, l) ==
  /\ rtarget' = [rtarget EXCEPT ![r] = i]
  /\ Goto(r, l)
  /\ UNCHANGED <<routing, nextInstanceID, store, todo, rfrag, rids, rtries,
                 rremote, rver, mvars>>

Check(r) ==
  LET p == Primary(rfrag[r][1], rids[r])
  IN  rpc[r] = "check" /\ Choose(r, p, IF IsShardShutdown(p) THEN "exists" ELSE "get")

Exists(r) ==
  LET k == rfrag[r][1]
  IN  /\ rpc[r] = "exists"
      /\ \/ BucketExists(rtarget[r], k) /\ Choose(r, rtarget[r], "get")
         \/ ~BucketExists(rtarget[r], k) /\ rremote[r] /\ Choose(r, -1, "remote")
         \/ /\ ~BucketExists(rtarget[r], k) /\ ~rremote[r]
            /\ Choose(r, Secondary(k, rids[r]), "get")

\* continue: another round, or the limit is reached.
Retry(r) ==
  IF rtries[r] + 1 = RetryLimit THEN Fail(r)
  ELSE /\ rtries' = [rtries EXCEPT ![r] = @ + 1]
       /\ rremote' = [rremote EXCEPT ![r] = @ /\ rpc[r] # "remote"]
       /\ rids' = [rids EXCEPT ![r] = <<>>]
       /\ rtarget' = [rtarget EXCEPT ![r] = -1]
       /\ Goto(r, "list")
       /\ UNCHANGED <<routing, nextInstanceID, store, todo, rfrag, rver, mvars>>

RemoteSent(r) ==
  rpc[r] = "remote" /\ Return(r)
  /\ UNCHANGED <<routing, nextInstanceID, store, todo, mvars>>

RemoteRefused(r) == rpc[r] = "remote" /\ Retry(r)

\* GetShard: the pointer it returns stays valid when the instance is gone.
GetShard(r) ==
  /\ rpc[r] = "get" /\ rtarget[r] \in routing.instances
  /\ Choose(r, rtarget[r], "push")

Disappeared(r) ==
  /\ rpc[r] = "get" /\ rtarget[r] \notin routing.instances
  /\ IF rfrag[r][1] \in Single THEN Fail(r) ELSE Retry(r)

\* push: a filled bucket takes no more fragments.
Push(r) ==
  LET i == rtarget[r]
      k == rfrag[r][1]
      b == bucket[i][k]
      all == b.frags \union {rfrag[r][2]}
  IN  /\ rpc[r] = "push"
      /\ IF b.filled THEN UNCHANGED <<bucket, late>>
         ELSE /\ bucket' = [bucket EXCEPT ![i][k] =
                              [frags |-> all, filled |-> all = SeqsOf(k)]]
              /\ late' = IF i \in drained THEN late \union {<<i, k>>} ELSE late
      /\ Return(r)
      /\ UNCHANGED <<routing, nextInstanceID, running, InShutdown, drained,
                     todo, mvars>>

Router(r) ==
  \/ \E i \in Ids : RouteSingle(r, i)
  \/ \E remote \in BOOLEAN : GetSocketFileList(r, remote)
  \/ SocketsFail(r)
  \/ SingleFails(r) \/ List(r) \/ ListFails(r) \/ Check(r) \/ Exists(r)
  \/ RemoteSent(r) \/ RemoteRefused(r) \/ GetShard(r) \/ Disappeared(r) \/ Push(r)

----------------------------------------------------------------------------
(* Watcher and assembler of an instance.                                   *)

SetBucket(i, k, b) ==
  /\ i \in running
  /\ bucket' = [bucket EXCEPT ![i][k] = b]
  /\ UNCHANGED <<routing, nextInstanceID, running, InShutdown, drained, late,
                 todo, rvars, mvars>>

Expire(i, k) ==
  /\ bucket[i][k].frags # {} /\ ~bucket[i][k].filled
  /\ SetBucket(i, k, [bucket[i][k] EXCEPT !.filled = TRUE])

Take(i, k) == bucket[i][k].filled /\ SetBucket(i, k, NoBucket)

----------------------------------------------------------------------------
(* AddInstance and RemoveOldestInstance.                                   *)

MGoto(m, l) == mpc' = [mpc EXCEPT ![m] = l]
Idle(m) ==
  /\ MGoto(m, IF m = "shutdown" THEN "next" ELSE "idle")
  /\ mid' = [mid EXCEPT ![m] = -1]
  /\ mold' = [mold EXCEPT ![m] = NoSnapshot]

\* The scaler acts when the number of instances is neither the minimum nor
\* the maximum; which way, if any, the metrics say.
ScalerActs ==
  /\ mpc["scaler"] = "idle" /\ mpc["shutdown"] # "done"
  /\ Cardinality(NonDraining) \notin {MinInstances, MaxInstances}

AddInstance ==
  /\ ScalerActs /\ nextInstanceID <= MaxId /\ routing.ver < MaxVer
  /\ running' = running \union {nextInstanceID}
  /\ mid' = [mid EXCEPT !["scaler"] = nextInstanceID]
  /\ nextInstanceID' = nextInstanceID + 1
  /\ MGoto("scaler", "load")
  /\ UNCHANGED <<routing, InShutdown, bucket, drained, late, todo, rvars, mold>>

AddLoad ==
  /\ mpc["scaler"] = "load"
  /\ mold' = [mold EXCEPT !["scaler"] = routing]
  /\ MGoto("scaler", "add")
  /\ UNCHANGED <<routing, nextInstanceID, store, todo, rvars, mid>>

\* A faulty variant: a plain store instead of the compare-and-swap.
AddStore ==
  LET old == mold["scaler"]
      new == mid["scaler"]
  IN  /\ mpc["scaler"] = "add"
      /\ \E o \in OrdersOf(old.instances) :
           routing' = [ver |-> routing.ver + 1,
                       instances |-> old.instances \union {new},
                       ids |-> Append(o, new)]
      /\ Idle("scaler")
      /\ UNCHANGED <<nextInstanceID, store, todo, rvars>>

AddSwap ==
  LET old == mold["scaler"]
      new == mid["scaler"]
  IN  /\ mpc["scaler"] = "add"
      /\ IF routing.ver = old.ver
         THEN /\ \E o \in OrdersOf(old.instances) :
                   routing' = [ver |-> routing.ver + 1,
                               instances |-> old.instances \union {new},
                               ids |-> Append(o, new)]
              /\ Idle("scaler")
         ELSE /\ MGoto("scaler", "load")
              /\ UNCHANGED <<routing, mid, mold>>
      /\ UNCHANGED <<nextInstanceID, store, todo, rvars>>

ShutdownBegins ==
  /\ mpc["shutdown"] = "idle"
  /\ MGoto("shutdown", "next")
  /\ UNCHANGED <<routing, nextInstanceID, store, todo, rvars, mid, mold>>

\* Shutdown goes on until there is no instance left.
ShutdownEnds ==
  /\ mpc["shutdown"] = "next" /\ routing.ids = <<>>
  /\ MGoto("shutdown", "done")
  /\ UNCHANGED <<routing, nextInstanceID, store, todo, rvars, mid, mold>>

\* RemoveOldestInstance takes the head of the list ...
RemoveOldest(m) ==
  /\ \/ m = "shutdown" /\ mpc[m] = "next"
     \/ m = "scaler" /\ ScalerActs
  /\ routing.ids # <<>> /\ routing.ver < MaxVer
  /\ mid' = [mid EXCEPT ![m] = Head(routing.ids)]
  /\ MGoto(m, "remove")
  /\ UNCHANGED <<routing, nextInstanceID, store, todo, rvars, mold>>

\* ... and removeInstance loads the snapshot for itself.
RemoveLoad(m) ==
  /\ mpc[m] = "remove" /\ mid[m] \in routing.instances
  /\ mold' = [mold EXCEPT ![m] = routing]
  /\ MGoto(m, "mark")
  /\ UNCHANGED <<routing, nextInstanceID, store, todo, rvars, mid>>

RemoveNothing(m) ==
  /\ mpc[m] = "remove" /\ mid[m] \notin routing.instances
  /\ UNCHANGED routing /\ Idle(m)
  /\ UNCHANGED <<nextInstanceID, store, todo, rvars>>

RemoveMark(m) ==
  /\ mpc[m] = "mark"
  /\ InShutdown' = InShutdown \union {mid[m]}
  /\ MGoto(m, "wait")
  /\ UNCHANGED <<routing, nextInstanceID, running, bucket, drained, late, todo,
                 rvars, mid, mold>>

\* A faulty variant: the buckets that wait for the assembler are not awaited.
RemoveFilled(m) ==
  /\ mpc[m] = "wait"
  /\ \A k \in Keys : bucket[mid[m]][k] = NoBucket \/ bucket[mid[m]][k].filled
  /\ drained' = drained \union {mid[m]}
  /\ MGoto(m, "stop")
  /\ UNCHANGED <<routing, nextInstanceID, running, InShutdown, bucket, late,
                 todo, rvars, mid, mold>>

\* The two waits: no buckets, none of them still at the assembler; or 15
\* seconds have passed.
RemoveDrained(m) ==
  /\ mpc[m] = "wait" /\ \A k \in Keys : bucket[mid[m]][k] = NoBucket
  /\ drained' = drained \union {mid[m]}
  /\ MGoto(m, "stop")
  /\ UNCHANGED <<routing, nextInstanceID, running, InShutdown, bucket, late,
                 todo, rvars, mid, mold>>

RemoveTimeout(m) ==
  /\ mpc[m] = "wait"
  /\ \E k \in Keys : bucket[mid[m]][k] # NoBucket
  /\ MGoto(m, "stop")
  /\ UNCHANGED <<routing, nextInstanceID, store, todo, rvars, mid, mold>>

\* cancel, then wg.Wait until watcher and assembler have returned.
RemoveStop(m) ==
  /\ mpc[m] = "stop"
  /\ running' = running \ {mid[m]}
  /\ MGoto(m, "swap")
  /\ UNCHANGED <<routing, nextInstanceID, InShutdown, bucket, drained, late,
                 todo, rvars, mid, mold>>

\* The filter of the list, in which each id is once.
Without(ids, i) ==
  LET p == CHOOSE p \in DOMAIN ids : ids[p] = i
  IN  [n \in 1 .. Len(ids) - 1 |-> ids[IF n < p THEN n ELSE n + 1]]

\* The loop with the compare-and-swap never loads the snapshot again: when it
\* is not the one it was, the loop does not end.
RemoveSwap(m) ==
  /\ mpc[m] = "swap" /\ routing.ver = mold[m].ver
  /\ routing' = [ver |-> routing.ver + 1,
                 instances |-> mold[m].instances \ {mid[m]},
                 ids |-> Without(mold[m].ids, mid[m])]
  /\ Idle(m)
  /\ UNCHANGED <<nextInstanceID, store, todo, rvars>>

Remove(m) ==
  \/ RemoveLoad(m) \/ RemoveNothing(m) \/ RemoveMark(m) \/ RemoveDrained(m)
  \/ RemoveTimeout(m) \/ RemoveStop(m) \/ RemoveSwap(m)

Shutdown == ShutdownEnds \/ RemoveOldest("shutdown") \/ Remove("shutdown")
Scaler   == AddLoad \/ AddSwap \/ Remove("scaler")

Next ==
  \/ \E r \in Routers : Router(r)
  \/ \E r \in Routers, f \in Fragments : Begin(r, f)
  \/ \E i \in Ids, k \in Keys : Expire(i, k) \/ Take(i, k)
  \/ ShutdownBegins \/ Shutdown
  \/ AddInstance \/ RemoveOldest("scaler") \/ Scaler

Spec == Init /\ [][Next]_vars

\* Goroutines are scheduled, and drains end by themselves or by timeout.
Fairness == /\ WF_vars(Shutdown) /\ WF_vars(Scaler)
            /\ \A r \in Routers : WF_vars(Router(r))

FairSpec == Spec /\ Fairness

----------------------------------------------------------------------------
(* Properties.                                                             *)

\* The goroutines' positions and what they hold are of their types.
TypeOK ==
  /\ routing \in [ver : Nat, instances : SUBSET Ids, ids : Seq(Ids)]
  /\ nextInstanceID \in Nat
  /\ running \subseteq Ids /\ InShutdown \subseteq Ids /\ drained \subseteq Ids
  /\ bucket \in [Ids -> [Keys -> [frags : SUBSET {0, 1}, filled : BOOLEAN]]]
  /\ todo \subseteq Fragments /\ late \subseteq Ids \X Keys
  /\ rpc \in [Routers -> {"idle", "single", "sockets", "list", "check",
                          "exists", "remote", "get", "push"}]
  /\ rfrag \in [Routers -> Fragments \union {<<>>}]
  /\ rids \in [Routers -> Seq(Ids)]
  /\ rtarget \in [Routers -> Ids \union {-1}]
  /\ rtries \in [Routers -> 0 .. RetryLimit - 1]
  /\ rremote \in [Routers -> BOOLEAN]
  /\ rver \in [Routers -> Nat]
  /\ mpc \in [Managers -> {"idle", "load", "add", "next", "done", "remove",
                           "mark", "wait", "stop", "swap"}]
  /\ mid \in [Managers -> Ids \union {-1}]
  /\ mold \in [Managers -> [ver : Nat, instances : SUBSET Ids, ids : Seq(Ids)]]

\* The list and the map of a snapshot always name the same instances, each
\* once: a fragment is never routed to an id that has no instance.
Agrees(snap) == ElementsOf(snap.ids) = snap.instances /\ Distinct(snap.ids)
SnapshotAgrees == Agrees(routing)

\* Whatever shutdown and scaler do at the same time, no instance is lost and
\* none comes back: one that runs is in the snapshot or about to be put in,
\* one in the snapshot runs or is about to be taken out.
Adding(i)   == mpc["scaler"] \in {"load", "add"} /\ mid["scaler"] = i
Stopping(i) == \E m \in Managers : mpc[m] = "swap" /\ mid[m] = i
InstancesAccounted ==
  /\ \A i \in running \ routing.instances : Adding(i)
  /\ \A i \in routing.instances \ running : Stopping(i)

\* A bucket that nobody will take is in a stopped instance, and then the wait
\* for its last bucket timed out or the bucket was opened after it.
StrandedHasCause ==
  \A i \in Ids, k \in Keys :
    i \notin running /\ bucket[i][k] # NoBucket => i \notin drained \/ <<i, k>> \in late

\* "Deterministic for all fragments of a message": fragments of one message
\* are in two shards only if one of the two is draining or the snapshot was
\* replaced.
SplitHasCause ==
  \A k \in Keys, i, j \in Ids :
    i # j /\ bucket[i][k] # NoBucket /\ bucket[j][k] # NoBucket
      => routing.ver > 0 \/ i \in InShutdown \/ j \in InShutdown

\* RouteFragment gives up only when there is no instance left to route to,
\* when the snapshot was replaced since the call began, or when FIPR runs and
\* the directory of its sockets cannot be read (routing.go:60-67): in the last
\* case the fragment is lost although any instance could have taken it.
GivesUp(r) ==
  rpc[r] \in {"single", "sockets", "list", "get", "remote"} /\ rpc'[r] = "idle"
FailureHasCause ==
  [][\A r \in Routers :
       GivesUp(r) /\ ~RemoteSent(r) =>
         NonDraining = {} \/ routing.ver > rver[r] \/ SocketsFail(r)]_vars

\* removeInstance: "Gracefully shuts down and removes an instance from routing
\* snapshot".
RemovalEnds ==
  \A m \in Managers : mpc[m] = "remove" ~> mpc[m] \in {"idle", "next"}
=============================================================================
