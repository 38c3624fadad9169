--------------------------- MODULE RoutingProofs ---------------------------
(***************************************************************************)
(* Shutdown and the scaler replace the routing snapshot at the same time:  *)
(* proofs, for any number of routers, keys and instances, that a snapshot  *)
(* is never torn and no instance is lost or comes back.                    *)
(*                                                                         *)
(* ManagerInv adds what the two properties rest on: ids are never used     *)
(* again, a manager whose snapshot has the current version has the current *)
(* snapshot, and an instance that is about to be taken out is stopped.     *)
(* RouterInv says what a router holds at each point of RouteFragment, from *)
(* which type correctness follows.                                         *)
(*                                                                         *)
(* StrandInv, CauseInv, OnceInv and PlaceInv relate a call of              *)
(* RouteFragment to the snapshot it began with; from them follows why a    *)
(* fragment is left in a stopped shard, refused, or put beside its         *)
(* message. Their proofs see a step only through what it does to one call  *)
(* (Moves) or to the snapshot (Manages).                                   *)
(***************************************************************************)
EXTENDS Routing, TLAPS, SequenceTheorems, FiniteSetTheorems

Snapshots == [ver : Nat, instances : SUBSET Ids, ids : Seq(Ids)]
Holding   == {"add", "mark", "wait", "stop", "swap"}
Removing  == {"remove", "mark", "wait", "stop", "swap"}

ManagerTypes ==
  /\ routing \in Snapshots
  /\ nextInstanceID \in Nat
  /\ running \subseteq Ids
  /\ mpc \in [Managers -> {"idle", "load", "add", "next", "done", "remove",
                           "mark", "wait", "stop", "swap"}]
  /\ mid \in [Managers -> Ids \union {-1}]
  /\ mold \in [Managers -> Snapshots]

\* An id that was given out is smaller than the next one.
IdsAreOld ==
  /\ \A i \in routing.instances \union running : i < nextInstanceID
  /\ \A m \in Managers : mid[m] < nextInstanceID

\* The compare-and-swap compares identities: the same version is the same
\* snapshot.
HeldIsCurrent ==
  \A m \in Managers : mpc[m] \in Holding =>
    /\ mold[m].ver <= routing.ver
    /\ mold[m].ver = routing.ver => mold[m] = routing

\* An instance that is being added runs, is in no snapshot, and no manager
\* removes it.
AddedIsFresh ==
  /\ mpc["shutdown"] \notin {"load", "add"}
  /\ mpc["scaler"] \in {"load", "add"} =>
       /\ mid["scaler"] \in running \ routing.instances
       /\ mid["shutdown"] # mid["scaler"]

RemovedIsStopped ==
  \A m \in Managers :
    /\ mpc[m] \in Removing => mid[m] \in Ids
    /\ mpc[m] \in Removing \ {"remove"} => mid[m] \in mold[m].instances
    /\ mpc[m] = "swap" => mid[m] \notin running

ManagerInv ==
  /\ ManagerTypes /\ IdsAreOld /\ HeldIsCurrent /\ AddedIsFresh
  /\ RemovedIsStopped /\ SnapshotAgrees /\ InstancesAccounted

----------------------------------------------------------------------------
(* Lists of ids.                                                           *)

\* AddInstance lists the instances of a map in some order and the new one.
LEMMA AppendAgrees ==
  ASSUME NEW S \in SUBSET Ids, NEW o \in OrdersOf(S), NEW n \in Ids, n \notin S
  PROVE  /\ Append(o, n) \in Seq(Ids)
         /\ ElementsOf(Append(o, n)) = S \union {n}
         /\ Distinct(Append(o, n))
<1>1. IsFiniteSet(Ids)
  BY RoutingAssumption, FS_Interval DEF Ids
<1>2. IsFiniteSet(S) /\ Cardinality(S) \in Nat
  BY ZenonT(30), <1>1, FS_Subset, FS_CardinalityType
<1>3. o \in Seq(Ids) /\ Len(o) = Cardinality(S) /\ ElementsOf(o) = S /\ Distinct(o)
  BY <1>2 DEF OrdersOf
<1>4. Append(o, n) \in Seq(Ids) /\ DOMAIN Append(o, n) = 1 .. Len(o) + 1
  BY <1>3
<1>5. \A i \in 1 .. Len(o) : Append(o, n)[i] = o[i] /\ o[i] \in S
  BY <1>3 DEF ElementsOf
<1>6. Append(o, n)[Len(o) + 1] = n
  BY <1>3
<1>7. ElementsOf(Append(o, n)) = S \union {n}
  <2>1. \A x \in S : \E i \in 1 .. Len(o) : x = o[i]
    BY <1>3 DEF ElementsOf
  <2>2. Len(o) \in Nat
    BY <1>3
  <2>. QED
    BY <1>4, <1>5, <1>6, <2>1, <2>2 DEF ElementsOf
<1>8. Distinct(Append(o, n))
  BY SMTT(30), <1>2, <1>3, <1>4, <1>5, <1>6 DEF Distinct
<1>. QED
  BY ZenonT(30), <1>4, <1>7, <1>8

\* removeInstance leaves one id out of the list.
LEMMA WithoutAgrees ==
  ASSUME NEW snap \in Snapshots, Agrees(snap), NEW i \in snap.instances
  PROVE  /\ Without(snap.ids, i) \in Seq(Ids)
         /\ ElementsOf(Without(snap.ids, i)) = snap.instances \ {i}
         /\ Distinct(Without(snap.ids, i))
<1>. DEFINE s == snap.ids
            p == CHOOSE p \in DOMAIN s : s[p] = i
            w == [n \in 1 .. Len(s) - 1 |-> s[IF n < p THEN n ELSE n + 1]]
<1>1. s \in Seq(Ids) /\ Len(s) \in Nat /\ DOMAIN s = 1 .. Len(s)
  BY DEF Snapshots
<1>2. p \in 1 .. Len(s) /\ s[p] = i
  BY ZenonT(30), <1>1 DEF Agrees, ElementsOf
<1>3. w = Without(s, i)
  BY ZenonT(30) DEF Without
<1>4. \A n \in 1 .. Len(s) - 1 : w[n] = s[IF n < p THEN n ELSE n + 1]
  BY ZenonT(30)
<1>5. \A a, b \in 1 .. Len(s) : s[a] = s[b] => a = b
  BY ZenonT(30), <1>1 DEF Agrees, Distinct
<1>6. w \in Seq(Ids) /\ DOMAIN w = 1 .. Len(s) - 1
  <2>1. \A n \in 1 .. Len(s) - 1 : s[IF n < p THEN n ELSE n + 1] \in Ids
    <3>. HIDE DEF p
    <3>. QED BY <1>1, <1>2
  <2>2. Len(s) - 1 \in Nat
    <3>. HIDE DEF p
    <3>. QED BY <1>1, <1>2
  <2>3. w \in [1 .. Len(s) - 1 -> Ids]
    BY ZenonT(30), <2>1
  <2>. HIDE DEF w
  <2>. QED BY <2>2, <2>3
<1>. HIDE DEF s, p, w
<1>7. ElementsOf(w) = snap.instances \ {i}
  <2>1. \A n \in 1 .. Len(s) - 1 : w[n] \in snap.instances \ {i}
    <3>1. \A a \in 1 .. Len(s) : s[a] \in snap.instances
      BY ZenonT(30), <1>1 DEF Agrees, ElementsOf, s
    <3>2. \A n \in 1 .. Len(s) - 1 :
            /\ (IF n < p THEN n ELSE n + 1) \in 1 .. Len(s)
            /\ (IF n < p THEN n ELSE n + 1) # p
      BY <1>1, <1>2
    <3>. QED BY <1>2, <1>4, <1>5, <3>1, <3>2
  <2>2. \A x \in snap.instances \ {i} : \E n \in 1 .. Len(s) - 1 : w[n] = x
    <3>1. SUFFICES ASSUME NEW x \in snap.instances, x # i
                   PROVE  \E n \in 1 .. Len(s) - 1 : w[n] = x
      BY ZenonT(30)
    <3>2. PICK a \in 1 .. Len(s) : s[a] = x
      BY ZenonT(30), <1>1 DEF Agrees, ElementsOf, s
    <3>3. a # p
      BY ZenonT(30), <1>2, <3>1, <3>2
    <3>4. CASE a < p
      <4>1. a \in 1 .. Len(s) - 1 /\ w[a] = s[a]
        BY SMTT(30), <1>1, <1>2, <1>4, <3>4
      <4>. QED BY <4>1, <3>2
    <3>5. CASE a > p
      <4>1. a - 1 \in 1 .. Len(s) - 1 /\ w[a - 1] = s[a]
        BY <1>1, <1>2, <1>4, <3>5
      <4>. QED BY <4>1, <3>2
    <3>. QED BY <1>1, <1>2, <3>3, <3>4, <3>5
  <2>. QED BY ZenonT(30), <1>6, <2>1, <2>2 DEF ElementsOf
<1>8. Distinct(w)
  BY SMTT(30), <1>1, <1>2, <1>4, <1>5, <1>6 DEF Distinct
<1>. QED
  BY ZenonT(30), <1>3, <1>6, <1>7, <1>8 DEF s

----------------------------------------------------------------------------
(* The inductive invariant.                                                *)

USE RoutingAssumption DEF Managers

\* Start leaves the managers in order.
LEMMA ManagerInit == Init => ManagerInv
<1>. SUFFICES ASSUME Init PROVE ManagerInv
  BY ZenonT(30)
<1>1. /\ MinInstances - 1 \in Ids /\ 0 .. MinInstances - 2 \in SUBSET Ids
      /\ MinInstances - 1 \notin 0 .. MinInstances - 2
      /\ 0 .. MinInstances - 1 = (0 .. MinInstances - 2) \union {MinInstances - 1}
  BY DEF Ids
<1>2. PICK o \in OrdersOf(0 .. MinInstances - 2) :
        routing = [ver |-> 0, instances |-> 0 .. MinInstances - 1,
                   ids |-> Append(o, MinInstances - 1)]
  BY ZenonT(30) DEF Init
<1>3. routing \in Snapshots /\ SnapshotAgrees
  BY ZenonT(30), <1>1, <1>2, AppendAgrees DEF Snapshots, SnapshotAgrees, Agrees
<1>4. NoSnapshot \in Snapshots
  BY DEF NoSnapshot, Snapshots
<1>5. ManagerTypes
  BY ZenonT(30), <1>1, <1>3, <1>4 DEF Init, ManagerTypes
<1>6. IdsAreOld
  BY <1>2 DEF Init, IdsAreOld
<1>7. HeldIsCurrent /\ AddedIsFresh /\ RemovedIsStopped
  BY ZenonT(30) DEF Init, HeldIsCurrent, AddedIsFresh, RemovedIsStopped, Holding, Removing
<1>8. InstancesAccounted
  BY ZenonT(30), <1>2 DEF Init, InstancesAccounted
<1>. QED
  BY ZenonT(30), <1>3, <1>5, <1>6, <1>7, <1>8 DEF ManagerInv

\* What routers, watchers and assemblers do leaves the managers alone.
managed == <<routing, nextInstanceID, running, mpc, mid, mold>>

LEMMA ManagedUnchanged == ASSUME ManagerInv, UNCHANGED managed PROVE ManagerInv'
BY DEF managed, ManagerInv, ManagerTypes, IdsAreOld, HeldIsCurrent, AddedIsFresh,
   RemovedIsStopped, SnapshotAgrees, InstancesAccounted, Adding, Stopping

\* RouteFragment reads the snapshot and writes to shards only.
LEMMA RouterLeaves ==
  ASSUME NEW r \in Routers, Router(r) PROVE UNCHANGED managed
BY ZenonT(30) DEF Router, GetSocketFileList, SocketsFail, RouteSingle, SingleFails, List, ListFails, Check, Exists, Choose,
   RemoteSent, RemoteRefused, Retry, Fail, GetShard, Disappeared, Push, mvars,
   store, managed

----------------------------------------------------------------------------
(* One lemma for each step of a manager.                                   *)

\* AddInstance takes an id that was never given out.
LEMMA AddInstanceKeeps == ASSUME ManagerInv, AddInstance PROVE ManagerInv'
<1>1. ManagerTypes'
  BY DEF ManagerInv, ManagerTypes, AddInstance, MGoto, Ids
<1>2. IdsAreOld'
  <2>1. \A i \in Ids \union {-1} : i < nextInstanceID => i < nextInstanceID + 1
    BY DEF ManagerInv, ManagerTypes, Ids
  <2>2. nextInstanceID < nextInstanceID + 1
    BY DEF ManagerInv, ManagerTypes
  <2>. QED
    BY ZenonT(30), <2>1, <2>2 DEF ManagerInv, ManagerTypes, Snapshots, IdsAreOld, AddInstance, MGoto
<1>3. HeldIsCurrent'
  BY ZenonT(30) DEF ManagerInv, ManagerTypes, HeldIsCurrent, Holding, AddInstance, MGoto
<1>4. AddedIsFresh'
  BY DEF ManagerInv, ManagerTypes, IdsAreOld, AddedIsFresh, AddInstance, MGoto
<1>5. RemovedIsStopped'
  BY DEF ManagerInv, ManagerTypes, IdsAreOld, RemovedIsStopped, Removing, AddInstance, MGoto
<1>6. InstancesAccounted'
  BY ZenonT(30) DEF ManagerInv, ManagerTypes, IdsAreOld, InstancesAccounted, Adding, Stopping,
         AddInstance, ScalerActs, MGoto
<1>7. SnapshotAgrees'
  BY ZenonT(30) DEF ManagerInv, SnapshotAgrees, AddInstance
<1>. QED
  BY ZenonT(30), <1>1, <1>2, <1>3, <1>4, <1>5, <1>6, <1>7 DEF ManagerInv

\* The snapshot AddInstance loads is the current one.
LEMMA AddLoadKeeps == ASSUME ManagerInv, AddLoad PROVE ManagerInv'
<1>1. ManagerTypes' /\ IdsAreOld' /\ SnapshotAgrees'
  BY ZenonT(30) DEF ManagerInv, ManagerTypes, IdsAreOld, SnapshotAgrees, AddLoad, MGoto, store
<1>2. HeldIsCurrent'
  BY DEF ManagerInv, ManagerTypes, Snapshots, HeldIsCurrent, Holding, AddLoad, MGoto, store
<1>3. AddedIsFresh' /\ RemovedIsStopped'
  BY ZenonT(30) DEF ManagerInv, ManagerTypes, AddedIsFresh, RemovedIsStopped, Removing, AddLoad, MGoto, store
<1>4. InstancesAccounted'
  BY ZenonT(30) DEF ManagerInv, ManagerTypes, InstancesAccounted, Adding, Stopping, AddLoad, MGoto, store
<1>. QED
  BY ZenonT(30), <1>1, <1>2, <1>3, <1>4 DEF ManagerInv

\* The snapshot that is published holds the new instance, which nobody else
\* knows; the versions other managers hold are now behind.
LEMMA AddSwapKeeps == ASSUME ManagerInv, AddSwap PROVE ManagerInv'
<1>. DEFINE new == mid["scaler"]
<1>1. CASE routing.ver # mold["scaler"].ver
  <2>1. ManagerTypes' /\ IdsAreOld' /\ SnapshotAgrees'
    BY ZenonT(30), <1>1 DEF ManagerInv, ManagerTypes, IdsAreOld, SnapshotAgrees, AddSwap, MGoto, store
  <2>2. HeldIsCurrent' /\ AddedIsFresh' /\ RemovedIsStopped'
    BY <1>1 DEF ManagerInv, ManagerTypes, HeldIsCurrent, Holding, AddedIsFresh,
                RemovedIsStopped, Removing, AddSwap, MGoto, store
  <2>3. InstancesAccounted'
    BY <1>1 DEF ManagerInv, ManagerTypes, InstancesAccounted, Adding, Stopping, AddSwap, MGoto, store
  <2>. QED
    BY ZenonT(30), <2>1, <2>2, <2>3 DEF ManagerInv
<1>2. CASE routing.ver = mold["scaler"].ver
  <2>1. mpc["scaler"] = "add" /\ mold["scaler"] = routing
    BY ZenonT(30), <1>2 DEF ManagerInv, ManagerTypes, HeldIsCurrent, Holding, AddSwap
  <2>2. new \in Ids /\ new \in running /\ new \notin routing.instances /\ new < nextInstanceID
    BY ZenonT(30), <2>1 DEF ManagerInv, ManagerTypes, AddedIsFresh, IdsAreOld
  <2>3. PICK o \in OrdersOf(routing.instances) :
          routing' = [ver |-> routing.ver + 1,
                      instances |-> routing.instances \union {new},
                      ids |-> Append(o, new)]
    BY ZenonT(30), <1>2, <2>1 DEF AddSwap
  <2>4. routing \in Snapshots /\ routing.ver \in Nat /\ routing.instances \in SUBSET Ids
    BY ZenonT(30) DEF ManagerInv, ManagerTypes, Snapshots
  <2>5. routing' \in Snapshots /\ SnapshotAgrees'
    BY SMTT(30), <2>2, <2>3, <2>4, AppendAgrees DEF Snapshots, SnapshotAgrees, Agrees
  <2>6. /\ mpc' = [mpc EXCEPT !["scaler"] = "idle"]
        /\ mid' = [mid EXCEPT !["scaler"] = -1]
        /\ mold' = [mold EXCEPT !["scaler"] = NoSnapshot]
        /\ UNCHANGED <<nextInstanceID, running>>
    BY ZenonT(30), <1>2 DEF AddSwap, Idle, MGoto, store
  <2>7. routing'.ver = routing.ver + 1 /\ routing'.instances = routing.instances \union {new}
    BY ZenonT(30), <2>3
  <2>8. ManagerTypes'
    BY <2>5, <2>6 DEF ManagerInv, ManagerTypes, NoSnapshot, Snapshots
  <2>9. IdsAreOld'
    BY SMTT(30), <2>2, <2>6, <2>7 DEF ManagerInv, ManagerTypes, IdsAreOld
  <2>10. HeldIsCurrent'
    BY <2>4, <2>6, <2>7 DEF ManagerInv, ManagerTypes, Snapshots, HeldIsCurrent, Holding
  <2>11. AddedIsFresh' /\ RemovedIsStopped'
    BY ZenonT(30), <2>6 DEF ManagerInv, ManagerTypes, AddedIsFresh, RemovedIsStopped, Removing
  <2>12. InstancesAccounted'
    BY <2>1, <2>2, <2>6, <2>7 DEF ManagerInv, ManagerTypes, InstancesAccounted, Adding, Stopping
  <2>. QED
    BY ZenonT(30), <2>5, <2>8, <2>9, <2>10, <2>11, <2>12 DEF ManagerInv
<1>. QED
  BY ZenonT(30), <1>1, <1>2

\* Shutdown goes from one instance to the next and ends.
LEMMA ShutdownKeeps ==
  ASSUME ManagerInv, ShutdownBegins \/ ShutdownEnds PROVE ManagerInv'
<1>1. /\ mpc' = [mpc EXCEPT !["shutdown"] = "next"] \/ mpc' = [mpc EXCEPT !["shutdown"] = "done"]
      /\ mpc["shutdown"] \in {"idle", "next"}
      /\ UNCHANGED <<routing, nextInstanceID, running, mid, mold>>
  BY ZenonT(30) DEF ShutdownBegins, ShutdownEnds, MGoto, store
<1>2. ManagerTypes' /\ IdsAreOld' /\ SnapshotAgrees'
  BY ZenonT(30), <1>1 DEF ManagerInv, ManagerTypes, IdsAreOld, SnapshotAgrees
<1>3. HeldIsCurrent' /\ AddedIsFresh' /\ RemovedIsStopped'
  BY <1>1 DEF ManagerInv, ManagerTypes, HeldIsCurrent, Holding, AddedIsFresh,
              RemovedIsStopped, Removing
<1>4. InstancesAccounted'
  BY <1>1 DEF ManagerInv, ManagerTypes, InstancesAccounted, Adding, Stopping
<1>. QED
  BY ZenonT(30), <1>2, <1>3, <1>4 DEF ManagerInv

\* The head of the list is an instance of the snapshot, so not the one that
\* is being added.
LEMMA RemoveOldestKeeps ==
  ASSUME ManagerInv, NEW m \in Managers, RemoveOldest(m) PROVE ManagerInv'
<1>1. Head(routing.ids) \in routing.instances /\ Head(routing.ids) \in Ids
  <2>1. routing.ids \in Seq(Ids) /\ routing.ids # <<>>
    BY ZenonT(30) DEF ManagerInv, ManagerTypes, Snapshots, RemoveOldest
  <2>2. 1 \in DOMAIN routing.ids /\ Head(routing.ids) = routing.ids[1]
    BY <2>1
  <2>. QED
    BY <2>1, <2>2 DEF ManagerInv, SnapshotAgrees, Agrees, ElementsOf
<1>2. /\ mpc' = [mpc EXCEPT ![m] = "remove"]
      /\ mid' = [mid EXCEPT ![m] = Head(routing.ids)]
      /\ mpc[m] \in {"idle", "next"}
      /\ UNCHANGED <<routing, nextInstanceID, running, mold>>
  BY ZenonT(30) DEF RemoveOldest, ScalerActs, MGoto, store
<1>3. ManagerTypes' /\ IdsAreOld' /\ SnapshotAgrees'
  BY ZenonT(30), <1>1, <1>2 DEF ManagerInv, ManagerTypes, IdsAreOld, SnapshotAgrees
<1>4. HeldIsCurrent' /\ AddedIsFresh'
  BY ZenonT(30), <1>1, <1>2 DEF ManagerInv, ManagerTypes, HeldIsCurrent, Holding, AddedIsFresh
<1>5. RemovedIsStopped'
  BY ZenonT(30), <1>1, <1>2 DEF ManagerInv, ManagerTypes, RemovedIsStopped, Removing
<1>6. InstancesAccounted'
  BY <1>2 DEF ManagerInv, ManagerTypes, InstancesAccounted, Adding, Stopping
<1>. QED
  BY ZenonT(30), <1>3, <1>4, <1>5, <1>6 DEF ManagerInv

\* removeInstance returns when the instance is gone.
LEMMA RemoveNothingKeeps ==
  ASSUME ManagerInv, NEW m \in Managers, RemoveNothing(m) PROVE ManagerInv'
<1>1. /\ mpc' = [mpc EXCEPT ![m] = IF m = "shutdown" THEN "next" ELSE "idle"]
      /\ mid' = [mid EXCEPT ![m] = -1]
      /\ mold' = [mold EXCEPT ![m] = NoSnapshot]
      /\ mpc[m] = "remove"
      /\ UNCHANGED <<routing, nextInstanceID, running>>
  BY ZenonT(30) DEF RemoveNothing, Idle, MGoto, store
<1>2. NoSnapshot \in Snapshots
  BY DEF NoSnapshot, Snapshots
<1>3. ManagerTypes' /\ IdsAreOld' /\ SnapshotAgrees'
  BY SMTT(30), <1>1, <1>2 DEF ManagerInv, ManagerTypes, IdsAreOld, SnapshotAgrees
<1>4. HeldIsCurrent' /\ RemovedIsStopped'
  BY <1>1 DEF ManagerInv, ManagerTypes, HeldIsCurrent, Holding, RemovedIsStopped, Removing
<1>5. AddedIsFresh'
  BY <1>1 DEF ManagerInv, ManagerTypes, AddedIsFresh, Ids
<1>6. InstancesAccounted'
  BY <1>1 DEF ManagerInv, ManagerTypes, InstancesAccounted, Adding, Stopping
<1>. QED
  BY ZenonT(30), <1>3, <1>4, <1>5, <1>6 DEF ManagerInv

\* Loading the snapshot, marking the instance and waiting for its buckets.
LEMMA RemoveWaitsKeeps ==
  ASSUME ManagerInv, NEW m \in Managers,
         RemoveLoad(m) \/ RemoveMark(m) \/ RemoveDrained(m) \/ RemoveTimeout(m)
  PROVE  ManagerInv'
<1>1. PICK l \in {"mark", "wait", "stop"} :
        /\ mpc' = [mpc EXCEPT ![m] = l]
        /\ mpc[m] \in {"remove", "mark", "wait"}
        /\ \/ mold' = [mold EXCEPT ![m] = routing] /\ mid[m] \in routing.instances
           \/ mpc[m] \in {"mark", "wait"} /\ UNCHANGED mold
        /\ UNCHANGED <<routing, nextInstanceID, running, mid>>
  BY ZenonT(30) DEF RemoveLoad, RemoveMark, RemoveDrained, RemoveTimeout, MGoto, store, Holding
<1>2. ManagerTypes' /\ IdsAreOld' /\ SnapshotAgrees'
  BY <1>1 DEF ManagerInv, ManagerTypes, IdsAreOld, SnapshotAgrees
<1>3. HeldIsCurrent'
  <2>1. routing.ver \in Nat
    BY ZenonT(30) DEF ManagerInv, ManagerTypes, Snapshots
  <2>2. CASE mold' = [mold EXCEPT ![m] = routing]
    BY SMTT(30), <1>1, <2>1, <2>2 DEF ManagerInv, ManagerTypes, HeldIsCurrent, Holding
  <2>3. CASE mpc[m] \in {"mark", "wait"} /\ UNCHANGED mold
    BY ZenonT(30), <1>1, <2>3 DEF ManagerInv, ManagerTypes, HeldIsCurrent, Holding
  <2>. QED BY <1>1, <2>2, <2>3
<1>4. AddedIsFresh' /\ RemovedIsStopped'
  <2>1. CASE mold' = [mold EXCEPT ![m] = routing] /\ mid[m] \in routing.instances
    BY SMTT(30), <1>1, <2>1 DEF ManagerInv, ManagerTypes, AddedIsFresh, RemovedIsStopped, Removing
  <2>2. CASE mpc[m] \in {"mark", "wait"} /\ UNCHANGED mold
    BY ZenonT(30), <1>1, <2>2 DEF ManagerInv, ManagerTypes, AddedIsFresh, RemovedIsStopped, Removing
  <2>. QED BY SMTT(30), <1>1, <2>1, <2>2
<1>5. InstancesAccounted'
  BY SMTT(30), <1>1 DEF ManagerInv, ManagerTypes, InstancesAccounted, Adding, Stopping
<1>. QED
  BY ZenonT(30), <1>2, <1>3, <1>4, <1>5 DEF ManagerInv

\* After wg.Wait the pair no longer runs and is about to be taken out.
LEMMA RemoveStopKeeps ==
  ASSUME ManagerInv, NEW m \in Managers, RemoveStop(m) PROVE ManagerInv'
<1>1. /\ mpc' = [mpc EXCEPT ![m] = "swap"] /\ mpc[m] = "stop"
      /\ running' = running \ {mid[m]}
      /\ UNCHANGED <<routing, nextInstanceID, mid, mold>>
  BY ZenonT(30) DEF RemoveStop, MGoto
<1>2. ManagerTypes' /\ IdsAreOld' /\ SnapshotAgrees'
  BY ZenonT(30), <1>1 DEF ManagerInv, ManagerTypes, IdsAreOld, SnapshotAgrees
<1>3. HeldIsCurrent' /\ RemovedIsStopped'
  BY ZenonT(30), <1>1 DEF ManagerInv, ManagerTypes, HeldIsCurrent, Holding, RemovedIsStopped, Removing
<1>4. AddedIsFresh'
  BY ZenonT(30), <1>1 DEF ManagerInv, ManagerTypes, AddedIsFresh
<1>5. InstancesAccounted'
  BY ZenonT(30), <1>1 DEF ManagerInv, ManagerTypes, InstancesAccounted, Adding, Stopping
<1>. QED
  BY ZenonT(30), <1>2, <1>3, <1>4, <1>5 DEF ManagerInv

\* The instance that goes is stopped; the one another manager still has to
\* take out stays, and that manager holds a version that is now behind.
LEMMA RemoveSwapKeeps ==
  ASSUME ManagerInv, NEW m \in Managers, RemoveSwap(m) PROVE ManagerInv'
<1>. DEFINE i == mid[m]
<1>1. mpc[m] = "swap" /\ mold[m] = routing
  BY ZenonT(30) DEF ManagerInv, ManagerTypes, HeldIsCurrent, Holding, RemoveSwap
<1>2. i \in routing.instances /\ i \notin running
  BY ZenonT(30), <1>1 DEF ManagerInv, RemovedIsStopped, Removing
<1>3. /\ mpc' = [mpc EXCEPT ![m] = IF m = "shutdown" THEN "next" ELSE "idle"]
      /\ mid' = [mid EXCEPT ![m] = -1]
      /\ mold' = [mold EXCEPT ![m] = NoSnapshot]
      /\ routing' = [ver |-> routing.ver + 1, instances |-> routing.instances \ {i},
                     ids |-> Without(routing.ids, i)]
      /\ UNCHANGED <<nextInstanceID, running>>
  BY ZenonT(30), <1>1 DEF RemoveSwap, Idle, MGoto, store
<1>4. routing'.ver = routing.ver + 1 /\ routing'.instances = routing.instances \ {i}
  BY ZenonT(30), <1>3
<1>5. routing \in Snapshots /\ Agrees(routing) /\ routing.ver \in Nat
  BY ZenonT(30) DEF ManagerInv, ManagerTypes, SnapshotAgrees, Snapshots
<1>6. routing' \in Snapshots /\ SnapshotAgrees'
  BY SMTT(30), <1>2, <1>3, <1>5, WithoutAgrees DEF Snapshots, SnapshotAgrees, Agrees
<1>7. NoSnapshot \in Snapshots
  BY DEF NoSnapshot, Snapshots
<1>8. ManagerTypes' /\ IdsAreOld'
  BY <1>3, <1>4, <1>6, <1>7 DEF ManagerInv, ManagerTypes, IdsAreOld
<1>9. HeldIsCurrent'
  BY SMTT(30), <1>3, <1>4, <1>5 DEF ManagerInv, ManagerTypes, Snapshots, HeldIsCurrent, Holding
<1>10. AddedIsFresh'
  BY SMTT(30), <1>1, <1>3, <1>4 DEF ManagerInv, ManagerTypes, AddedIsFresh, Ids
<1>11. RemovedIsStopped'
  BY ZenonT(30), <1>3 DEF ManagerInv, ManagerTypes, RemovedIsStopped, Removing
<1>12. InstancesAccounted'
  BY SMTT(30), <1>1, <1>2, <1>3, <1>4 DEF ManagerInv, ManagerTypes, InstancesAccounted, Adding, Stopping
<1>. QED
  BY ZenonT(30), <1>6, <1>8, <1>9, <1>10, <1>11, <1>12 DEF ManagerInv

\* Every step of every goroutine keeps the invariant.
LEMMA ManagerStep == ManagerInv /\ [Next]_vars => ManagerInv'
<1>. SUFFICES ASSUME ManagerInv, [Next]_vars PROVE ManagerInv'
  BY ZenonT(30)
<1>1. ASSUME NEW r \in Routers, Router(r) PROVE ManagerInv'
  BY ZenonT(30), <1>1, RouterLeaves, ManagedUnchanged
<1>2. ASSUME NEW r \in Routers, NEW f \in Fragments, Begin(r, f)
      PROVE  ManagerInv'
  BY ZenonT(30), <1>2, ManagedUnchanged DEF Begin, store, mvars, managed
<1>3. ASSUME NEW i \in Ids, NEW k \in Keys, Expire(i, k) \/ Take(i, k)
      PROVE  ManagerInv'
  BY ZenonT(30), <1>3, ManagedUnchanged DEF Expire, Take, SetBucket, mvars, managed
<1>4. ASSUME NEW m \in Managers, Remove(m) PROVE ManagerInv'
  BY ZenonT(30), <1>4, RemoveWaitsKeeps, RemoveNothingKeeps, RemoveStopKeeps, RemoveSwapKeeps DEF Remove
<1>5. CASE ShutdownBegins \/ Shutdown
  BY ZenonT(30), <1>4, <1>5, ShutdownKeeps, RemoveOldestKeeps DEF Shutdown
<1>6. CASE AddInstance \/ RemoveOldest("scaler") \/ Scaler
  BY ZenonT(30), <1>4, <1>6, AddInstanceKeeps, AddLoadKeeps, AddSwapKeeps, RemoveOldestKeeps DEF Scaler
<1>7. CASE UNCHANGED vars
  BY ZenonT(30), <1>7, ManagedUnchanged DEF vars, store, mvars, managed
<1>. QED
  BY ZenonT(30), <1>1, <1>2, <1>3, <1>5, <1>6, <1>7 DEF Next

\* ManagerInv holds in every state: what Shutdown and the scaler rely on when
\* they replace the routing snapshot.
THEOREM ManagerInvariant == Spec => []ManagerInv
BY ManagerInit, ManagerStep, PTL DEF Spec

\* The list and the map of the routing snapshot always name the same
\* instances, each once, whatever AddInstance and removeInstance do at once.
THEOREM SnapshotNeverTorn == Spec => []SnapshotAgrees
<1>1. ManagerInv => SnapshotAgrees
  BY ZenonT(30) DEF ManagerInv
<1>. QED
  BY <1>1, ManagerInvariant, PTL

\* Every pair that runs is in the snapshot or about to be added, every pair in
\* the snapshot runs or is about to be taken out, although Shutdown and the
\* scaler call AddInstance and RemoveOldestInstance at the same time.
THEOREM NoInstanceLost == Spec => []InstancesAccounted
<1>1. ManagerInv => InstancesAccounted
  BY ZenonT(30) DEF ManagerInv
<1>. QED
  BY <1>1, ManagerInvariant, PTL

----------------------------------------------------------------------------
(* The routers: what RouteFragment holds at each point.                    *)

Buckets == [frags : SUBSET {0, 1}, filled : BOOLEAN]

RouterTypes ==
  /\ InShutdown \subseteq Ids /\ drained \subseteq Ids
  /\ bucket \in [Ids -> [Keys -> Buckets]]
  /\ todo \subseteq Fragments /\ late \subseteq Ids \X Keys
  /\ rpc \in [Routers -> {"idle", "single", "sockets", "list", "check",
                          "exists", "remote", "get", "push"}]
  /\ rfrag \in [Routers -> Fragments \union {<<>>}]
  /\ rids \in [Routers -> Seq(Ids)]
  /\ rtarget \in [Routers -> Ids \union {-1}]
  /\ rtries \in [Routers -> 0 .. RetryLimit - 1]
  /\ rremote \in [Routers -> BOOLEAN]
  /\ rver \in [Routers -> Nat]

\* routeSelect divides by the length of a list that is not empty, and a shard
\* that is looked up or pushed to has been chosen.
RouterHolds ==
  \A r \in Routers :
    /\ rpc[r] # "idle" => rfrag[r] \in Fragments
    /\ rpc[r] \in {"check", "exists"} => rids[r] # <<>>
    /\ rpc[r] \in {"exists", "get", "push"} => rtarget[r] \in Ids

RouterInv == RouterTypes /\ RouterHolds

shards == <<InShutdown, bucket, drained, late, todo, rvars>>

LEMMA ShardsUnchanged == ASSUME RouterInv, UNCHANGED shards PROVE RouterInv'
BY ZenonT(30) DEF shards, rvars, RouterInv, RouterTypes, RouterHolds

\* Both choices of routeSelect are ids of the list.
LEMMA SelectsId ==
  ASSUME NEW s \in Seq(Ids), s # <<>>, NEW k \in Keys
  PROVE  Primary(k, s) \in Ids /\ Secondary(k, s) \in Ids
<1>1. Len(s) \in Nat \ {0} /\ \A n \in 1 .. Len(s) : s[n] \in Ids
  OBVIOUS
<1>2. HashOf[k] \in Nat
  BY ZenonT(30)
<1>3. \A n \in Nat, d \in Nat \ {0} : (n % d) + 1 \in 1 .. d
  BY SMTT(30)
<1>. QED
  BY <1>1, <1>2, <1>3 DEF Primary, Secondary

\* A call that ends leaves a router with nothing.
LEMMA ReturnKeeps ==
  ASSUME RouterTypes, RouterHolds, NEW r \in Routers, Return(r)
  PROVE  /\ rpc' \in [Routers -> {"idle", "single", "sockets", "list", "check",
                                  "exists", "remote", "get", "push"}]
         /\ rfrag' \in [Routers -> Fragments \union {<<>>}]
         /\ rids' \in [Routers -> Seq(Ids)]
         /\ rtarget' \in [Routers -> Ids \union {-1}]
         /\ rtries' \in [Routers -> 0 .. RetryLimit - 1]
         /\ rremote' \in [Routers -> BOOLEAN]
         /\ rver' \in [Routers -> Nat]
         /\ RouterHolds'
<1>1. <<>> \in Seq(Ids) /\ 0 \in 0 .. RetryLimit - 1
  BY SMTT(30)
<1>. QED
  BY ZenonT(30), <1>1 DEF RouterTypes, RouterHolds, Return, Goto

LEMMA FailKeeps == ASSUME RouterInv, NEW r \in Routers, Fail(r) PROVE RouterInv'
BY ZenonT(30), ReturnKeeps DEF RouterInv, RouterTypes, Fail, store

\* Another round begins with an empty list.
LEMMA RetryKeeps ==
  ASSUME RouterInv, NEW r \in Routers, rpc[r] # "idle", Retry(r) PROVE RouterInv'
<1>1. CASE rtries[r] + 1 = RetryLimit
  BY ZenonT(30), <1>1, FailKeeps DEF Retry
<1>2. CASE rtries[r] + 1 # RetryLimit
  <2>0. RetryLimit \in Nat /\ rtries[r] \in 0 .. RetryLimit - 1
    BY ZenonT(30) DEF RouterInv, RouterTypes
  <2>1. <<>> \in Seq(Ids) /\ rtries[r] + 1 \in 0 .. RetryLimit - 1
    BY SMTT(30), <1>2, <2>0
  <2>2. /\ rtries' = [rtries EXCEPT ![r] = rtries[r] + 1]
        /\ rremote' = [rremote EXCEPT ![r] = rremote[r] /\ rpc[r] # "remote"]
        /\ rids' = [rids EXCEPT ![r] = <<>>] /\ rtarget' = [rtarget EXCEPT ![r] = -1]
        /\ rpc' = [rpc EXCEPT ![r] = "list"]
        /\ UNCHANGED <<InShutdown, bucket, drained, late, todo, rfrag, rver>>
    BY ZenonT(30), <1>2 DEF Retry, Goto, store
  <2>3. rremote' \in [Routers -> BOOLEAN]
    BY ZenonT(30), <2>2 DEF RouterInv, RouterTypes
  <2>4. RouterTypes'
    BY ZenonT(30), <2>1, <2>2, <2>3 DEF RouterInv, RouterTypes
  <2>5. RouterHolds'
    BY ZenonT(30), <2>2 DEF RouterInv, RouterTypes, RouterHolds
  <2>. QED
    BY ZenonT(30), <2>4, <2>5 DEF RouterInv
<1>. QED
  BY ZenonT(30), <1>1, <1>2

\* A router that chooses keeps its list and its fragment.
LEMMA ChooseKeeps ==
  ASSUME RouterInv, NEW r \in Routers, NEW i \in Ids, NEW l \in {"exists", "get", "push"},
         rpc[r] # "idle", l = "exists" => rids[r] # <<>>, Choose(r, i, l)
  PROVE  RouterInv'
BY ZenonT(30) DEF Choose, Goto, store, RouterInv, RouterTypes, RouterHolds

\* push leaves a bucket with fragments of its message.
LEMMA PushKeeps == ASSUME RouterInv, NEW r \in Routers, Push(r) PROVE RouterInv'
<1>. DEFINE i == rtarget[r]
            k == rfrag[r][1]
            all == bucket[i][k].frags \union {rfrag[r][2]}
<1>1. i \in Ids /\ k \in Keys /\ rfrag[r][2] \in {0, 1}
  BY ZenonT(30) DEF Push, RouterInv, RouterHolds, Fragments
<1>2. bucket[i] \in [Keys -> Buckets] /\ bucket[i][k] \in Buckets
  BY SMTT(30), <1>1 DEF RouterInv, RouterTypes
<1>3. [frags |-> all, filled |-> all = SeqsOf(k)] \in Buckets
  BY ZenonT(30), <1>1, <1>2 DEF Buckets
<1>4. bucket' \in [Ids -> [Keys -> Buckets]]
  <2>1. UNCHANGED bucket \/ bucket' = [bucket EXCEPT ![i] = [bucket[i] EXCEPT ![k] =
                                          [frags |-> all, filled |-> all = SeqsOf(k)]]]
    BY ZenonT(30) DEF Push
  <2>2. [bucket[i] EXCEPT ![k] = [frags |-> all, filled |-> all = SeqsOf(k)]]
          \in [Keys -> Buckets]
    BY ZenonT(30), <1>2, <1>3
  <2>3. bucket \in [Ids -> [Keys -> Buckets]]
    BY ZenonT(30) DEF RouterInv, RouterTypes
  <2>. QED
    BY ZenonT(30), <2>1, <2>2, <2>3
<1>5. late' \subseteq Ids \X Keys
  BY SMTT(30), <1>1 DEF Push, RouterInv, RouterTypes
<1>. QED
  BY ZenonT(30), <1>4, <1>5, ReturnKeeps DEF Push, RouterInv, RouterTypes

\* Every step of RouteFragment.
LEMMA RouterKeeps ==
  ASSUME ManagerInv, RouterInv, NEW r \in Routers, Router(r) PROVE RouterInv'
<1>1. routing.ids \in Seq(Ids) /\ routing.instances \subseteq Ids
  BY ZenonT(30) DEF ManagerInv, ManagerTypes, Snapshots
<1>2. rpc[r] \in {"check", "exists"} =>
        /\ Primary(rfrag[r][1], rids[r]) \in Ids
        /\ Secondary(rfrag[r][1], rids[r]) \in Ids
  <2>1. rpc[r] \in {"check", "exists"} =>
          rids[r] \in Seq(Ids) /\ rids[r] # <<>> /\ rfrag[r][1] \in Keys
    BY ZenonT(30) DEF RouterInv, RouterTypes, RouterHolds, Fragments
  <2>. QED
    BY ZenonT(30), <2>1, SelectsId
<1>3. ASSUME NEW i \in Ids, RouteSingle(r, i) PROVE RouterInv'
  BY ZenonT(30), <1>3, ChooseKeeps DEF RouteSingle, Choose
<1>4. CASE SocketsFail(r) \/ SingleFails(r) \/ ListFails(r)
  BY ZenonT(30), <1>4, FailKeeps DEF SocketsFail, SingleFails, ListFails
<1>5. CASE List(r)
  BY ZenonT(30), <1>1, <1>5 DEF List, Goto, store, RouterInv, RouterTypes, RouterHolds
<1>6. CASE Check(r)
  <2>1. rids[r] # <<>> /\ rpc[r] # "idle"
    BY ZenonT(30), <1>6 DEF Check, RouterInv, RouterHolds
  <2>. QED
    BY ZenonT(30), <1>2, <1>6, <2>1, ChooseKeeps DEF Check
<1>7. CASE Exists(r)
  <2>1. rpc[r] = "exists" /\ rtarget[r] \in Ids
    BY ZenonT(30), <1>7 DEF Exists, RouterInv, RouterHolds
  <2>2. CASE Choose(r, -1, "remote")
    BY ZenonT(30), <2>1, <2>2 DEF Choose, Goto, store, RouterInv, RouterTypes, RouterHolds
  <2>. QED
    BY ZenonT(30), <1>2, <1>7, <2>1, <2>2, ChooseKeeps DEF Exists
<1>8. CASE RemoteSent(r)
  BY ZenonT(30), <1>8, ReturnKeeps DEF RemoteSent, store, RouterInv, RouterTypes
<1>9. CASE RemoteRefused(r) \/ Disappeared(r)
  BY ZenonT(30), <1>9, RetryKeeps, FailKeeps DEF RemoteRefused, Disappeared
<1>10. CASE GetShard(r)
  BY ZenonT(30), <1>1, <1>10, ChooseKeeps DEF GetShard
<1>11. ASSUME NEW remote \in BOOLEAN, GetSocketFileList(r, remote) PROVE RouterInv'
  BY ZenonT(30), <1>11 DEF GetSocketFileList, Goto, store, RouterInv, RouterTypes, RouterHolds
<1>. QED
  BY ZenonT(30), <1>3, <1>4, <1>5, <1>6, <1>7, <1>8, <1>9, <1>10, <1>11, PushKeeps DEF Router

\* Managers mark and drain instances that have an id.
LEMMA RemoveKeepsShards ==
  ASSUME ManagerInv, RouterInv, NEW m \in Managers, Remove(m) PROVE RouterInv'
<1>1. mpc[m] \in {"mark", "wait"} => mid[m] \in Ids
  BY ZenonT(30) DEF ManagerInv, RemovedIsStopped, Removing
<1>2. CASE RemoveMark(m) \/ RemoveDrained(m)
  BY ZenonT(30), <1>1, <1>2 DEF RemoveMark, RemoveDrained, rvars, RouterInv, RouterTypes, RouterHolds
<1>3. CASE ~(RemoveMark(m) \/ RemoveDrained(m))
  BY ZenonT(30), <1>3, ShardsUnchanged DEF Remove, RemoveLoad, RemoveNothing, RemoveTimeout, RemoveStop,
     RemoveSwap, Idle, store, shards
<1>. QED
  BY ZenonT(30), <1>2, <1>3

\* RouterInv holds with ManagerInv in every state.
LEMMA RouterStep == ManagerInv /\ RouterInv /\ [Next]_vars => RouterInv'
<1>. SUFFICES ASSUME ManagerInv, RouterInv, [Next]_vars PROVE RouterInv'
  BY ZenonT(30)
<1>1. ASSUME NEW r \in Routers, NEW f \in Fragments, Begin(r, f)
      PROVE  RouterInv'
  <2>1. routing.ver \in Nat
    BY ZenonT(30) DEF ManagerInv, ManagerTypes, Snapshots
  <2>3. RouterTypes'
    BY ZenonT(30), <1>1, <2>1 DEF Begin, Goto, store, RouterInv, RouterTypes
  <2>4. RouterHolds'
    BY ZenonT(30), <1>1 DEF Begin, Goto, RouterInv, RouterTypes, RouterHolds
  <2>. QED
    BY ZenonT(30), <2>3, <2>4 DEF RouterInv
<1>2. ASSUME NEW i \in Ids, NEW k \in Keys, Expire(i, k) \/ Take(i, k) PROVE RouterInv'
  <2>1. bucket \in [Ids -> [Keys -> Buckets]] /\ bucket[i] \in [Keys -> Buckets]
    BY ZenonT(30) DEF RouterInv, RouterTypes
  <2>2. PICK b \in Buckets : SetBucket(i, k, b)
    <3>1. \A b \in Buckets : [b EXCEPT !.filled = TRUE] \in Buckets
      BY ZenonT(30) DEF Buckets
    <3>2. NoBucket \in Buckets
      BY ZenonT(30) DEF NoBucket, Buckets
    <3>3. bucket[i][k] \in Buckets
      BY ZenonT(30), <2>1
    <3>4. [bucket[i][k] EXCEPT !.filled = TRUE] \in Buckets
      BY ZenonT(30), <3>1, <3>3
    <3>. QED
      BY ZenonT(30), <1>2, <3>2, <3>4 DEF Expire, Take
  <2>3. [bucket[i] EXCEPT ![k] = b] \in [Keys -> Buckets]
    BY Zenon, <2>1
  <2>4. bucket' = [bucket EXCEPT ![i] = [bucket[i] EXCEPT ![k] = b]]
    BY ZenonT(30), <2>2 DEF SetBucket
  <2>5. bucket' \in [Ids -> [Keys -> Buckets]]
    BY Zenon, <2>1, <2>3, <2>4
  <2>6. UNCHANGED <<InShutdown, drained, late, todo, rvars>>
    BY ZenonT(30), <2>2 DEF SetBucket
  <2>. QED
    BY ZenonT(30), <2>5, <2>6 DEF rvars, RouterInv, RouterTypes, RouterHolds
<1>3. CASE \/ ShutdownBegins \/ ShutdownEnds \/ \E m \in Managers : RemoveOldest(m)
           \/ AddInstance \/ AddLoad \/ AddSwap \/ UNCHANGED vars
  BY ZenonT(30), <1>3, ShardsUnchanged DEF ShutdownBegins, ShutdownEnds, RemoveOldest, AddInstance,
     AddLoad, AddSwap, Idle, store, shards, vars
<1>. QED
  BY ZenonT(30), <1>1, <1>2, <1>3, RouterKeeps, RemoveKeepsShards DEF Next, Shutdown, Scaler

\* Routers start with nothing and shards without buckets.
LEMMA RouterInit == Init => RouterInv
<1>1. NoBucket \in Buckets /\ <<>> \in Seq(Ids) /\ 0 \in 0 .. RetryLimit - 1
  BY DEF NoBucket, Buckets
<1>. SUFFICES ASSUME Init PROVE RouterInv
  BY ZenonT(30)
<1>2. bucket \in [Ids -> [Keys -> Buckets]]
  BY ZenonT(30), <1>1 DEF Init
<1>3. /\ rpc \in [Routers -> {"idle", "single", "sockets", "list", "check",
                              "exists", "remote", "get", "push"}]
      /\ rfrag \in [Routers -> Fragments \union {<<>>}]
      /\ rids \in [Routers -> Seq(Ids)]
      /\ rtarget \in [Routers -> Ids \union {-1}]
  BY ZenonT(30), <1>1 DEF Init
<1>4. /\ rtries \in [Routers -> 0 .. RetryLimit - 1]
      /\ rremote \in [Routers -> BOOLEAN]
      /\ rver \in [Routers -> Nat]
  BY ZenonT(30), <1>1 DEF Init
<1>5. InShutdown = {} /\ drained = {} /\ late = {} /\ todo = Fragments
  BY ZenonT(30) DEF Init
<1>6. RouterHolds
  BY ZenonT(30) DEF Init, RouterHolds
<1>. QED
  BY ZenonT(30), <1>2, <1>3, <1>4, <1>5, <1>6 DEF RouterInv, RouterTypes

\* What RouteFragment holds at each of its points, always.
LEMMA RouterInvariant == Spec => []RouterInv
BY RouterInit, ManagerInvariant, RouterStep, PTL DEF Spec

\* Routers, shards and managers hold what they should: in particular a router
\* never selects from an empty list and never counts a round past the limit
\* (shard/routing.go).
THEOREM RoutingTypeCorrect == Spec => []TypeOK
<1>1. ManagerInv /\ RouterInv => TypeOK
  BY ZenonT(30) DEF ManagerInv, ManagerTypes, Snapshots, RouterInv, RouterTypes, Buckets, TypeOK
<1>. QED
  BY <1>1, ManagerInvariant, RouterInvariant, PTL

----------------------------------------------------------------------------
(* What the steps do to shards and to the calls of RouteFragment.          *)

\* No bucket is opened.
Shrinks == \A i \in Ids, k \in Keys : bucket'[i][k] # NoBucket => bucket[i][k] # NoBucket

\* A step of a manager: snapshots are replaced, not changed, marks are never
\* taken back, and a wait succeeds when there is no bucket.
Manages ==
  /\ UNCHANGED <<bucket, late, todo, rvars>>
  /\ InShutdown \subseteq InShutdown'
  /\ UNCHANGED routing \/ routing'.ver = routing.ver + 1
  /\ \A i \in drained' : i \in drained \/ \A k \in Keys : bucket[i][k] = NoBucket

\* A step of the call of router r.
Alike(q) ==
  /\ rpc'[q] = rpc[q] /\ rfrag'[q] = rfrag[q] /\ rids'[q] = rids[q] /\ rtarget'[q] = rtarget[q]
  /\ rtries'[q] = rtries[q] /\ rremote'[q] = rremote[q] /\ rver'[q] = rver[q]
Calls(r) ==
  /\ UNCHANGED <<routing, InShutdown, drained>>
  /\ \A q \in Routers : q # r => Alike(q)

\* The call goes on, in the same round.
Goes(r, from, to) ==
  /\ rpc[r] = from /\ rpc'[r] = to
  /\ rfrag'[r] = rfrag[r] /\ rver'[r] = rver[r]
  /\ rtries'[r] = rtries[r] /\ rremote'[r] = rremote[r]

Returns(r) == rpc'[r] = "idle" /\ rtries'[r] = 0
Reads(r) ==
  /\ rpc[r] = "sockets" /\ rpc'[r] = "list"
  /\ rfrag'[r] = rfrag[r] /\ rver'[r] = rver[r] /\ rtries'[r] = rtries[r]
TakesAny(r) == Goes(r, "single", "get") /\ rtarget'[r] \in routing.instances
Lists(r) == Goes(r, "list", "check") /\ rids'[r] = routing.ids
Checks(r) ==
  /\ rids'[r] = rids[r] /\ rtarget'[r] = Primary(rfrag[r][1], rids[r])
  /\ \/ Goes(r, "check", "exists") /\ IsShardShutdown(rtarget'[r])
     \/ Goes(r, "check", "get") /\ ~IsShardShutdown(rtarget'[r])
Finds(r) == Goes(r, "exists", "get") /\ rtarget'[r] = rtarget[r] /\ rtarget[r] \in routing.instances
Leaves(r) == Goes(r, "exists", "remote") /\ rremote[r]
Turns(r) == Goes(r, "exists", "get") /\ rtarget'[r] = Secondary(rfrag[r][1], rids[r])
Gets(r) == Goes(r, "get", "push") /\ rtarget'[r] = rtarget[r]

\* Another round of it.
Again(r) ==
  /\ rpc[r] \in {"remote", "get"} /\ rpc'[r] = "list"
  /\ rfrag'[r] = rfrag[r] /\ rver'[r] = rver[r] /\ rtries'[r] = rtries[r] + 1
  /\ rpc[r] = "remote" => ~rremote'[r]
  /\ rpc[r] = "get" => rtarget[r] \notin routing.instances

Moves(r) ==
  \/ Returns(r) \/ Reads(r) \/ TakesAny(r) \/ Lists(r) \/ Checks(r) \/ Finds(r) \/ Leaves(r)
  \/ Turns(r) \/ Gets(r) \/ Again(r)

ManagerNext ==
  \/ ShutdownBegins \/ Shutdown \/ AddInstance \/ RemoveOldest("scaler") \/ Scaler
  \/ UNCHANGED vars

\* removeInstance: the wait that succeeds saw no bucket.
LEMMA RemoveManages == ASSUME NEW m \in Managers, Remove(m) PROVE Manages
<1>1. CASE RemoveLoad(m) \/ RemoveTimeout(m)
  BY ZenonT(30), <1>1 DEF RemoveLoad, RemoveTimeout, store, Manages
<1>2. CASE RemoveNothing(m)
  BY ZenonT(30), <1>2 DEF RemoveNothing, store, Manages
<1>3. CASE RemoveMark(m)
  BY ZenonT(30), <1>3 DEF RemoveMark, Manages
<1>4. CASE RemoveDrained(m)
  BY ZenonT(30), <1>4 DEF RemoveDrained, Manages
<1>5. CASE RemoveStop(m)
  BY ZenonT(30), <1>5 DEF RemoveStop, Manages
<1>6. CASE RemoveSwap(m)
  <2>1. routing'.ver = routing.ver + 1
    BY ZenonT(30), <1>6 DEF RemoveSwap
  <2>. QED
    BY ZenonT(30), <1>6, <2>1 DEF RemoveSwap, store, Manages
<1>. QED
  BY ZenonT(30), <1>1, <1>2, <1>3, <1>4, <1>5, <1>6 DEF Remove

\* Shutdown and the scaler.
LEMMA ManagerEffect == ASSUME ManagerNext PROVE Manages
<1>1. CASE ShutdownBegins \/ ShutdownEnds \/ \E m \in Managers : RemoveOldest(m)
  BY ZenonT(30), <1>1 DEF ShutdownBegins, ShutdownEnds, RemoveOldest, store, Manages
<1>2. CASE AddInstance \/ AddLoad
  BY ZenonT(30), <1>2 DEF AddInstance, AddLoad, store, Manages
<1>3. CASE AddSwap
  <2>1. UNCHANGED routing \/ routing'.ver = routing.ver + 1
    BY SMTT(30), <1>3 DEF AddSwap
  <2>. QED
    BY ZenonT(30), <1>3, <2>1 DEF AddSwap, store, Manages
<1>4. CASE UNCHANGED vars
  BY ZenonT(30), <1>4 DEF vars, store, Manages
<1>5. "shutdown" \in Managers /\ "scaler" \in Managers
  BY ZenonT(30)
<1>. QED
  BY ZenonT(30), <1>1, <1>2, <1>3, <1>4, <1>5, RemoveManages DEF ManagerNext, Shutdown, Scaler

\* Watcher and assembler open no bucket.
LEMMA BucketsShrink ==
  ASSUME RouterInv, NEW i \in Ids, NEW k \in Keys, Expire(i, k) \/ Take(i, k)
  PROVE  Shrinks /\ UNCHANGED <<routing, InShutdown, drained, late, todo, rvars>>
<1>1. PICK b : SetBucket(i, k, b) /\ (b # NoBucket => bucket[i][k] # NoBucket)
  <2>1. CASE Expire(i, k)
    <3>1. bucket[i][k] # NoBucket
      BY SMTT(30), <2>1 DEF Expire, NoBucket
    <3>. QED
      BY ZenonT(30), <2>1, <3>1 DEF Expire
  <2>2. CASE Take(i, k)
    BY ZenonT(30), <2>2 DEF Take
  <2>. QED
    BY ZenonT(30), <2>1, <2>2
<1>2. bucket' = [bucket EXCEPT ![i] = [bucket[i] EXCEPT ![k] = b]]
  BY ZenonT(30), <1>1 DEF SetBucket
<1>3. bucket \in [Ids -> [Keys -> Buckets]]
  BY ZenonT(30) DEF RouterInv, RouterTypes
<1>4. ASSUME NEW j \in Ids, NEW l \in Keys, bucket'[j][l] # NoBucket PROVE bucket[j][l] # NoBucket
  <2>1. CASE j = i /\ l = k
    BY ZenonT(30), <1>1, <1>2, <1>3, <1>4, <2>1
  <2>2. CASE ~(j = i /\ l = k)
    BY ZenonT(30), <1>2, <1>3, <1>4, <2>2
  <2>. QED
    BY ZenonT(30), <2>1, <2>2
<1>. QED
  BY ZenonT(30), <1>1, <1>4 DEF Shrinks, SetBucket

\* push opens a bucket in the shard that was chosen, and is late when that one
\* has drained.
Opens(r) ==
  \A i \in Ids, k \in Keys : bucket'[i][k] # NoBucket =>
    \/ bucket[i][k] # NoBucket
    \/ i = rtarget[r] /\ k = rfrag[r][1] /\ (i \in drained => <<i, k>> \in late')

LEMMA PushOpens ==
  ASSUME RouterInv, NEW r \in Routers, Push(r)
  PROVE  late \subseteq late' /\ Opens(r)
<1>. DEFINE t == rtarget[r]
            q == rfrag[r][1]
<1>1. late \subseteq late'
  BY ZenonT(30) DEF Push
<1>2. CASE UNCHANGED bucket
  BY ZenonT(30), <1>1, <1>2 DEF Opens
<1>3. CASE ~bucket[t][q].filled
  <2>1. PICK b : bucket' = [bucket EXCEPT ![t] = [bucket[t] EXCEPT ![q] = b]]
    BY ZenonT(30), <1>3 DEF Push
  <2>2. t \in drained => <<t, q>> \in late'
    BY ZenonT(30), <1>3 DEF Push
  <2>3. bucket \in [Ids -> [Keys -> Buckets]]
    BY ZenonT(30) DEF RouterInv, RouterTypes
  <2>. HIDE DEF t, q
  <2>4. \A i \in Ids, k \in Keys : i # t \/ k # q => bucket'[i][k] = bucket[i][k]
    BY ZenonT(30), <2>1, <2>3
  <2>. QED
    BY ZenonT(30), <1>1, <2>2, <2>4 DEF t, q, Opens
<1>. QED
  BY ZenonT(30), <1>2, <1>3 DEF Push

\* A return without success, or with.
LEMMA ReturnMoves ==
  ASSUME RouterInv, NEW r \in Routers, Return(r)
  PROVE  Returns(r) /\ \A q \in Routers : q # r => Alike(q)
BY ZenonT(30) DEF Return, Goto, Returns, Alike, RouterInv, RouterTypes

\* An error ends the call.
LEMMA FailMoves ==
  ASSUME RouterInv, NEW r \in Routers, Fail(r)
  PROVE  Returns(r) /\ Calls(r) /\ UNCHANGED <<bucket, late, todo>>
BY ZenonT(30), ReturnMoves DEF Fail, store, Calls

\* continue of the attempt loop, or its last round.
LEMMA RetryMoves ==
  ASSUME RouterInv, NEW r \in Routers, rpc[r] \in {"remote", "get"}, Retry(r),
         rpc[r] = "get" => rtarget[r] \notin routing.instances
  PROVE  (Returns(r) \/ Again(r)) /\ Calls(r) /\ UNCHANGED <<bucket, late, todo>>
<1>1. CASE rtries[r] + 1 = RetryLimit
  BY ZenonT(30), <1>1, FailMoves DEF Retry
<1>2. CASE rtries[r] + 1 # RetryLimit
  <2>1. /\ rtries' = [rtries EXCEPT ![r] = rtries[r] + 1]
        /\ rremote' = [rremote EXCEPT ![r] = rremote[r] /\ rpc[r] # "remote"]
        /\ rids' = [rids EXCEPT ![r] = <<>>] /\ rtarget' = [rtarget EXCEPT ![r] = -1]
        /\ rpc' = [rpc EXCEPT ![r] = "list"]
        /\ UNCHANGED <<routing, InShutdown, bucket, drained, late, todo, rfrag, rver>>
    BY ZenonT(30), <1>2 DEF Retry, Goto, store
  <2>2. /\ DOMAIN rtries = Routers /\ DOMAIN rremote = Routers /\ DOMAIN rids = Routers
        /\ DOMAIN rtarget = Routers /\ DOMAIN rpc = Routers
    BY ZenonT(30) DEF RouterInv, RouterTypes
  <2>3. Calls(r)
    BY ZenonT(30), <2>1, <2>2 DEF Calls, Alike
  <2>4. Again(r)
    BY ZenonT(30), <2>1, <2>2 DEF Again
  <2>. QED
    BY ZenonT(30), <2>1, <2>3, <2>4
<1>. QED
  BY ZenonT(30), <1>1, <1>2

\* A shard is chosen: only the call of this router goes on.
LEMMA ChooseMoves ==
  ASSUME RouterInv, NEW r \in Routers, NEW i, NEW l, Choose(r, i, l)
  PROVE  /\ Goes(r, rpc[r], l) /\ rtarget'[r] = i /\ rids'[r] = rids[r]
         /\ Calls(r) /\ UNCHANGED <<bucket, late, todo>>
<1>1. DOMAIN rtarget = Routers /\ DOMAIN rpc = Routers
  BY ZenonT(30) DEF RouterInv, RouterTypes
<1>. QED
  BY ZenonT(30), <1>1 DEF Choose, Goto, store, Goes, Calls, Alike

\* Every step of RouteFragment is one of Moves, and only push writes to a shard.
LEMMA RouterMoves ==
  ASSUME RouterInv, NEW r \in Routers, Router(r)
  PROVE  /\ Moves(r) /\ Calls(r) /\ UNCHANGED todo /\ rpc[r] # "idle"
         /\ UNCHANGED <<bucket, late>> \/ Push(r)
         /\ Push(r) => rpc[r] = "push" /\ Returns(r)
<1>1. CASE SocketsFail(r) \/ SingleFails(r) \/ ListFails(r)
  BY ZenonT(30), <1>1, FailMoves DEF SocketsFail, SingleFails, ListFails, Moves, Push
<1>2. CASE \E i \in Ids : RouteSingle(r, i)
  <2>1. PICK i \in Ids : RouteSingle(r, i)
    BY ZenonT(30), <1>2
  <2>2. rpc[r] = "single" /\ i \in routing.instances /\ Choose(r, i, "get")
    BY ZenonT(30), <2>1 DEF RouteSingle, Choose, NonDraining
  <2>3. TakesAny(r)
    BY ZenonT(30), <2>2, ChooseMoves DEF TakesAny
  <2>. QED
    BY ZenonT(30), <2>2, <2>3, ChooseMoves DEF Moves, Push
<1>3. CASE List(r)
  <2>1. DOMAIN rids = Routers /\ DOMAIN rpc = Routers
    BY ZenonT(30) DEF RouterInv, RouterTypes
  <2>2. Lists(r) /\ Calls(r) /\ rpc[r] = "list" /\ UNCHANGED <<bucket, late, todo>>
    BY ZenonT(30), <1>3, <2>1 DEF List, Goto, store, Lists, Goes, Calls, Alike
  <2>. QED
    BY ZenonT(30), <2>2 DEF Moves, Push
<1>4. CASE Check(r)
  <2>1. PICK l : /\ rpc[r] = "check" /\ Choose(r, Primary(rfrag[r][1], rids[r]), l)
                 /\ l = IF IsShardShutdown(Primary(rfrag[r][1], rids[r])) THEN "exists" ELSE "get"
    BY ZenonT(30), <1>4 DEF Check
  <2>2. Checks(r)
    BY ZenonT(30), <2>1, ChooseMoves DEF Checks
  <2>. QED
    BY ZenonT(30), <2>1, <2>2, ChooseMoves DEF Moves, Push
<1>5. CASE Exists(r)
  <2>1. rpc[r] = "exists"
    BY ZenonT(30), <1>5 DEF Exists
  <2>2. CASE BucketExists(rtarget[r], rfrag[r][1]) /\ Choose(r, rtarget[r], "get")
    <3>1. Finds(r)
      <4>1. rtarget[r] \in routing.instances
        BY ZenonT(30), <2>2 DEF BucketExists
      <4>2. Goes(r, "exists", "get") /\ rtarget'[r] = rtarget[r]
        BY ZenonT(30), <2>1, <2>2, ChooseMoves
      <4>. QED
        BY ZenonT(30), <4>1, <4>2 DEF Finds
    <3>. QED
      BY ZenonT(30), <2>1, <2>2, <3>1, ChooseMoves DEF Moves, Push
  <2>3. CASE rremote[r] /\ Choose(r, -1, "remote")
    <3>1. Leaves(r)
      BY ZenonT(30), <2>1, <2>3, ChooseMoves DEF Leaves
    <3>. QED
      BY ZenonT(30), <2>1, <2>3, <3>1, ChooseMoves DEF Moves, Push
  <2>4. CASE Choose(r, Secondary(rfrag[r][1], rids[r]), "get")
    <3>1. Turns(r)
      BY ZenonT(30), <2>1, <2>4, ChooseMoves DEF Turns
    <3>. QED
      BY ZenonT(30), <2>1, <2>4, <3>1, ChooseMoves DEF Moves, Push
  <2>. QED
    BY ZenonT(30), <1>5, <2>2, <2>3, <2>4 DEF Exists
<1>6. CASE RemoteSent(r)
  BY ZenonT(30), <1>6, ReturnMoves DEF RemoteSent, store, Moves, Calls, Push
<1>7. CASE RemoteRefused(r) \/ Disappeared(r)
  <2>1. /\ rpc[r] \in {"remote", "get"} /\ (rpc[r] = "get" => rtarget[r] \notin routing.instances)
        /\ Retry(r) \/ Fail(r)
    BY ZenonT(30), <1>7 DEF RemoteRefused, Disappeared
  <2>. QED
    BY ZenonT(30), <2>1, RetryMoves, FailMoves DEF Moves, Push
<1>8. CASE GetShard(r)
  <2>1. rpc[r] = "get" /\ Choose(r, rtarget[r], "push")
    BY ZenonT(30), <1>8 DEF GetShard
  <2>2. Gets(r)
    BY ZenonT(30), <2>1, ChooseMoves DEF Gets
  <2>. QED
    BY ZenonT(30), <2>1, <2>2, ChooseMoves DEF Moves, Push
<1>9. CASE Push(r)
  BY ZenonT(30), <1>9, ReturnMoves DEF Push, Moves, Calls
<1>10. CASE \E remote \in BOOLEAN : GetSocketFileList(r, remote)
  <2>1. PICK remote \in BOOLEAN : GetSocketFileList(r, remote)
    BY ZenonT(30), <1>10
  <2>2. DOMAIN rremote = Routers /\ DOMAIN rpc = Routers
    BY ZenonT(30) DEF RouterInv, RouterTypes
  <2>3. Reads(r) /\ Calls(r) /\ rpc[r] = "sockets" /\ UNCHANGED <<bucket, late, todo>>
    BY ZenonT(30), <2>1, <2>2 DEF GetSocketFileList, Goto, store, Reads, Calls, Alike
  <2>. QED
    BY ZenonT(30), <2>3 DEF Moves, Push
<1>. QED
  BY ZenonT(30), <1>1, <1>2, <1>3, <1>4, <1>5, <1>6, <1>7, <1>8, <1>9, <1>10 DEF Router

\* A call begins.
LEMMA BeginMoves ==
  ASSUME RouterInv, NEW r \in Routers, NEW f \in Fragments, Begin(r, f)
  PROVE  /\ Calls(r) /\ UNCHANGED <<bucket, late>> /\ f \in todo /\ todo' = todo \ {f}
         /\ rpc[r] = "idle" /\ rfrag'[r] = f /\ rver'[r] = routing.ver /\ rtries'[r] = rtries[r]
         /\ f[1] \in Single => rpc'[r] = "single"
         /\ f[1] \notin Single => rpc'[r] = "sockets"
<1>1. DOMAIN rpc = Routers /\ DOMAIN rfrag = Routers /\ DOMAIN rver = Routers
  BY ZenonT(30) DEF RouterInv, RouterTypes
<1>2. /\ rfrag' = [rfrag EXCEPT ![r] = f] /\ rver' = [rver EXCEPT ![r] = routing.ver]
      /\ rpc' = [rpc EXCEPT ![r] = IF f[1] \in Single THEN "single" ELSE "sockets"]
      /\ UNCHANGED <<routing, InShutdown, drained, bucket, late, rids, rtarget, rtries, rremote>>
      /\ rpc[r] = "idle" /\ f \in todo /\ todo' = todo \ {f}
  BY ZenonT(30) DEF Begin, Goto, store
<1>3. Calls(r)
  BY ZenonT(30), <1>1, <1>2 DEF Calls, Alike
<1>. QED
  BY ZenonT(30), <1>1, <1>2, <1>3

----------------------------------------------------------------------------
(* Why a fragment is left behind, refused or split off.                    *)

\* A bucket of an instance whose wait succeeded was opened after that.
StrandInv ==
  \A i \in drained, k \in Keys : bucket[i][k] # NoBucket => <<i, k>> \in late

\* As long as the snapshot is the one the call began with, the list is that of
\* the snapshot, the shard that was chosen is in it, and only the one attempt at
\* another process has cost a round.
Steady(r) ==
  /\ rpc[r] \in {"check", "exists"} => rids[r] = routing.ids
  /\ rpc[r] = "get" => rtarget[r] \in routing.instances
  /\ rtries[r] = 0 \/ (rtries[r] = 1 /\ ~rremote[r])
Excused(r) ==
  /\ rpc[r] \in {"idle", "sockets"} => rtries[r] = 0
  /\ rpc[r] = "single" => rfrag[r][1] \in Single
  /\ rpc[r] = "remote" => rremote[r]
  /\ rpc[r] # "idle" => rver[r] <= routing.ver
  /\ rpc[r] # "idle" /\ rver[r] = routing.ver => Steady(r)
CauseInv == \A r \in Routers : Excused(r)

\* The one fragment of a single message is not taken yet, with one router, or in
\* one bucket.
Carries(r, k) == rpc[r] # "idle" /\ rfrag[r][1] = k
Waiting(k) == \E f \in todo : f[1] = k
Once(k) ==
  /\ \A r \in Routers : Carries(r, k) =>
       ~Waiting(k) /\ \A q \in Routers : Carries(q, k) => q = r
  /\ \A i \in Ids : bucket[i][k] # NoBucket =>
       /\ ~Waiting(k) /\ \A r \in Routers : ~Carries(r, k)
       /\ \A j \in Ids : bucket[j][k] # NoBucket => j = i
OnceInv == \A k \in Single : Once(k)

\* Where the fragments of other messages go while the first snapshot lasts: to
\* the primary, or to the secondary of one that is draining.
Placed(k, i) ==
  \/ i = Primary(k, routing.ids)
  \/ i = Secondary(k, routing.ids) /\ Primary(k, routing.ids) \in InShutdown
Aims(r) ==
  LET k == rfrag[r][1]
  IN  rpc[r] # "idle" /\ k \notin Single =>
        /\ rpc[r] = "exists" => rtarget[r] = Primary(k, routing.ids) /\ rtarget[r] \in InShutdown
        /\ rpc[r] \in {"get", "push"} => Placed(k, rtarget[r])
PlaceInv ==
  routing.ver = 0 =>
    /\ \A r \in Routers : Aims(r)
    /\ \A k \in Keys \ Single, i \in Ids : bucket[i][k] # NoBucket => Placed(k, i)

\* A bucket in a drained instance is opened by a late push only.
LEMMA StrandStep == ASSUME RouterInv, StrandInv, [Next]_vars PROVE StrandInv'
<1>1. CASE ManagerNext
  <2>1. Manages
    BY ZenonT(30), <1>1, ManagerEffect
  <2>. QED
    BY ZenonT(30), <2>1 DEF Manages, StrandInv
<1>2. ASSUME NEW r \in Routers, Router(r) PROVE StrandInv'
  <2>1. drained' = drained /\ drained \subseteq Ids
    BY ZenonT(30), <1>2, RouterMoves DEF Calls, RouterInv, RouterTypes
  <2>2. CASE UNCHANGED <<bucket, late>>
    BY ZenonT(30), <2>1, <2>2 DEF StrandInv
  <2>3. CASE Push(r)
    BY ZenonT(30), <2>1, <2>3, PushOpens DEF StrandInv, Opens
  <2>. QED
    BY ZenonT(30), <1>2, <2>2, <2>3, RouterMoves
<1>3. ASSUME NEW r \in Routers, NEW f \in Fragments, Begin(r, f)
      PROVE  StrandInv'
  BY ZenonT(30), <1>3, BeginMoves DEF Calls, StrandInv
<1>4. ASSUME NEW i \in Ids, NEW k \in Keys, Expire(i, k) \/ Take(i, k) PROVE StrandInv'
  <2>1. Shrinks /\ UNCHANGED <<drained, late>> /\ drained \subseteq Ids
    BY ZenonT(30), <1>4, BucketsShrink DEF RouterInv, RouterTypes
  <2>. QED
    BY ZenonT(30), <2>1 DEF Shrinks, StrandInv
<1>. QED
  BY ZenonT(30), <1>1, <1>2, <1>3, <1>4 DEF Next, ManagerNext

\* Both choices of routeSelect are in the list.
LEMMA SelectsMember ==
  ASSUME NEW s \in Seq(Ids), s # <<>>, NEW k \in Keys
  PROVE  Primary(k, s) \in ElementsOf(s) /\ Secondary(k, s) \in ElementsOf(s)
<1>1. Len(s) \in Nat \ {0} /\ DOMAIN s = 1 .. Len(s)
  OBVIOUS
<1>2. HashOf[k] \in Nat /\ HashOf[k] + 1 \in Nat
  OBVIOUS
<1>3. \A n \in Nat, d \in Nat \ {0} : (n % d) + 1 \in 1 .. d
  BY SMTT(30)
<1>4. (HashOf[k] % Len(s)) + 1 \in DOMAIN s /\ ((HashOf[k] + 1) % Len(s)) + 1 \in DOMAIN s
  BY ZenonT(30), <1>1, <1>2, <1>3
<1>. QED
  BY ZenonT(30), <1>4 DEF Primary, Secondary, ElementsOf

\* What routeSelect picks from the list is in the snapshot.
LEMMA SelectsInstance ==
  ASSUME ManagerInv, RouterInv, NEW r \in Routers, rpc[r] \in {"check", "exists"},
         rids[r] = routing.ids
  PROVE  /\ Primary(rfrag[r][1], rids[r]) \in routing.instances
         /\ Secondary(rfrag[r][1], rids[r]) \in routing.instances
<1>1. rids[r] \in Seq(Ids) /\ rids[r] # <<>> /\ rfrag[r][1] \in Keys
  BY ZenonT(30) DEF RouterInv, RouterTypes, RouterHolds, Fragments
<1>2. ElementsOf(rids[r]) = routing.instances
  BY ZenonT(30) DEF ManagerInv, SnapshotAgrees, Agrees
<1>. QED
  BY ZenonT(30), <1>1, <1>2, SelectsMember

\* Versions and rounds are numbers.
LEMMA Versions ==
  ASSUME ManagerInv, RouterInv
  PROVE  /\ routing.ver \in Nat
         /\ \A r \in Routers : rver[r] \in Nat /\ rtries[r] \in Nat
BY SMTT(30) DEF ManagerInv, ManagerTypes, Snapshots, RouterInv, RouterTypes

\* A router whose call is as it was still has its excuse.
LEMMA ExcuseStays ==
  ASSUME ManagerInv, RouterInv, NEW q \in Routers, Excused(q), Alike(q),
         UNCHANGED routing \/ routing'.ver = routing.ver + 1
  PROVE  Excused(q)'
<1>1. CASE UNCHANGED routing
  BY ZenonT(30), <1>1 DEF Excused, Steady, Alike
<1>2. CASE routing'.ver = routing.ver + 1
  <2>1. rver[q] <= routing.ver => rver[q] <= routing'.ver /\ rver[q] # routing'.ver
    BY SMTT(30), <1>2, Versions
  <2>. QED
    BY ZenonT(30), <2>1 DEF Excused, Alike
<1>. QED
  BY ZenonT(30), <1>1, <1>2

\* A step of the call itself keeps its excuse.
LEMMA MoveKeepsExcuse ==
  ASSUME ManagerInv, RouterInv, NEW r \in Routers, Excused(r), rpc[r] # "idle", Moves(r),
         UNCHANGED routing
  PROVE  Excused(r)'
<1>0. rver[r] <= routing.ver
  BY ZenonT(30) DEF Excused
<1>1. CASE Returns(r)
  BY ZenonT(30), <1>1 DEF Returns, Excused
<1>2. CASE TakesAny(r)
  BY ZenonT(30), <1>0, <1>2 DEF TakesAny, Goes, Excused, Steady
<1>3. CASE Lists(r)
  BY ZenonT(30), <1>0, <1>3 DEF Lists, Goes, Excused, Steady
<1>4. CASE Checks(r)
  BY ZenonT(30), <1>0, <1>4 DEF Checks, Goes, Excused, Steady, IsShardShutdown
<1>5. CASE Finds(r)
  BY ZenonT(30), <1>0, <1>5 DEF Finds, Goes, Excused, Steady
<1>6. CASE Leaves(r)
  BY ZenonT(30), <1>0, <1>6 DEF Leaves, Goes, Excused, Steady
<1>7. CASE Turns(r)
  <2>1. rver[r] = routing.ver => rtarget'[r] \in routing.instances
    BY ZenonT(30), <1>7, SelectsInstance DEF Turns, Goes, Excused, Steady
  <2>. QED
    BY ZenonT(30), <1>0, <1>7, <2>1 DEF Turns, Goes, Excused, Steady
<1>8. CASE Gets(r)
  BY ZenonT(30), <1>0, <1>8 DEF Gets, Goes, Excused, Steady
<1>9. CASE Again(r)
  <2>1. rver[r] = routing.ver => rpc[r] = "remote" /\ rtries[r] = 0
    BY ZenonT(30), <1>9 DEF Again, Excused, Steady
  <2>2. rtries[r] = 0 => rtries[r] + 1 = 1
    BY SMTT(30)
  <2>. QED
    BY ZenonT(30), <1>0, <1>9, <2>1, <2>2 DEF Again, Excused, Steady
<1>10. CASE Reads(r)
  BY ZenonT(30), <1>0, <1>10 DEF Reads, Excused, Steady
<1>. QED
  BY ZenonT(30), <1>1, <1>2, <1>3, <1>4, <1>5, <1>6, <1>7, <1>8, <1>9, <1>10 DEF Moves

\* So does every step of the others.
LEMMA CauseStep == ASSUME ManagerInv, RouterInv, CauseInv, [Next]_vars PROVE CauseInv'
<1>1. CASE ManagerNext
  <2>1. Manages
    BY ZenonT(30), <1>1, ManagerEffect
  <2>2. \A q \in Routers : Alike(q)
    BY ZenonT(30), <2>1 DEF Manages, Alike, rvars
  <2>. QED
    BY ZenonT(30), <2>1, <2>2, ExcuseStays DEF Manages, CauseInv
<1>2. ASSUME NEW r \in Routers, Router(r) PROVE CauseInv'
  <2>1. Moves(r) /\ Calls(r) /\ rpc[r] # "idle"
    BY ZenonT(30), <1>2, RouterMoves
  <2>2. Excused(r)'
    BY ZenonT(30), <2>1, MoveKeepsExcuse DEF Calls, CauseInv
  <2>. QED
    BY ZenonT(30), <2>1, <2>2, ExcuseStays DEF Calls, CauseInv
<1>3. ASSUME NEW r \in Routers, NEW f \in Fragments, Begin(r, f)
      PROVE  CauseInv'
  <2>1. /\ Calls(r) /\ rpc[r] = "idle" /\ rfrag'[r] = f /\ rver'[r] = routing.ver
        /\ rtries'[r] = rtries[r]
        /\ (rpc'[r] = "single" /\ f[1] \in Single) \/ rpc'[r] = "sockets"
    BY SMTT(30), <1>3, BeginMoves
  <2>2. routing.ver <= routing.ver
    BY SMTT(30), Versions
  <2>3. Excused(r)'
    BY ZenonT(30), <2>1, <2>2 DEF Calls, CauseInv, Excused, Steady
  <2>. QED
    BY ZenonT(30), <2>1, <2>3, ExcuseStays DEF Calls, CauseInv
<1>4. ASSUME NEW i \in Ids, NEW k \in Keys, Expire(i, k) \/ Take(i, k) PROVE CauseInv'
  <2>1. UNCHANGED <<routing, rvars>>
    BY ZenonT(30), <1>4, BucketsShrink
  <2>2. \A q \in Routers : Alike(q)
    BY ZenonT(30), <2>1 DEF Alike, rvars
  <2>. QED
    BY ZenonT(30), <2>1, <2>2, ExcuseStays DEF CauseInv
<1>. QED
  BY ZenonT(30), <1>1, <1>2, <1>3, <1>4 DEF Next, ManagerNext

\* RouteFragment fails in these places only.
LEMMA FailureStep ==
  ASSUME ManagerInv, RouterInv, CauseInv, [Next]_vars, NEW r \in Routers, GivesUp(r),
         ~RemoteSent(r)
  PROVE  NonDraining = {} \/ routing.ver > rver[r] \/ SocketsFail(r)
<1>1. /\ rpc[r] # rpc'[r] /\ rpc[r] # "idle" /\ rpc[r] # "push" /\ rpc'[r] = "idle"
      /\ ~Alike(r)
  BY ZenonT(30) DEF GivesUp, Alike
<1>2. ~ManagerNext
  BY ZenonT(30), <1>1, ManagerEffect DEF Manages, rvars
<1>3. \A i \in Ids, k \in Keys : ~Expire(i, k) /\ ~Take(i, k)
  BY ZenonT(30), <1>1, BucketsShrink DEF rvars
<1>4. \A q \in Routers, f \in Fragments : ~Begin(q, f)
  BY ZenonT(30), <1>1, BeginMoves DEF Calls
<1>5. Router(r)
  <2>1. \E q \in Routers : Router(q)
    BY ZenonT(30), <1>2, <1>3, <1>4 DEF Next, ManagerNext
  <2>. QED
    BY ZenonT(30), <1>1, <2>1, RouterMoves DEF Calls
<1>6. rver[r] = routing.ver \/ routing.ver > rver[r]
  <2>1. rver[r] <= routing.ver
    BY ZenonT(30), <1>1 DEF CauseInv, Excused
  <2>. QED
    BY SMTT(30), <2>1, Versions
<1>7. CASE SingleFails(r)
  BY ZenonT(30), <1>7 DEF SingleFails
<1>8. CASE ListFails(r)
  <2>1. ElementsOf(<<>>) = {}
    BY SMTT(30) DEF ElementsOf
  <2>2. routing.instances = {}
    BY ZenonT(30), <1>8, <2>1 DEF ListFails, ManagerInv, SnapshotAgrees, Agrees
  <2>. QED
    BY ZenonT(30), <2>2 DEF NonDraining
<1>9. CASE RemoteRefused(r)
  <2>1. rpc[r] = "remote" /\ Retry(r)
    BY ZenonT(30), <1>9 DEF RemoteRefused
  <2>2. rtries[r] + 1 = RetryLimit
    <3>1. DOMAIN rpc = Routers
      BY ZenonT(30) DEF RouterInv, RouterTypes
    <3>. QED
      BY ZenonT(30), <1>1, <2>1, <3>1 DEF Retry, Goto
  <2>3. rver[r] = routing.ver => rtries[r] = 0
    BY ZenonT(30), <2>1 DEF CauseInv, Excused, Steady
  <2>4. rtries[r] # 0
    BY SMTT(30), <2>2
  <2>. QED
    BY ZenonT(30), <1>6, <2>3, <2>4
<1>10. CASE Disappeared(r)
  BY ZenonT(30), <1>6, <1>10 DEF Disappeared, CauseInv, Excused, Steady
<1>11. ASSUME NEW i, NEW l, Choose(r, i, l), l # "idle" PROVE FALSE
  <2>1. Goes(r, rpc[r], l)
    BY ZenonT(30), <1>11, ChooseMoves
  <2>. QED
    BY ZenonT(30), <1>1, <1>11, <2>1 DEF Goes
<1>12. ~List(r)
  <2>1. DOMAIN rpc = Routers
    BY ZenonT(30) DEF RouterInv, RouterTypes
  <2>. QED
    BY ZenonT(30), <1>1, <2>1 DEF List, Goto
<1>13. ~(\E i \in Ids : RouteSingle(r, i)) /\ ~GetShard(r)
  BY ZenonT(30), <1>11 DEF RouteSingle, Choose, GetShard
<1>14. ~Check(r) /\ ~Exists(r)
  <2>1. ~Check(r)
    <3>1. \A b \in BOOLEAN : (IF b THEN "exists" ELSE "get") # "idle"
      BY ZenonT(30)
    <3>. QED
      BY ZenonT(30), <1>11, <3>1 DEF Check, IsShardShutdown
  <2>. QED
    BY ZenonT(30), <1>11, <2>1 DEF Exists
<1>15. \A remote \in BOOLEAN : ~GetSocketFileList(r, remote)
  <2>1. DOMAIN rpc = Routers
    BY ZenonT(30) DEF RouterInv, RouterTypes
  <2>. QED
    BY ZenonT(30), <1>1, <2>1 DEF GetSocketFileList, Goto
<1>. QED
  BY ZenonT(30), <1>1, <1>5, <1>7, <1>8, <1>9, <1>10, <1>12, <1>13, <1>14, <1>15 DEF Router, Push

----------------------------------------------------------------------------
(* Fragments of one message in two shards.                                 *)

\* No step that adds neither a call nor a bucket for the message disturbs Once.
LEMMA OnceStays ==
  ASSUME NEW k \in Single, Once(k), Waiting(k)' => Waiting(k),
         \A q \in Routers : Carries(q, k)' => Carries(q, k),
         \A i \in Ids : bucket'[i][k] # NoBucket => bucket[i][k] # NoBucket
  PROVE  Once(k)'
BY ZenonT(30) DEF Once

\* The one fragment of a single message is only handed on.
LEMMA OnceStep == ASSUME RouterInv, OnceInv, [Next]_vars PROVE OnceInv'
<1>0. Single \subseteq Keys
  BY ZenonT(30)
<1>. SUFFICES ASSUME NEW k \in Single PROVE Once(k)'
  BY ZenonT(30) DEF OnceInv
<1>1. CASE ManagerNext
  <2>1. UNCHANGED <<bucket, todo, rpc, rfrag>>
    BY ZenonT(30), <1>1, ManagerEffect DEF Manages, rvars
  <2>. QED
    BY ZenonT(30), <2>1, OnceStays DEF OnceInv, Waiting, Carries
<1>2. ASSUME NEW r \in Routers, Router(r) PROVE Once(k)'
  <2>1. Moves(r) /\ Calls(r) /\ UNCHANGED todo /\ rpc[r] # "idle"
    BY ZenonT(30), <1>2, RouterMoves
  <2>2. rpc'[r] = "idle" \/ rfrag'[r] = rfrag[r]
    BY ZenonT(30), <2>1 DEF Moves, Returns, Reads, TakesAny, Lists, Checks, Finds, Leaves, Turns, Gets,
       Again, Goes
  <2>3. \A q \in Routers : Carries(q, k)' => Carries(q, k)
    BY ZenonT(30), <2>1, <2>2 DEF Calls, Alike, Carries
  <2>4. Waiting(k)' <=> Waiting(k)
    BY ZenonT(30), <2>1 DEF Waiting
  <2>5. CASE UNCHANGED bucket
    BY ZenonT(30), <2>3, <2>4, <2>5, OnceStays DEF OnceInv
  <2>6. CASE Push(r)
    <3>1. rpc[r] = "push" /\ Returns(r)
      BY ZenonT(30), <1>2, <2>6, RouterMoves
    <3>2. CASE rfrag[r][1] # k
      <4>1. \A i \in Ids : bucket'[i][k] # NoBucket => bucket[i][k] # NoBucket
        <5>1. Opens(r) /\ k \in Keys
          BY ZenonT(30), <1>0, <2>6, PushOpens
        <5>. QED
          BY ZenonT(30), <3>2, <5>1 DEF Opens
      <4>. QED
        BY ZenonT(30), <2>3, <2>4, <4>1, OnceStays DEF OnceInv
    <3>3. CASE rfrag[r][1] = k
      <4>1. Carries(r, k) /\ ~Carries(r, k)'
        BY ZenonT(30), <2>1, <3>1, <3>3 DEF Carries, Returns
      <4>2. ~Waiting(k) /\ \A q \in Routers : Carries(q, k) => q = r
        BY ZenonT(30), <4>1 DEF OnceInv, Once
      <4>3. \A i \in Ids : bucket[i][k] = NoBucket
        BY ZenonT(30), <4>1 DEF OnceInv, Once
      <4>4. \A i \in Ids : bucket'[i][k] # NoBucket => i = rtarget[r]
        <5>1. Opens(r) /\ k \in Keys
          BY ZenonT(30), <1>0, <2>6, PushOpens
        <5>. QED
          BY ZenonT(30), <4>3, <5>1 DEF Opens
      <4>5. \A q \in Routers : ~Carries(q, k)'
        BY ZenonT(30), <2>3, <4>1, <4>2
      <4>. QED
        BY ZenonT(30), <2>4, <4>2, <4>4, <4>5 DEF Once
    <3>. QED
      BY ZenonT(30), <3>2, <3>3
  <2>. QED
    BY ZenonT(30), <1>2, <2>5, <2>6, RouterMoves
<1>3. ASSUME NEW r \in Routers, NEW f \in Fragments, Begin(r, f)
      PROVE  Once(k)'
  <2>1. Calls(r) /\ UNCHANGED bucket /\ f \in todo /\ todo' = todo \ {f} /\ rfrag'[r] = f
    BY SMTT(30), <1>3, BeginMoves
  <2>2. \A q \in Routers : q # r => (Carries(q, k)' <=> Carries(q, k))
    BY ZenonT(30), <2>1 DEF Calls, Alike, Carries
  <2>3. CASE f[1] # k
    <3>1. ~Carries(r, k)'
      BY ZenonT(30), <2>1, <2>3 DEF Carries
    <3>2. Waiting(k)' => Waiting(k)
      BY ZenonT(30), <2>1 DEF Waiting
    <3>. QED
      BY ZenonT(30), <2>1, <2>2, <3>1, <3>2, OnceStays DEF OnceInv
  <2>4. CASE f[1] = k
    <3>1. \A g \in Fragments : g[1] = k => g = <<k, 0>>
      BY SMTT(30) DEF Fragments, SeqsOf
    <3>2. todo \subseteq Fragments
      BY ZenonT(30) DEF RouterInv, RouterTypes
    <3>3. ~Waiting(k)'
      BY ZenonT(30), <2>1, <2>4, <3>1, <3>2 DEF Waiting
    <3>4. /\ \A q \in Routers : ~Carries(q, k)
          /\ \A i \in Ids : bucket[i][k] = NoBucket
      BY ZenonT(30), <2>1, <2>4 DEF OnceInv, Once, Waiting
    <3>. QED
      BY ZenonT(30), <2>1, <2>2, <3>3, <3>4 DEF Once
  <2>. QED
    BY ZenonT(30), <2>3, <2>4
<1>4. ASSUME NEW i \in Ids, NEW l \in Keys, Expire(i, l) \/ Take(i, l) PROVE Once(k)'
  <2>1. Shrinks /\ UNCHANGED <<todo, rpc, rfrag>>
    BY ZenonT(30), <1>4, BucketsShrink DEF rvars
  <2>2. \A j \in Ids : bucket'[j][k] # NoBucket => bucket[j][k] # NoBucket
    BY ZenonT(30), <1>0, <2>1 DEF Shrinks
  <2>. QED
    BY ZenonT(30), <2>1, <2>2, OnceStays DEF OnceInv, Waiting, Carries
<1>. QED
  BY ZenonT(30), <1>1, <1>2, <1>3, <1>4 DEF Next, ManagerNext

\* A mark of InShutdown is not taken back.
LEMMA PlacedStays ==
  ASSUME UNCHANGED routing, InShutdown \subseteq InShutdown', NEW k, NEW i, Placed(k, i)
  PROVE  Placed(k, i)'
BY ZenonT(30) DEF Placed, Primary, Secondary

\* A call that is not stepped keeps its aim.
LEMMA AimStays ==
  ASSUME NEW q \in Routers, Alike(q), UNCHANGED routing, InShutdown \subseteq InShutdown', Aims(q)
  PROVE  Aims(q)'
BY ZenonT(30), PlacedStays DEF Aims, Alike, Primary

\* Check, exists and the choice of the secondary aim as routeSelect says.
LEMMA MoveKeepsAim ==
  ASSUME ManagerInv, RouterInv, NEW r \in Routers, Excused(r), Aims(r), routing.ver = 0,
         rpc[r] # "idle", Moves(r), UNCHANGED <<routing, InShutdown>>
  PROVE  Aims(r)'
<1>. DEFINE k == rfrag[r][1]
<1>1. Steady(r)
  <2>1. rver[r] <= routing.ver
    BY ZenonT(30) DEF Excused
  <2>2. rver[r] = routing.ver
    BY SMTT(30), <2>1, Versions
  <2>. QED
    BY ZenonT(30), <2>2 DEF Excused
<1>2. CASE rpc'[r] \notin {"exists", "get", "push"}
  BY ZenonT(30), <1>2 DEF Aims
<1>3. CASE TakesAny(r)
  BY ZenonT(30), <1>3 DEF TakesAny, Goes, Excused, Aims
<1>4. CASE Checks(r)
  <2>1. rids[r] = routing.ids /\ rfrag'[r] = rfrag[r] /\ rpc[r] = "check"
    BY ZenonT(30), <1>1, <1>4 DEF Checks, Goes, Steady
  <2>2. rtarget'[r] = Primary(k, routing.ids) /\ rtarget'[r] \in routing.instances
    BY ZenonT(30), <1>4, <2>1, SelectsInstance DEF Checks
  <2>3. rpc'[r] = "exists" => rtarget'[r] \in InShutdown
    BY ZenonT(30), <1>4, <2>2 DEF Checks, Goes, IsShardShutdown
  <2>4. rpc'[r] # "push"
    BY ZenonT(30), <1>4 DEF Checks, Goes
  <2>. QED
    BY ZenonT(30), <2>1, <2>2, <2>3, <2>4 DEF Aims, Placed, Primary
<1>5. CASE Finds(r)
  BY ZenonT(30), <1>5 DEF Finds, Goes, Aims, Placed, Primary
<1>6. CASE Turns(r)
  <2>1. rids[r] = routing.ids /\ rfrag'[r] = rfrag[r] /\ rpc[r] = "exists" /\ rpc'[r] = "get"
    BY ZenonT(30), <1>1, <1>6 DEF Turns, Goes, Steady
  <2>2. rtarget'[r] = Secondary(k, routing.ids)
    BY ZenonT(30), <1>6, <2>1 DEF Turns
  <2>3. k \notin Single => Primary(k, routing.ids) \in InShutdown
    BY ZenonT(30), <2>1 DEF Aims
  <2>. QED
    BY ZenonT(30), <2>1, <2>2, <2>3 DEF Aims, Placed, Primary, Secondary
<1>7. CASE Gets(r)
  <2>1. rfrag'[r] = rfrag[r] /\ rpc[r] = "get" /\ rpc'[r] = "push" /\ rtarget'[r] = rtarget[r]
    BY ZenonT(30), <1>7 DEF Gets, Goes
  <2>2. k \notin Single => Placed(k, rtarget[r])
    BY ZenonT(30), <2>1 DEF Aims
  <2>3. k \notin Single => Placed(k, rtarget[r])'
    BY ZenonT(30), <2>1, <2>2 DEF Placed, Primary, Secondary
  <2>. QED
    BY ZenonT(30), <2>1, <2>3 DEF Aims
<1>8. CASE Returns(r) \/ Reads(r) \/ Lists(r) \/ Leaves(r) \/ Again(r)
  BY ZenonT(30), <1>2, <1>8 DEF Returns, Reads, Lists, Leaves, Again, Goes
<1>. QED
  BY ZenonT(30), <1>3, <1>4, <1>5, <1>6, <1>7, <1>8 DEF Moves

\* Buckets are opened only where a call aimed.
LEMMA PlaceStep ==
  ASSUME ManagerInv, RouterInv, CauseInv, PlaceInv, [Next]_vars
  PROVE  PlaceInv'
<1>. DEFINE Fits == \A k \in Keys \ Single, i \in Ids : bucket[i][k] # NoBucket => Placed(k, i)
<1>. SUFFICES ASSUME routing'.ver = 0
              PROVE  (\A r \in Routers : Aims(r)') /\ Fits'
  BY ZenonT(30) DEF PlaceInv
<1>0. UNCHANGED routing => (\A r \in Routers : Aims(r)) /\ Fits
  BY ZenonT(30) DEF PlaceInv
<1>1. CASE ManagerNext
  <2>1. Manages
    BY ZenonT(30), <1>1, ManagerEffect
  <2>2. UNCHANGED routing /\ InShutdown \subseteq InShutdown' /\ UNCHANGED bucket
    <3>1. routing'.ver # routing.ver + 1
      BY SMTT(30), Versions
    <3>. QED
      BY ZenonT(30), <2>1, <3>1 DEF Manages
  <2>3. \A q \in Routers : Alike(q)
    BY ZenonT(30), <2>1 DEF Manages, Alike, rvars
  <2>4. \A q \in Routers : Aims(q)'
    BY ZenonT(30), <1>0, <2>2, <2>3, AimStays
  <2>5. Fits'
    BY ZenonT(30), <1>0, <2>2, PlacedStays
  <2>. QED
    BY ZenonT(30), <2>4, <2>5
<1>2. ASSUME NEW r \in Routers, Router(r) PROVE (\A q \in Routers : Aims(q)') /\ Fits'
  <2>1. Moves(r) /\ Calls(r) /\ rpc[r] # "idle"
    BY ZenonT(30), <1>2, RouterMoves
  <2>2. UNCHANGED <<routing, InShutdown>> /\ routing.ver = 0 /\ InShutdown \subseteq InShutdown'
    BY ZenonT(30), <2>1 DEF Calls
  <2>3. Aims(r)'
    BY ZenonT(30), <1>0, <2>1, <2>2, MoveKeepsAim DEF CauseInv
  <2>4. \A q \in Routers : Aims(q)'
    BY ZenonT(30), <1>0, <2>1, <2>2, <2>3, AimStays DEF Calls
  <2>5. CASE UNCHANGED bucket
    <3>1. Fits'
      BY ZenonT(30), <1>0, <2>2, <2>5, PlacedStays
    <3>. QED
      BY ZenonT(30), <2>4, <3>1
  <2>6. CASE Push(r)
    <3>1. rpc[r] = "push"
      BY ZenonT(30), <2>6 DEF Push
    <3>2. rfrag[r][1] \notin Single => Placed(rfrag[r][1], rtarget[r])
      BY ZenonT(30), <1>0, <2>1, <2>2, <3>1 DEF Aims
    <3>3. \A k \in Keys \ Single, i \in Ids : bucket'[i][k] # NoBucket => Placed(k, i)
      <4>1. Opens(r) /\ Fits
        BY ZenonT(30), <1>0, <2>2, <2>6, PushOpens
      <4>2. ASSUME NEW k \in Keys \ Single, NEW i \in Ids, bucket'[i][k] # NoBucket
            PROVE  Placed(k, i)
        <5>1. CASE bucket[i][k] # NoBucket
          BY ZenonT(30), <4>1, <5>1
        <5>2. CASE i = rtarget[r] /\ k = rfrag[r][1]
          BY ZenonT(30), <3>2, <5>2
        <5>. QED
          BY ZenonT(30), <4>1, <4>2, <5>1, <5>2 DEF Opens
      <4>. QED
        BY ZenonT(30), <4>2
    <3>4. Fits'
      BY ZenonT(30), <2>2, <3>3, PlacedStays
    <3>. QED
      BY ZenonT(30), <2>4, <3>4
  <2>. QED
    BY ZenonT(30), <1>2, <2>5, <2>6, RouterMoves
<1>3. ASSUME NEW r \in Routers, NEW f \in Fragments, Begin(r, f)
      PROVE  (\A q \in Routers : Aims(q)') /\ Fits'
  <2>1. /\ Calls(r) /\ UNCHANGED bucket /\ rpc'[r] \in {"single", "sockets"}
        /\ UNCHANGED <<routing, InShutdown>> /\ InShutdown \subseteq InShutdown'
    BY SMTT(30), <1>3, BeginMoves DEF Calls
  <2>2. Aims(r)'
    BY ZenonT(30), <2>1 DEF Aims
  <2>3. \A q \in Routers : Aims(q)'
    BY ZenonT(30), <1>0, <2>1, <2>2, AimStays DEF Calls
  <2>4. Fits'
    BY ZenonT(30), <1>0, <2>1, PlacedStays
  <2>. QED
    BY ZenonT(30), <2>3, <2>4
<1>4. ASSUME NEW j \in Ids, NEW l \in Keys, Expire(j, l) \/ Take(j, l)
      PROVE  (\A q \in Routers : Aims(q)') /\ Fits'
  <2>1. /\ Shrinks /\ UNCHANGED <<routing, InShutdown, rvars>>
        /\ InShutdown \subseteq InShutdown'
    BY ZenonT(30), <1>4, BucketsShrink
  <2>2. \A q \in Routers : Alike(q)
    BY ZenonT(30), <2>1 DEF Alike, rvars
  <2>3. \A q \in Routers : Aims(q)'
    BY ZenonT(30), <1>0, <2>1, <2>2, AimStays
  <2>4. Fits'
    BY ZenonT(30), <1>0, <2>1, PlacedStays DEF Shrinks
  <2>. QED
    BY ZenonT(30), <2>3, <2>4
<1>. QED
  BY ZenonT(30), <1>1, <1>2, <1>3, <1>4 DEF Next, ManagerNext

----------------------------------------------------------------------------
(* Results.                                                                *)

\* At the start there is no call and no bucket.
LEMMA CausesInit == Init => StrandInv /\ CauseInv /\ OnceInv /\ PlaceInv
<1>. SUFFICES ASSUME Init PROVE StrandInv /\ CauseInv /\ OnceInv /\ PlaceInv
  BY ZenonT(30)
<1>1. /\ \A r \in Routers : rpc[r] = "idle" /\ rtries[r] = 0
      /\ \A i \in Ids, k \in Keys : bucket[i][k] = NoBucket
      /\ drained = {} /\ Single \subseteq Keys
  BY ZenonT(30) DEF Init
<1>. QED
  BY ZenonT(30), <1>1 DEF StrandInv, CauseInv, Excused, OnceInv, Once, Carries, PlaceInv, Aims

\* A bucket that is left behind in a stopped instance is there because the wait
\* of removeInstance timed out or because push opened it afterwards.
THEOREM StrandedIsExplained == Spec => []StrandedHasCause
<1>1. StrandInv => StrandedHasCause
  BY ZenonT(30) DEF StrandInv, StrandedHasCause
<1>2. RouterInv /\ StrandInv /\ [Next]_vars => StrandInv'
  BY ZenonT(30), StrandStep
<1>. QED
  BY <1>1, <1>2, CausesInit, RouterInvariant, PTL DEF Spec

\* As long as the call's snapshot lasts, RouteFragment has a shard to push to:
\* the one refusal of another process leaves it rounds enough.
LEMMA CauseInvariant == Spec => []CauseInv
<1>1. ManagerInv /\ RouterInv /\ CauseInv /\ [Next]_vars => CauseInv'
  BY ZenonT(30), CauseStep
<1>. QED
  BY <1>1, CausesInit, ManagerInvariant, RouterInvariant, PTL DEF Spec

\* RouteFragment gives up only when every instance is draining or gone, when the
\* snapshot was replaced since the call began, or when the directory of FIPR's
\* sockets cannot be read (shard/routing.go:60-67).
THEOREM FailureIsExplained == Spec => FailureHasCause
<1>1. ManagerInv /\ RouterInv /\ CauseInv /\ [Next]_vars =>
        [\A r \in Routers :
           GivesUp(r) /\ ~RemoteSent(r) =>
             NonDraining = {} \/ routing.ver > rver[r] \/ SocketsFail(r)]_vars
  BY ZenonT(30), FailureStep
<1>. QED
  BY <1>1, CauseInvariant, ManagerInvariant, RouterInvariant, PTL DEF Spec, FailureHasCause

\* Fragments of one message are in two shards only if one of these is draining
\* or the snapshot was replaced: routeSelect is deterministic for the rest.
THEOREM SplitIsExplained == Spec => []SplitHasCause
<1>1. RouterInv /\ OnceInv /\ [Next]_vars => OnceInv'
  BY ZenonT(30), OnceStep
<1>2. ManagerInv /\ RouterInv /\ CauseInv /\ PlaceInv /\ [Next]_vars => PlaceInv'
  BY ZenonT(30), PlaceStep
<1>3. ASSUME ManagerInv, RouterInv, OnceInv, PlaceInv PROVE SplitHasCause
  <2>1. routing.ver = 0 \/ routing.ver > 0
    BY SMTT(30), <1>3, Versions
  <2>2. ASSUME NEW k \in Keys, NEW i \in Ids, NEW j \in Ids, i # j, bucket[i][k] # NoBucket,
               bucket[j][k] # NoBucket, routing.ver = 0
        PROVE  i \in InShutdown \/ j \in InShutdown
    <3>1. k \notin Single
      BY ZenonT(30), <1>3, <2>2 DEF OnceInv, Once
    <3>2. Placed(k, i) /\ Placed(k, j)
      BY ZenonT(30), <1>3, <2>2, <3>1 DEF PlaceInv
    <3>. QED
      BY SMTT(30), <2>2, <3>2 DEF Placed
  <2>. QED
    BY ZenonT(30), <2>1, <2>2 DEF SplitHasCause
<1>. QED
  BY <1>1, <1>2, <1>3, CausesInit, CauseInvariant, ManagerInvariant, RouterInvariant, PTL DEF Spec

=============================================================================
