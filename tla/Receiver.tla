------------------------------ MODULE Receiver ------------------------------
(***************************************************************************)
(* The receiving daemon (src/internal/receiver): listeners, the processor  *)
(* queue, processors, a shard with its assembler, the output worker of     *)
(* module Output, and Shutdown, which stops them in that order while the   *)
(* scaler may still add and remove instances.                              *)
(*                                                                         *)
(* A message is one packet.  A whole message fills its bucket at once; the *)
(* bucket of a partial one waits for fragments that never come.  Module    *)
(* Shard is about buckets, module Routing about several shards, module Ring*)
(* about the queues: here a shard is a set and a queue has a length.       *)
(***************************************************************************)
EXTENDS Output

CONSTANTS
  Partial,        \* messages of which only one fragment arrives
  Ids,            \* identities of instances, in the order of their creation
  MinCount, MaxCount,  \* configured number of instances of each stage
  QueueCapacity,  \* of the processor queue
  StreakCount,    \* readings of zero that end a wait; 3
  MaxAdded        \* bound on the instances the scaler adds

Stages == {"listener", "processor"}
Actors == {"shutdown", "scaler"}

ASSUME ReceiverAssumption ==
  /\ Partial \subseteq Messages /\ Ids = 1..Cardinality(Ids)
  /\ QueueCapacity \in Nat \ {0} /\ StreakCount \in Nat \ {0} /\ MaxAdded \in Nat
  /\ \A s \in Stages : MinCount[s] \in Ids /\ MaxCount[s] \in Nat /\ MinCount[s] < MaxCount[s]

VARIABLES
  at,       \* where each message is, until it is pushed to the output's inbox
  list,     \* Instances of both managers
  inst,     \* what each instance does
  done,     \* instances whose context is cancelled
  socket,   \* the socket of each listener
  shard,    \* "up", "draining", "cancelled", "returned", "gone"
  pc,       \* what Shutdown and the scaler do next
  cur,      \* the instance they are adding or removing
  streak,   \* consecutive readings of zero
  down,     \* the context of the daemon is cancelled
  causes    \* history: what happened that a stop in order excludes

flow == <<at, list, inst, done, socket, shard>>
control == <<pc, cur, streak, down, causes>>
vars == <<flow, control, output>>

In(place) == {m \in Messages : at[m] = place}
Held(place, i) == In(<<place, i>>)
Move(m, place) == at' = [at EXCEPT ![m] = place]
\* Places without an owner are numbered 0.
Net == <<"network", 0>>
Queue == <<"queue", 0>>
Bucket == <<"bucket", 0>>         \* a bucket that is not filled
Key == <<"key", 0>>               \* a filled bucket whose key is in the key queue
Unannounced == <<"unannounced", 0>>  \* a filled bucket whose key is not
Assembler == <<"assembler", 0>>
Out == <<"output", 0>>
Counted == <<"counted", 0>>       \* dropped, and counted in a metric
Closed == <<"closed", 0>>         \* lost with the buffer of a closed socket

Nobody == <<"listener", 0>>

CtxDone(s, i) == i \in done[s] \/ down

Init ==
  /\ OutputInit
  /\ at = [m \in Messages |-> Net]
  /\ list = [s \in Stages |-> [i \in 1..MinCount[s] |-> i]]
  /\ inst = [s \in Stages |-> [i \in Ids |-> IF i <= MinCount[s] THEN "idle" ELSE "unused"]]
  /\ done = [s \in Stages |-> {}]
  /\ socket = [i \in Ids |-> IF i <= MinCount["listener"] THEN "open" ELSE "none"]
  /\ shard = "up"
  /\ \E v \in {"idle", "off"} : pc = [a \in Actors |-> IF a = "shutdown" THEN "up" ELSE v]
  /\ cur = [a \in Actors |-> Nobody] /\ streak = [a \in Actors |-> 0]
  /\ down = FALSE /\ causes = {}

Become(s, i, v) == inst' = [inst EXCEPT ![s][i] = v]
\* The top of a worker's loop, after one round.
NextRound(s, i) == Become(s, i, IF CtxDone(s, i) THEN "returned" ELSE "idle")

----------------------------------------------------------------------------
(* Listeners.                                                              *)

\* The kernel queues a packet on any socket of the port that is not closed; it
\* may do so for a draining one where eBPF is not available.
Deliver(m, i) ==
  /\ at[m] = Net /\ socket[i] \in {"open", "draining", "closing"}
  /\ Move(m, <<"socket", i>>)
  /\ UNCHANGED <<list, inst, done, socket, shard, control, output>>

\* A read that was blocked returns though the context is done by now.  A Close
\* that waited for it then closes the socket.
Read(m, i) ==
  /\ inst["listener"][i] = "idle" /\ at[m] = <<"socket", i>> /\ socket[i] # "closed"
  /\ Become("listener", i, "busy")
  /\ socket' = [socket EXCEPT ![i] = IF @ = "closing" THEN "closed" ELSE @]
  /\ at' = [p \in Messages |->
              IF p = m THEN <<"listener", i>>
              ELSE IF at[p] = <<"socket", i>> /\ socket[i] = "closing" THEN Closed
              ELSE at[p]]
  /\ UNCHANGED <<list, done, shard, control, output>>

\* An invalid or replayed packet, or one that finds the queue full in four
\* attempts, is counted; any other is pushed.
Listen(m, i) ==
  /\ at[m] = <<"listener", i>>
  /\ \/ Move(m, Counted)
     \/ Cardinality(In(Queue)) < QueueCapacity /\ Move(m, Queue)
  /\ NextRound("listener", i)
  /\ UNCHANGED <<list, done, socket, shard, control, output>>

\* The read fails because the socket is closed.  Without a cancelled context the
\* loop goes round for ever.
ReadFails(i) ==
  /\ inst["listener"][i] = "idle" /\ socket[i] = "closed" /\ CtxDone("listener", i)
  /\ Become("listener", i, "returned")
  /\ UNCHANGED <<at, list, done, socket, shard, control, output>>

----------------------------------------------------------------------------
(* Processors.                                                             *)

Pop(m, i) ==
  /\ inst["processor"][i] = "idle" /\ at[m] = Queue
  /\ Become("processor", i, "busy") /\ Move(m, <<"processor", i>>)
  /\ UNCHANGED <<list, done, socket, shard, control, output>>

PopStops(i) ==
  /\ inst["processor"][i] = "idle" /\ CtxDone("processor", i)
  /\ Become("processor", i, "returned")
  /\ UNCHANGED <<at, list, done, socket, shard, control, output>>

\* RouteFragment: a whole message needs a shard that is not draining, the
\* fragment of another one any shard.
Routable(m) == IF m \in Partial THEN shard # "gone" ELSE shard = "up"

\* push: with the context cancelled the key of a filled bucket may not be sent.
Process(m, i) ==
  /\ at[m] = <<"processor", i>>
  /\ \/ Move(m, Counted) /\ UNCHANGED causes
     \/ Routable(m) /\ m \in Partial /\ Move(m, Bucket) /\ UNCHANGED causes
     \/ Routable(m) /\ m \notin Partial /\ Move(m, Key) /\ UNCHANGED causes
     \/ /\ Routable(m) /\ m \notin Partial /\ CtxDone("processor", i)
        /\ Move(m, Unannounced) /\ causes' = causes \union {"abort"}
  /\ NextRound("processor", i)
  /\ UNCHANGED <<list, done, socket, shard, pc, cur, streak, down, output>>

----------------------------------------------------------------------------
(* The shard and its assembler.                                            *)

ShardRuns == shard \in {"up", "draining", "cancelled"}

\* The watcher: the deadline of a bucket has passed.
Expire(m) ==
  /\ ShardRuns /\ at[m] = Bucket
  /\ \/ Move(m, Key)
     \/ shard = "cancelled" /\ Move(m, Unannounced)
  /\ UNCHANGED <<list, inst, done, socket, shard, control, output>>

PopKey(m) ==
  /\ ShardRuns /\ at[m] = Key /\ In(Assembler) = {}
  /\ Move(m, Assembler)
  /\ UNCHANGED <<list, inst, done, socket, shard, control, output>>

\* Ten attempts to push to the inbox of the output.
Assemble(m) ==
  /\ at[m] = Assembler
  /\ \/ Push(m) /\ Move(m, Out)
     \/ Len(inbox) = Capacity /\ Move(m, Counted) /\ UNCHANGED output
  /\ UNCHANGED <<list, inst, done, socket, shard, control>>

\* Watcher and assembler see the cancelled context and return.
ShardReturns ==
  /\ shard = "cancelled" /\ In(Assembler) = {}
  /\ shard' = "returned"
  /\ UNCHANGED <<at, list, inst, done, socket, control, output>>

----------------------------------------------------------------------------
(* RemoveLastInstance, called by Shutdown and by the scaler.               *)

Goto(a, v) == pc' = [pc EXCEPT ![a] = v]
Back(a) == IF a = "shutdown" THEN cur[a][1] ELSE "idle"

\* The context exists once the worker is started.
Cancel(s, i) ==
  done' = IF inst[s][i] = "published" THEN done ELSE [done EXCEPT ![s] = @ \union {i}]

\* A listener's socket is marked draining first; a processor is cancelled.
RemoveLast(a, s) ==
  LET i == Last(list[s])
  IN  /\ pc[a] = s /\ list[s] # <<>>
      /\ list' = [list EXCEPT ![s] = Front(@)]
      /\ cur' = [cur EXCEPT ![a] = <<s, i>>]
      /\ IF s = "listener"
           THEN /\ socket' = [socket EXCEPT ![i] = "draining"]
                /\ Goto(a, "drain") /\ UNCHANGED done
           ELSE /\ Cancel(s, i)
                /\ Goto(a, "wait") /\ UNCHANGED socket
      /\ causes' = causes \union (IF a = "scaler" THEN {"scaled"} ELSE {})
                          \union (IF inst[s][i] = "published" THEN {"unstarted"} ELSE {})
      /\ UNCHANGED <<at, inst, shard, streak, down, output>>

\* What a wait reads, and what follows it.
Reading(a) ==
  CASE pc[a] = "drain"        -> Cardinality(Held("socket", cur[a][2]))
    [] pc[a] = "queueDrain"   -> Cardinality(In(Queue))
    [] pc[a] = "shardDrain"   -> Cardinality(In(Bucket) \union In(Key) \union In(Unannounced))
    [] pc[a] = "keyDrain"     -> Cardinality(In(Key))
    [] pc[a] = "outputDrain"  -> Len(inbox)
After(v) ==
  CASE v = "drain"       -> "close"
    [] v = "queueDrain"  -> "processor"
    [] v = "shardDrain"  -> "keyDrain"
    [] v = "keyDrain"    -> "shardCancel"
    [] v = "outputDrain" -> "outputCancel"
Drains == {"drain", "queueDrain", "shardDrain", "keyDrain", "outputDrain"}

\* A faulty variant: a reading counts whatever it is.
PollThrice(a) ==
  /\ pc[a] \in Drains
  /\ IF streak[a] + 1 < StreakCount
       THEN streak' = [streak EXCEPT ![a] = @ + 1] /\ UNCHANGED pc
       ELSE streak' = [streak EXCEPT ![a] = 0] /\ Goto(a, After(pc[a]))
  /\ UNCHANGED <<flow, cur, down, causes, output>>

\* WaitUntilZero and WaitUntilEmptySocket: StreakCount readings of zero in a row.
Poll(a) ==
  /\ pc[a] \in Drains
  /\ IF Reading(a) = 0 /\ streak[a] + 1 < StreakCount
       THEN streak' = [streak EXCEPT ![a] = @ + 1] /\ UNCHANGED pc
       ELSE /\ streak' = [streak EXCEPT ![a] = 0]
            /\ IF Reading(a) = 0 THEN Goto(a, After(pc[a])) ELSE UNCHANGED pc
  /\ UNCHANGED <<flow, cur, down, causes, output>>

\* They give up after a time.
PollTimeout(a) ==
  /\ pc[a] \in Drains
  /\ streak' = [streak EXCEPT ![a] = 0] /\ Goto(a, After(pc[a]))
  /\ causes' = IF pc[a] = "drain" THEN causes ELSE causes \union {"timeout"}
  /\ UNCHANGED <<flow, cur, down, output>>

\* The listener is cancelled and its socket closed.
Close(a) ==
  LET i == cur[a][2]
  IN  /\ pc[a] = "close"
      /\ Cancel("listener", i)
      /\ socket' = [socket EXCEPT ![i] = "closed"]
      /\ at' = [m \in Messages |-> IF at[m] = <<"socket", i>> THEN Closed ELSE at[m]]
      /\ Goto(a, "wait")
      /\ UNCHANGED <<list, inst, shard, cur, streak, down, causes, output>>

\* Close does not come back within two seconds, because a read is blocked; the
\* instance is left behind without waiting for it.
CloseHangs(a) ==
  LET i == cur[a][2]
  IN  /\ pc[a] = "close" /\ inst["listener"][i] = "idle"
      /\ Cancel("listener", i)
      /\ socket' = [socket EXCEPT ![i] = "closing"]
      /\ Goto(a, Back(a)) /\ cur' = [cur EXCEPT ![a] = Nobody]
      /\ causes' = causes \union {"hang"}
      /\ UNCHANGED <<at, list, inst, shard, streak, down, output>>

\* A faulty variant: the worker is not waited for.
NoWait(a) ==
  /\ pc[a] = "wait"
  /\ Goto(a, Back(a)) /\ cur' = [cur EXCEPT ![a] = Nobody]
  /\ UNCHANGED <<flow, streak, down, causes, output>>

\* wg.Wait: there is nothing to wait for before the worker is started.
Wait(a) ==
  /\ pc[a] = "wait" /\ inst[cur[a][1]][cur[a][2]] \in {"returned", "published"}
  /\ Goto(a, Back(a)) /\ cur' = [cur EXCEPT ![a] = Nobody]
  /\ UNCHANGED <<flow, streak, down, causes, output>>

----------------------------------------------------------------------------
(* The scaler.                                                             *)

Unused(s) == {i \in Ids : inst[s][i] = "unused"}
Added == Cardinality({<<s, i>> \in Stages \X Ids : i > MinCount[s] /\ i \notin Unused(s)})

\* The counts are read; what the trend asks for is done later.  Without any
\* listener there is no trend.
ScalerReads(s, v) ==
  /\ pc["scaler"] = "idle" /\ ~down
  /\ Len(list[s]) \notin {MinCount[s], MaxCount[s]}
  /\ s = "listener" => list[s] # <<>>
  /\ v \in {"add", s} /\ v = "add" => Added < MaxAdded
  /\ Goto("scaler", v) /\ cur' = [cur EXCEPT !["scaler"] = <<s, 0>>]
  /\ UNCHANGED <<flow, streak, down, causes, output>>

\* RemoveLastInstance of an empty list.
NothingToRemove ==
  /\ pc["scaler"] \in Stages /\ list[pc["scaler"]] = <<>>
  /\ Goto("scaler", "idle") /\ cur' = [cur EXCEPT !["scaler"] = Nobody]
  /\ UNCHANGED <<flow, streak, down, causes, output>>

\* AddInstance publishes the instance, then creates its context and starts it.
AddPublish ==
  LET s == cur["scaler"][1]
      i == CHOOSE j \in Unused(s) : \A k \in Unused(s) : j <= k
  IN  /\ pc["scaler"] = "add"
      /\ list' = [list EXCEPT ![s] = Append(@, i)]
      /\ Become(s, i, "published")
      /\ socket' = IF s = "listener" THEN [socket EXCEPT ![i] = "open"] ELSE socket
      /\ Goto("scaler", "start") /\ cur' = [cur EXCEPT !["scaler"] = <<s, i>>]
      /\ causes' = causes \union {"scaled"}
      /\ UNCHANGED <<at, done, shard, streak, down, output>>

AddStart ==
  /\ pc["scaler"] = "start"
  /\ Become(cur["scaler"][1], cur["scaler"][2], "idle")
  /\ Goto("scaler", "idle") /\ cur' = [cur EXCEPT !["scaler"] = Nobody]
  /\ UNCHANGED <<at, list, done, socket, shard, streak, down, causes, output>>

----------------------------------------------------------------------------
(* Shutdown.                                                               *)

ShutdownStep(from, to) == pc["shutdown"] = from /\ Goto("shutdown", to)

Begin ==
  /\ ShutdownStep("up", "listener")
  /\ UNCHANGED <<flow, cur, streak, down, causes, output>>

StageStopped(s) ==
  /\ list[s] = <<>>
  /\ ShutdownStep(s, IF s = "listener" THEN "queueDrain" ELSE "shard")
  /\ UNCHANGED <<flow, cur, streak, down, causes, output>>

\* removeInstance of the assembler.
ShardShutdown ==
  /\ ShutdownStep("shard", "shardDrain") /\ shard' = "draining"
  /\ UNCHANGED <<at, list, inst, done, socket, cur, streak, down, causes, output>>

ShardCancel ==
  /\ ShutdownStep("shardCancel", "shardWait") /\ shard' = "cancelled"
  /\ UNCHANGED <<at, list, inst, done, socket, cur, streak, down, causes, output>>

ShardGone ==
  /\ shard = "returned" /\ ShutdownStep("shardWait", "outputDrain") /\ shard' = "gone"
  /\ UNCHANGED <<at, list, inst, done, socket, cur, streak, down, causes, output>>

OutputCancel ==
  /\ ShutdownStep("outputCancel", "outputWait") /\ RemoveWorkers
  /\ UNCHANGED <<flow, cur, streak, down, causes>>

\* daemon.cancel, after the output worker has returned.
End ==
  /\ worker = "returned" /\ ShutdownStep("outputWait", "end") /\ down' = TRUE
  /\ UNCHANGED <<flow, cur, streak, causes, output>>

----------------------------------------------------------------------------
Listening == \E m \in Messages, i \in Ids : Deliver(m, i) \/ Read(m, i) \/ Listen(m, i)
Processing == \E m \in Messages, i \in Ids : Pop(m, i) \/ Process(m, i)
Returning == \E i \in Ids : ReadFails(i) \/ PopStops(i)
Assembling == ShardReturns \/ \E m \in Messages : Expire(m) \/ PopKey(m) \/ Assemble(m)
Writing == WorkerNext /\ UNCHANGED <<flow, control>>
Removing ==
  \E a \in Actors : \/ \E s \in Stages : RemoveLast(a, s)
                    \/ Poll(a) \/ PollTimeout(a) \/ Close(a) \/ CloseHangs(a) \/ Wait(a)
Scaling == \/ \E s \in Stages : \E v \in {"add", s} : ScalerReads(s, v)
           \/ NothingToRemove \/ AddPublish \/ AddStart
Stopping == \/ Begin \/ \E s \in Stages : StageStopped(s)
            \/ ShardShutdown \/ ShardCancel \/ ShardGone \/ OutputCancel \/ End

\* The process ends with Shutdown.
Ended == pc["shutdown"] = "end"
Next ==
  \/ /\ ~Ended
     /\ \/ Listening \/ Processing \/ Returning \/ Assembling \/ Writing
        \/ Removing \/ Scaling \/ Stopping
  \/ Ended /\ UNCHANGED vars

Spec == Init /\ [][Next]_vars

----------------------------------------------------------------------------
(* Properties.                                                             *)

\* Type invariant: every instance, socket and message is in a state the code knows;
\* nothing is on its way through two stages at once.
TypeOK ==
  /\ list \in [Stages -> Seq(Ids)]
  /\ inst \in [Stages -> [Ids -> {"unused", "published", "idle", "busy", "returned"}]]
  /\ done \in [Stages -> SUBSET Ids]
  /\ socket \in [Ids -> {"none", "open", "draining", "closing", "closed"}]
  /\ shard \in {"up", "draining", "cancelled", "returned", "gone"}
  /\ streak \in [Actors -> 0..StreakCount - 1]
  /\ \A i \in Ids : (inst["listener"][i] = "busy") = (Cardinality(Held("listener", i)) = 1)
  /\ Cardinality(In(Queue)) <= QueueCapacity /\ Len(inbox) <= Capacity
  /\ \A m \in Messages : m \in Entered => at[m] = Out

Past(v) ==
  LET order == <<"up", "listener", "queueDrain", "processor", "shard", "shardDrain", "keyDrain",
                 "shardCancel", "shardWait", "outputDrain", "outputCancel", "outputWait", "end">>
      now == IF pc["shutdown"] \in {"drain", "close", "wait"} THEN cur["shutdown"][1]
             ELSE pc["shutdown"]
      pos(u) == CHOOSE k \in DOMAIN order : order[k] = u
  IN  pos(now) > pos(v)

\* Shutdown empties the stages in order: behind a stage it has stopped nothing moves
\* and nothing is left, unless a wait gave up, a Close hung, a processor was cut short
\* while it announced a bucket, or the scaler changed the instances meanwhile.
StagesStopInOrder ==
  causes = {} =>
    /\ Past("listener") => \A i \in Ids : Held("listener", i) = {}
    /\ Past("queueDrain") => In(Queue) = {}
    /\ Past("processor") => \A i \in Ids : Held("processor", i) = {}
    /\ Past("shardCancel") => In(Bucket) \union In(Key) \union In(Unannounced) = {}
    /\ Past("shardWait") => In(Assembler) = {}
    /\ Past("outputDrain") => inbox = <<>>

Written(m) == m \in others \/ m \in ToSet(file)

\* A message that was read from a socket and is neither written nor counted as
\* dropped when the daemon has stopped was left behind by a wait that gave up, a
\* Close that hung, a processor cut short or an instance the scaler added or removed;
\* or the last flush of the file failed; or it was in the hands of the goroutine that
\* pops, whose channel nobody empties.
LossHasCause ==
  Ended => \A m \in Messages :
    \/ at[m] \in {Net, Counted, Closed} \/ \E i \in Ids : at[m] = <<"socket", i>>
    \/ Written(m) \/ m \in dropped
    \/ at[m] \in {Queue, Bucket, Key, Unannounced} /\ causes # {}
    \/ /\ \E i \in Ids : at[m] \in {<<"listener", i>>, <<"processor", i>>}
       /\ causes \intersect {"scaled", "hang"} # {}
    \/ m \in ToSet(inbox) /\ "timeout" \in causes
    \/ m \in ToSet(batch) /\ failed
    \/ m \in ToSet(popper \o popCh)

\* Once the output worker has returned, and no output ever failed, every message it
\* took is in the file: nothing stays behind in the batch (worker.go:55-61).
BatchReachesFile ==
  worker = "returned" /\ ~failed /\ "file" \in Outputs =>
    others \union dropped \union ToSet(batch) \subseteq ToSet(file)

\* No line is in the file twice, or both in the file and the batch, unless writing a
\* line failed: then the whole batch is written again (write.go:77-91).
LinesOnce == failed \/ IsInjective(batch \o file)

\* No worker is lost sight of: one that runs, or is about to, is on the list of its
\* manager, where RemoveLastInstance finds it, or with the actor that adds or removes
\* it, whatever Shutdown and the scaler do to the list at the same time.  There are two
\* exceptions.  A listener whose Close hung runs on, but has been told to stop.  An
\* instance that was taken off the list between its publication and its start
\* (processor/runtime.go:25-32) had no context to cancel: it runs on and nobody stops it.
WorkersAccounted ==
  \A s \in Stages, i \in Ids :
    inst[s][i] \in {"published", "idle", "busy"} =>
      \/ i \in ToSet(list[s])
      \/ \E a \in Actors : cur[a] = <<s, i>>
      \/ s = "listener" /\ "hang" \in causes /\ CtxDone(s, i)
      \/ i > MinCount[s] /\ "unstarted" \in causes
=============================================================================
