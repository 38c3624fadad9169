-------------------------------- MODULE Ring --------------------------------
(***************************************************************************)
(* One queue instance of src/internal/queue/mpmc/entry.go: the lock-free   *)
(* ring between every two stages of the sender and of the receiver, with   *)
(* the producers that call Push and the consumers that call Pop.           *)
(*                                                                         *)
(* A step is one atomic operation of the code: a load, a store, a          *)
(* compare-and-swap, a channel operation, or the plain access to           *)
(* cell.data, which no atomic operation protects.                          *)
(*                                                                         *)
(* The container's read and write pointers are one instance here: a resize,*)
(* which makes them two, is left out.  Positions are uint64 and do not wrap*)
(* in the life of a process.  pos & mask is pos % Cap because newQueueInst *)
(* accepts powers of two only.  Of the metrics Depth is kept, the one that *)
(* a shutdown waits on.                                                    *)
(***************************************************************************)
EXTENDS Integers, Sequences, FiniteSets

CONSTANTS Producers,   \* goroutines that call Push
          Consumers,   \* goroutines that call Pop
          Stopped,     \* the consumers whose context may be cancelled
          Values,      \* what is pushed
          Feed,        \* the values that each producer pushes
          NoValue,     \* content of a cell never written
          Cap,         \* capacity of the ring
          MaxItems     \* bound: no Push begins when this many succeeded

ASSUME RingAssumption ==
  /\ IsFiniteSet(Producers) /\ IsFiniteSet(Consumers)
  /\ Stopped \subseteq Consumers
  /\ Feed \in [Producers -> SUBSET Values] /\ NoValue \notin Values
  /\ Cap \in Nat /\ Cap >= 2
  /\ MaxItems \in Nat

VARIABLES
  head, tail,         \* next position to pop, next position to push
  seq, data,          \* the cells
  Depth,              \* metric: values in the queue
  notEmpty,           \* is there a token in the channel notEmpty?
  items,              \* history: the values in the order of their positions
  ppc, ppos, pval,    \* producers: control, pos, value
  cpc, cpos, cout,    \* consumers: control, pos, out
  cancelled           \* the consumers whose context is done

ring  == <<head, tail, seq, data, Depth, notEmpty, items>>
pvars == <<ppc, ppos, pval>>
cvars == <<cpc, cpos, cout, cancelled>>
vars  == <<ring, pvars, cvars>>

Slots   == 0 .. Cap - 1
Slot(p) == p % Cap

Init ==
  /\ head = 0 /\ tail = 0
  /\ seq = [i \in Slots |-> i]
  /\ data = [i \in Slots |-> NoValue]
  /\ Depth = 0 /\ notEmpty = FALSE /\ items = <<>>
  /\ ppc = [p \in Producers |-> "idle"]
  /\ ppos = [p \in Producers |-> 0]
  /\ pval = [p \in Producers |-> NoValue]
  /\ cpc = [c \in Consumers |-> "idle"]
  /\ cpos = [c \in Consumers |-> 0]
  /\ cout = [c \in Consumers |-> NoValue]
  /\ cancelled = {}

----------------------------------------------------------------------------
(* Push.  pos is local to a round and value to a call: they are gone when  *)
(* the next round begins and when the call returns.                        *)

PStep(p, from, to) ==
  ppc[p] = from /\ ppc' = [ppc EXCEPT ![p] = to] /\ UNCHANGED cvars

PushBegin(p, v) ==
  /\ PStep(p, "idle", "load") /\ tail < MaxItems
  /\ pval' = [pval EXCEPT ![p] = v]
  /\ UNCHANGED <<ring, ppos>>

PushLoad(p) ==
  /\ PStep(p, "load", "seq")
  /\ ppos' = [ppos EXCEPT ![p] = tail]
  /\ UNCHANGED <<ring, pval>>

\* Having read s in the cell of pos, Push claims the position, reports a
\* full queue, or starts over.
PushVerdict(s, pos) ==
  IF s = pos THEN "cas" ELSE IF s < pos THEN "idle" ELSE "load"

PushSeq(p) ==
  /\ PStep(p, "seq", PushVerdict(seq[Slot(ppos[p])], ppos[p]))
  /\ ppos' = [ppos EXCEPT ![p] = IF ppc'[p] = "cas" THEN ppos[p] ELSE 0]
  /\ pval' = [pval EXCEPT ![p] = IF ppc'[p] = "idle" THEN NoValue ELSE pval[p]]
  /\ UNCHANGED ring

PushClaim(p) ==
  /\ PStep(p, "cas", "data") /\ tail = ppos[p]
  /\ tail' = ppos[p] + 1
  /\ items' = Append(items, pval[p])
  /\ UNCHANGED <<head, seq, data, Depth, notEmpty, ppos, pval>>

PushCASFails(p) ==
  /\ PStep(p, "cas", "load") /\ tail # ppos[p]
  /\ ppos' = [ppos EXCEPT ![p] = 0]
  /\ UNCHANGED <<ring, pval>>

PushData(p) ==
  /\ PStep(p, "data", "publish")
  /\ data' = [data EXCEPT ![Slot(ppos[p])] = pval[p]]
  /\ UNCHANGED <<head, tail, seq, Depth, notEmpty, items, ppos, pval>>

PushPublish(p) ==
  /\ PStep(p, "publish", "depth")
  /\ seq' = [seq EXCEPT ![Slot(ppos[p])] = ppos[p] + 1]
  /\ UNCHANGED <<head, tail, data, Depth, notEmpty, items, ppos, pval>>

PushDepth(p) ==
  /\ PStep(p, "depth", "notify")
  /\ Depth' = Depth + 1
  /\ UNCHANGED <<head, tail, seq, data, notEmpty, items, ppos, pval>>

\* A faulty variant: wake a consumer only when the queue was empty.
PushNotifyFirst(p) ==
  /\ PStep(p, "notify", "idle")
  /\ notEmpty' = (notEmpty \/ Depth = 1)
  /\ ppos' = [ppos EXCEPT ![p] = 0]
  /\ pval' = [pval EXCEPT ![p] = NoValue]
  /\ UNCHANGED <<head, tail, seq, data, Depth, items>>

PushNotify(p) ==
  /\ PStep(p, "notify", "idle")
  /\ notEmpty' = TRUE
  /\ ppos' = [ppos EXCEPT ![p] = 0]
  /\ pval' = [pval EXCEPT ![p] = NoValue]
  /\ UNCHANGED <<head, tail, seq, data, Depth, items>>

Push(p) == \/ PushLoad(p) \/ PushSeq(p) \/ PushClaim(p) \/ PushCASFails(p)
           \/ PushData(p) \/ PushPublish(p) \/ PushDepth(p) \/ PushNotify(p)

----------------------------------------------------------------------------
(* Pop, with pos local to a round.                                         *)

CStep(c, from, to) ==
  /\ cpc[c] = from /\ cpc' = [cpc EXCEPT ![c] = to]
  /\ UNCHANGED <<pvars, cancelled>>

\* A worker whose context is done leaves its loop, any other calls Pop.
PopBegin(c) ==
  /\ CStep(c, "idle", "load") /\ c \notin cancelled
  /\ UNCHANGED <<ring, cpos, cout>>

PopLoad(c) ==
  /\ CStep(c, "load", "seq")
  /\ cpos' = [cpos EXCEPT ![c] = head]
  /\ UNCHANGED <<ring, cout>>

\* A faulty verdict: take a cell that is claimed but not yet written.
PopVerdictEarly(s, pos) == IF s \in {pos, pos + 1} THEN "cas" ELSE "wait"

PopVerdict(s, pos) ==
  IF s = pos + 1 THEN "cas" ELSE IF s < pos + 1 THEN "wait" ELSE "load"

PopSeq(c) ==
  /\ CStep(c, "seq", PopVerdict(seq[Slot(cpos[c])], cpos[c]))
  /\ cpos' = [cpos EXCEPT ![c] = IF cpc'[c] = "cas" THEN cpos[c] ELSE 0]
  /\ UNCHANGED <<ring, cout>>

PopClaim(c) ==
  /\ CStep(c, "cas", "read") /\ head = cpos[c]
  /\ head' = cpos[c] + 1
  /\ UNCHANGED <<tail, seq, data, Depth, notEmpty, items, cpos, cout>>

\* atomics.Subtract, one step for its tries: it gives up only after four
\* foreign writes in a row, and leaves the metric too high, as a consumer
\* that subtracts before the producer has added does anyway.
Subtract(metric, n) == IF n >= metric THEN 0 ELSE metric - n

\* A faulty variant: count the attempt that failed.
PopCASFailsCounted(c) ==
  /\ CStep(c, "cas", "load") /\ head # cpos[c]
  /\ Depth' = Subtract(Depth, 1)
  /\ cpos' = [cpos EXCEPT ![c] = 0]
  /\ UNCHANGED <<head, tail, seq, data, notEmpty, items, cout>>

PopCASFails(c) ==
  /\ CStep(c, "cas", "load") /\ head # cpos[c]
  /\ cpos' = [cpos EXCEPT ![c] = 0]
  /\ UNCHANGED <<ring, cout>>

PopRead(c) ==
  /\ CStep(c, "read", "release")
  /\ cout' = [cout EXCEPT ![c] = data[Slot(cpos[c])]]
  /\ UNCHANGED <<ring, cpos>>

PopRelease(c) ==
  /\ CStep(c, "release", "depth")
  /\ seq' = [seq EXCEPT ![Slot(cpos[c])] = cpos[c] + Cap]
  /\ UNCHANGED <<head, tail, data, Depth, notEmpty, items, cpos, cout>>

PopDepth(c) ==
  /\ CStep(c, "depth", "idle")
  /\ Depth' = Subtract(Depth, 1)
  /\ cpos' = [cpos EXCEPT ![c] = 0]
  /\ UNCHANGED <<head, tail, seq, data, notEmpty, items, cout>>

\* The select of an empty queue: the token of a producer, or the context.
PopWake(c) ==
  /\ CStep(c, "wait", "load") /\ notEmpty
  /\ notEmpty' = FALSE
  /\ UNCHANGED <<head, tail, seq, data, Depth, items, cpos, cout>>

PopDone(c) ==
  /\ CStep(c, "wait", "idle") /\ c \in cancelled
  /\ UNCHANGED <<ring, cpos, cout>>

Pop(c) == \/ PopBegin(c) \/ PopLoad(c) \/ PopSeq(c) \/ PopClaim(c)
          \/ PopCASFails(c) \/ PopRead(c) \/ PopRelease(c) \/ PopDepth(c)
          \/ PopWake(c) \/ PopDone(c)

Cancel(c) ==
  /\ c \notin cancelled
  /\ cancelled' = cancelled \union {c}
  /\ UNCHANGED <<ring, pvars, cpc, cpos, cout>>

Next ==
  \/ \E p \in Producers : Push(p) \/ \E v \in Feed[p] : PushBegin(p, v)
  \/ \E c \in Consumers : Pop(c)
  \/ \E c \in Stopped : Cancel(c)

Spec == Init /\ [][Next]_vars

\* The Go scheduler runs every goroutine that can go on.
Fairness == /\ \A p \in Producers : WF_vars(Push(p))
            /\ \A c \in Consumers : WF_vars(Pop(c))

FairSpec == Spec /\ Fairness

----------------------------------------------------------------------------
(* Properties.                                                             *)

\* A producer owns the cell of its position from its claim until it has
\* stored the sequence number, a consumer from its claim until it released.
Writing(p) == ppc[p] \in {"data", "publish"}
Reading(c) == cpc[c] \in {"read", "release"}

\* A claimed position is not in the metric Depth yet.
Uncounted == {p \in Producers : ppc[p] \in {"data", "publish", "depth"}}

\* Type invariant: Depth, in particular, never wraps below zero.
TypeOK ==
  /\ head \in Nat /\ tail \in Nat
  /\ seq \in [Slots -> Nat]
  /\ data \in [Slots -> Values \union {NoValue}]
  /\ Depth \in Nat /\ notEmpty \in BOOLEAN
  /\ ppc \in [Producers -> {"idle", "load", "seq", "cas", "data", "publish",
                            "depth", "notify"}]
  /\ ppos \in [Producers -> Nat]
  /\ pval \in [Producers -> Values \union {NoValue}]
  /\ cpc \in [Consumers -> {"idle", "load", "seq", "cas", "wait", "read",
                            "release", "depth"}]
  /\ cpos \in [Consumers -> Nat]
  /\ cout \in [Consumers -> Values \union {NoValue}]
  /\ cancelled \subseteq Consumers
  /\ items \in Seq(Values)

\* The plain accesses to cell.data never race: no two goroutines own the
\* same cell between their claim and their store of its sequence number.
CellHasOneOwner ==
  /\ \A p, q \in Producers :
       Writing(p) /\ Writing(q) /\ p # q => Slot(ppos[p]) # Slot(ppos[q])
  /\ \A c, d \in Consumers :
       Reading(c) /\ Reading(d) /\ c # d => Slot(cpos[c]) # Slot(cpos[d])
  /\ \A p \in Producers, c \in Consumers :
       Writing(p) /\ Reading(c) => Slot(ppos[p]) # Slot(cpos[c])

\* Shutdown waits for Depth to reach zero before it stops the consumers:
\* then nothing is left in the queue but what a Push has yet to count.
DepthCovers == Depth + Cardinality(Uncounted) >= tail - head

\* Push and Pop implement a bounded first-in first-out queue: each takes
\* effect when its compare-and-swap succeeds, and the value a consumer reads
\* afterwards from the cell is the one that was the oldest at that moment.
F == INSTANCE Fifo WITH
       queue <- SubSeq(items, head + 1, tail),
       got <- [c \in Consumers |->
                 IF cpc[c] = "read" THEN data[Slot(cpos[c])] ELSE cout[c]]
ImplementsFifo == F!FSpec

\* Push gives up only when the ring is full or a consumer is between its
\* claim of a cell and the release of it.
GivesUp(p) == ppc[p] = "seq" /\ ppc'[p] = "idle"
FullHasCause ==
  [][\A p \in Producers :
       GivesUp(p) => tail - head = Cap \/ \E c \in Consumers : Reading(c)]_vars

\* No wake-up is lost: when every consumer that is not stopped waits without
\* a token and no Push is under way, the queue is empty.
WaitingMeansEmpty ==
  /\ \A p \in Producers : ppc[p] = "idle"
  /\ \A c \in Consumers : cpc[c] = "wait" \/ (cpc[c] = "idle" /\ c \in cancelled)
  /\ \E c \in Consumers : cpc[c] = "wait" /\ c \notin cancelled
  /\ ~notEmpty
  => head = tail

\* While no consumer is stopped every value pushed is popped.
EveryItemIsPopped ==
  \A n \in 1 .. MaxItems : tail >= n ~> head >= n \/ cancelled # {}
=============================================================================
