-------------------------------- MODULE Fipr --------------------------------
(***************************************************************************)
(* One session of Fragment Inter-Process Routing (src/pkg/fipr): a client, *)
(* src/internal/receiver/shard/fiprsend, hands one fragment to a server,   *)
(* src/internal/receiver/shard/fiprrecv, over a Unix socket.               *)
(*                                                                         *)
(* Both run a fixed script of sends and awaits.  A send ends when its      *)
(* acknowledgement comes, an await sends one.  Both sides count the frames *)
(* of both in one sequence number.  The socket is reliable and in order;   *)
(* a side may time out, crash, or find that the other closed it.           *)
(*                                                                         *)
(* A session is far too short for the sequence number to reach its maximum.*)
(* consecResends is left out: the await that returns a Resend resets it, so*)
(* the limit resend puts on it is never reached.                           *)
(***************************************************************************)
EXTENDS Integers, Sequences, FiniteSets

CONSTANT MaxConsecutiveResends    \* 3

ASSUME FiprAssumption == MaxConsecutiveResends \in Nat \ {0}

Sides == {"client", "server"}
Peer(x) == IF x = "client" THEN "server" ELSE "client"

Send(op)  == [kind |-> "send", op |-> op]
Await(op) == [kind |-> "await", op |-> op]
\* RouteFragment of fiprsend and handleConnection of fiprrecv.
ClientScript == <<Send("start"), Send("obo"), Send("shardCheck"), Await("shardStatus"),
                  Send("msgCheck"), Await("msgStatus"), Send("frgRoute"),
                  Await("accepted")>>
ServerScript == <<Await("start"), Await("obo"), Await("shardCheck"), Send("shardStatus"),
                  Await("msgCheck"), Send("msgStatus"), Await("frgRoute"),
                  [kind |-> "route", op |-> "none"], Send("accepted")>>
Script == [client |-> ClientScript, server |-> ServerScript]
Ops == {"start", "obo", "ack", "resend", "accepted", "rejected", "shardCheck",
        "shardStatus", "msgCheck", "msgStatus", "frgRoute"}
requiresAck(op) == op \notin {"ack", "resend", "accepted", "rejected"}

VARIABLES
  running,   \* the server has a routing view; without one it is shut down
  oboFull,   \* the original sender the client names is not empty
  bucket,    \* the message has a bucket in a shard of the server
  routed,    \* the server has routed the fragment to a shard
  pc,        \* position of each side in its script
  mode,      \* "step", or "ack" while a frame waits for its acknowledgement
  state,     \* of the session: "init", "started", "closed"
  seq,
  sentFrames,
  wants,     \* the sequence number whose acknowledgement is awaited
  tries,     \* rounds of the loop of await
  ackTries,  \* rounds of the loop of awaitAck
  wire,      \* frames on their way to each side
  result,    \* how a side ended; "none" before, and its socket is open
  faults     \* history: time-outs and crashes

vars == <<running, oboFull, bucket, routed, pc, mode, state, seq, sentFrames,
          wants, tries, ackTries, wire, result, faults>>

Both(v) == [x \in Sides |-> v]

Init ==
  /\ running \in BOOLEAN /\ oboFull \in BOOLEAN /\ bucket \in BOOLEAN
  /\ routed = FALSE /\ faults = {}
  /\ pc = Both(1) /\ mode = Both("step") /\ state = Both("init") /\ seq = Both(0)
  /\ sentFrames = Both({}) /\ wants = Both(0) /\ tries = Both(0) /\ ackTries = Both(0)
  /\ wire = Both(<<>>) /\ result = Both("none")

Step(x) == Script[x][pc[x]]
Open(x) == result[x] = "none"
Reading(x) == /\ Open(x) /\ tries[x] < MaxConsecutiveResends
              /\ mode[x] = "ack" \/ Step(x).kind = "await"
Expected(x) == IF mode[x] = "ack" THEN {"ack", "resend"} ELSE {Step(x).op}

----------------------------------------------------------------------------
(* Frames.                                                                 *)

\* What the server answers, and whether a payload has the length its opcode
\* asks for.
Payload(x, op) ==
  CASE op = "shardStatus" -> IF running THEN "draining" ELSE "shutdown"
    [] op = "msgStatus"   -> IF bucket THEN "existing" ELSE "new"
    [] OTHER              -> "none"
Frame(x, n, op, arg) ==
  [sequence |-> n, op |-> op, full |-> op = "obo" => oboFull, arg |-> arg]

\* validateFrame: what cannot be made good by sending it again.
Invalid(x, f) ==
  \/ state[x] = "closed"
  \/ f.op = "start" /\ (state[x] # "init" \/ f.sequence # 0)
  \/ f.op = "rejected"

\* decodeFrame and await refuse a frame and close the session.
Refuses(x, f) ==
  \/ f.sequence # seq[x] \/ Invalid(x, f)
  \/ f.full /\ f.op \notin Expected(x)

\* What a write puts on the wire: nothing when the other end is closed.
Written(x, w, f) == IF Open(Peer(x)) THEN [w EXCEPT ![Peer(x)] = Append(@, f)] ELSE w

\* A side returns, and its deferred call closes the connection.
End(x, r) == result' = [result EXCEPT ![x] = r]

Advance(x) ==
  /\ pc' = [pc EXCEPT ![x] = @ + 1]
  /\ mode' = [mode EXCEPT ![x] = "step"]
  /\ tries' = [tries EXCEPT ![x] = 0]
  /\ ackTries' = [ackTries EXCEPT ![x] = 0]

inputs == <<running, oboFull>>
server == <<bucket, routed>>

----------------------------------------------------------------------------
(* send.                                                                   *)

SendFrame(x, op) ==
  LET f == Frame(x, seq[x], op, Payload(x, op))
  IN  /\ Open(x) /\ mode[x] = "step" /\ Step(x).kind = "send"
      /\ wire' = Written(x, wire, f)
      /\ seq' = [seq EXCEPT ![x] = @ + 1]
      /\ sentFrames' = [sentFrames EXCEPT ![x] = @ \union {f}]
      /\ wants' = [wants EXCEPT ![x] = seq[x]]

\* The error of writing is lost when an acknowledgement is awaited.
SendOp(x) ==
  /\ requiresAck(Step(x).op) /\ SendFrame(x, Step(x).op)
  /\ mode' = [mode EXCEPT ![x] = "ack"]
  /\ UNCHANGED <<inputs, server, pc, state, tries, ackTries, result, faults>>

\* A faulty variant: the test of success is negated.
VerdictNegated == IF routed THEN "rejected" ELSE "accepted"

Verdict == IF routed THEN "accepted" ELSE "rejected"

\* SendAccept, SendReject: no acknowledgement; the session is closed.
SendVerdict(x, op) ==
  /\ ~requiresAck(Step(x).op) /\ SendFrame(x, op)
  /\ op = Verdict
  /\ state' = [state EXCEPT ![x] = "closed"]
  /\ End(x, IF Open(Peer(x)) THEN "ok" ELSE "error")
  /\ UNCHANGED <<inputs, server, pc, mode, tries, ackTries, faults>>

----------------------------------------------------------------------------
(* await, awaitAck and resend.                                             *)

Rest(x) == [wire EXCEPT ![x] = Tail(@)]

RecvRefused(x) ==
  /\ Reading(x) /\ wire[x] # <<>> /\ Refuses(x, Head(wire[x]))
  /\ state' = [state EXCEPT ![x] = "closed"]
  /\ wire' = Rest(x)
  /\ End(x, "error")
  /\ UNCHANGED <<inputs, server, pc, mode, seq, sentFrames, wants, tries,
                 ackTries, faults>>

\* A payload of the wrong length: Resend, at most three times ...
RecvMalformed(x) ==
  LET f == Head(wire[x])
      r == Frame(x, seq[x] + 1, "resend", f.sequence)
  IN  /\ Reading(x) /\ wire[x] # <<>> /\ ~Refuses(x, f) /\ ~f.full
      /\ wire' = Written(x, Rest(x), r)
      /\ seq' = [seq EXCEPT ![x] = @ + 2]
      /\ sentFrames' = [sentFrames EXCEPT ![x] = {g \in @ : g.op # "resend"} \union {r}]
      /\ tries' = [tries EXCEPT ![x] = @ + 1]
      /\ End(x, IF Open(Peer(x)) THEN "none" ELSE "error")
      /\ UNCHANGED <<inputs, server, pc, mode, state, wants, ackTries, faults>>

\* ... then await gives up.
GiveUp(x) ==
  /\ Open(x) /\ tries[x] = MaxConsecutiveResends
  /\ state' = [state EXCEPT ![x] = "closed"]
  /\ End(x, "error")
  /\ UNCHANGED <<inputs, server, pc, mode, seq, sentFrames, wants, tries,
                 ackTries, wire, faults>>

\* A faulty variant: acknowledgements are not counted.
RecvAckUncounted(x) ==
  LET f == Head(wire[x])
  IN  /\ Reading(x) /\ wire[x] # <<>> /\ ~Refuses(x, f) /\ f.op = "ack" /\ f.arg = wants[x]
      /\ wire' = Rest(x)
      /\ Advance(x)
      /\ UNCHANGED <<inputs, server, seq, sentFrames, wants, state, result, faults>>

RecvAck(x) ==
  LET f == Head(wire[x])
  IN  /\ Reading(x) /\ wire[x] # <<>> /\ ~Refuses(x, f) /\ f.op = "ack"
      /\ wire' = Rest(x)
      /\ seq' = [seq EXCEPT ![x] = @ + 1]
      /\ IF f.arg # wants[x]
         THEN /\ state' = [state EXCEPT ![x] = "closed"] /\ End(x, "error")
              /\ UNCHANGED <<pc, mode, tries, ackTries, sentFrames>>
         ELSE /\ sentFrames' = [sentFrames EXCEPT ![x] = {g \in @ : g.sequence # f.arg}]
              /\ state' = [state EXCEPT ![x] = "started"]
              /\ IF Step(x).op = "shardStatus" /\ ~running
                 THEN End(x, "ok") /\ UNCHANGED <<pc, mode, tries, ackTries>>
                 ELSE Advance(x) /\ UNCHANGED result
      /\ UNCHANGED <<inputs, server, wants, faults>>

\* A faulty variant: one round more.
OneRoundMore(x) == ackTries[x] = MaxConsecutiveResends

\* After the third Resend the loop of awaitAck ends without an error, as if
\* the frame had been acknowledged.
LastRound(x) == ackTries[x] + 1 = MaxConsecutiveResends
RecvResend(x) ==
  LET f == Head(wire[x])
      old == {g \in sentFrames[x] : g.sequence = f.arg}
      new == LET g == CHOOSE g \in old : TRUE IN Frame(x, seq[x] + 1, g.op, g.arg)
  IN  /\ Reading(x) /\ wire[x] # <<>> /\ ~Refuses(x, f) /\ f.op = "resend"
      /\ IF old = {} \/ ~Open(Peer(x))
         THEN /\ state' = [state EXCEPT ![x] = "closed"] /\ End(x, "error")
              /\ wire' = Rest(x) /\ seq' = [seq EXCEPT ![x] = @ + 1]
              /\ UNCHANGED <<pc, mode, tries, ackTries, sentFrames, wants>>
         ELSE /\ wire' = Written(x, Rest(x), new)
              /\ seq' = [seq EXCEPT ![x] = @ + 2]
              /\ sentFrames' = [sentFrames EXCEPT ![x] =
                                  {g \in @ : g.sequence # wants[x]} \union {new}]
              /\ wants' = [wants EXCEPT ![x] = new.sequence]
              /\ IF LastRound(x) THEN Advance(x)
                 ELSE /\ ackTries' = [ackTries EXCEPT ![x] = @ + 1]
                      /\ UNCHANGED <<pc, mode, tries>>
              /\ UNCHANGED <<state, result>>
      /\ UNCHANGED <<inputs, server, faults>>

\* The client stops at a server that is shut down, or drains and does not know
\* the message.
Answer(x, f) ==
  CASE f.op = "shardStatus" /\ f.arg = "shutdown" -> "error"
    [] f.op = "msgStatus" /\ f.arg = "new"        -> "reroute"
    [] f.op = "accepted"                          -> "ok"
    [] OTHER                                      -> "none"

\* A faulty variant: only checks are acknowledged.
AcknowledgesChecks(f) == f.op \in {"start", "shardCheck", "msgCheck"}

\* The frame that was awaited; its acknowledgement is sent.
Acknowledges(f) == requiresAck(f.op)
RecvOp(x) ==
  LET f == Head(wire[x])
      a == Frame(x, seq[x] + 1, "ack", f.sequence)
      lost == Acknowledges(f) /\ ~Open(Peer(x))
  IN  /\ Reading(x) /\ wire[x] # <<>> /\ ~Refuses(x, f) /\ f.full
      /\ f.op \notin {"ack", "resend"}
      /\ IF Acknowledges(f)
         THEN /\ wire' = Written(x, Rest(x), a)
              /\ seq' = [seq EXCEPT ![x] = @ + 2]
              /\ sentFrames' = [sentFrames EXCEPT ![x] = @ \union {a}]
         ELSE /\ wire' = Rest(x)
              /\ seq' = [seq EXCEPT ![x] = @ + 1]
              /\ UNCHANGED sentFrames
      /\ state' = [state EXCEPT ![x] = IF f.op = "accepted" THEN "closed" ELSE "started"]
      /\ IF lost THEN End(x, "error") ELSE End(x, Answer(x, f))
      /\ IF lost \/ Answer(x, f) # "none" THEN UNCHANGED <<pc, mode, tries, ackTries>>
         ELSE Advance(x)
      /\ UNCHANGED <<inputs, server, wants, faults>>

----------------------------------------------------------------------------
(* The server's shards, and what goes wrong.                               *)

\* RouteFragment finds a shard or not.
Route(success) ==
  /\ Open("server") /\ Step("server").kind = "route"
  /\ routed' = success
  /\ bucket' = (bucket \/ success)
  /\ Advance("server")
  /\ UNCHANGED <<inputs, state, seq, sentFrames, wants, wire, result, faults>>

\* Other fragments open the bucket; it is filled and taken.
BucketChanges ==
  /\ Open("server")
  /\ bucket' = ~bucket
  /\ UNCHANGED <<inputs, routed, pc, mode, state, seq, sentFrames, wants, tries,
                 ackTries, wire, result, faults>>

\* The other end is closed; to the server that awaits a fragment this is how
\* a client declines.
Eof(x) ==
  /\ Reading(x) /\ wire[x] = <<>> /\ ~Open(Peer(x))
  /\ state' = [state EXCEPT ![x] = "closed"]
  /\ End(x, IF Expected(x) = {"frgRoute"} THEN "ok" ELSE "error")
  /\ UNCHANGED <<inputs, server, pc, mode, seq, sentFrames, wants, tries,
                 ackTries, wire, faults>>

\* The deadline of three seconds for a frame, and the end of a process.
Fault(x, what) ==
  /\ Open(x)
  /\ what = "timeout" => Reading(x) /\ wire[x] = <<>> /\ Open(Peer(x))
  /\ faults' = faults \union {what}
  /\ End(x, "error")
  /\ UNCHANGED <<inputs, server, pc, mode, state, seq, sentFrames, wants, tries,
                 ackTries, wire>>

Side(x) ==
  \/ SendOp(x) \/ SendVerdict(x, "accepted") \/ SendVerdict(x, "rejected")
  \/ RecvRefused(x) \/ RecvMalformed(x) \/ GiveUp(x) \/ RecvAck(x)
  \/ RecvResend(x) \/ RecvOp(x) \/ Eof(x)

Next ==
  \/ \E x \in Sides : Side(x) \/ Fault(x, "timeout") \/ Fault(x, "crash")
  \/ \E success \in BOOLEAN : Route(success)
  \/ BucketChanges

\* Both goroutines are scheduled; deadlines need not expire.
FairSpec ==
  Init /\ [][Next]_vars /\ WF_vars(Side("client"))
       /\ WF_vars(Side("server") \/ \E success \in BOOLEAN : Route(success))

----------------------------------------------------------------------------
(* Properties.                                                             *)

\* Positions, modes and frames of the two sides are of their types.
TypeOK ==
  /\ running \in BOOLEAN /\ oboFull \in BOOLEAN /\ bucket \in BOOLEAN /\ routed \in BOOLEAN
  /\ \A x \in Sides : pc[x] \in 1 .. Len(Script[x]) /\ seq[x] \in Nat
  /\ mode \in [Sides -> {"step", "ack"}]
  /\ state \in [Sides -> {"init", "started", "closed"}]
  /\ \A x \in Sides : \A f \in sentFrames[x] : f.op \in Ops /\ f.sequence < seq[x]
  /\ tries \in [Sides -> 0 .. MaxConsecutiveResends]
  /\ ackTries \in [Sides -> 0 .. MaxConsecutiveResends - 1]
  /\ result \in [Sides -> {"none", "ok", "reroute", "error"}]

\* The counter both sides share never falls out of step: a frame that arrives
\* carries the number its reader expects, and those behind it the next ones.
\* No session between two correct sides ends with ErrBadSequence.
SequenceInStep ==
  \A x \in Sides : Open(x) /\ state[x] # "closed" =>
    /\ \A i \in DOMAIN wire[x] : wire[x][i].sequence = seq[x] + i - 1
    /\ \A i \in DOMAIN wire[x] : wire[x][i].op = "ack" => wire[x][i].arg = wants[x]

\* The client's result is true of the server: a client that reports success has
\* handed over the fragment, and one that reports a failure, and so routes the
\* fragment itself, does it for a second time only when one of them crashed or a
\* deadline expired (RouteFragment, SendMsgFragment, RecvMsgFragment).
ResultIsTrue ==
  /\ result["client"] = "ok" => routed
  /\ routed /\ result["client"] \in {"error", "reroute"} => faults # {}

\* Without any deadline expiring both sides return.
BothEnd == <>(\A x \in Sides : ~Open(x))
=============================================================================
