--------------------------- MODULE FiprStageProofs --------------------------
(***************************************************************************)
(* The stages of a session.  One exchange of the script after the other    *)
(* goes through the same ones: the frame is to be sent, it is sent, it is  *)
(* acknowledged, and the reader may have sent the next frame already.  A   *)
(* malformed frame takes two stages more.  Each stage tells where both     *)
(* sides are, what is on the wire and how their sequence numbers differ;   *)
(* of a side that has ended it tells nothing, for nobody reads its wire.   *)
(* Sending, routing and ending keep the stages; FiprProofs has the rest.   *)
(***************************************************************************)
EXTENDS Fipr, TLAPS

Exchanges == 1 .. 8
Sender(k) == IF k \in {4, 6, 8} THEN "server" ELSE "client"
Reader(k) == Peer(Sender(k))

\* The server routes the fragment between its exchanges 7 and 8.
At(x, k) == pc[x] = k \/ (x = "server" /\ k = 8 /\ pc[x] = 9)

OpOf(k) == IF k = 8 THEN Verdict ELSE ClientScript[k].op
Is(f, n, op) == f.sequence = n /\ f.op = op /\ (f.full <=> (op = "obo" => oboFull))

\* One or two frames wait for x.
One(x) == Len(wire[x]) = 1 /\ wire[x] = <<wire[x][1]>>
Two(x) == Len(wire[x]) = 2 /\ wire[x] = <<wire[x][1], wire[x][2]>>

Waits(x, k) == pc[x] = k /\ mode[x] = "ack"
Stands(x, k) == At(x, k) /\ mode[x] = "step"
BothOpen == Open("client") /\ Open("server")

\* The first send of an exchange, and each of the frame sent again, is in
\* sentFrames under the number that is awaited.
KeepsObo == \A g \in sentFrames["client"] : g.sequence = wants["client"] => g.op = "obo"

Ready(k) ==
  /\ Open(Sender(k)) => Stands(Sender(k), k) /\ wire[Sender(k)] = <<>>
  /\ Open(Reader(k)) => pc[Reader(k)] = k /\ mode[Reader(k)] = "step" /\ wire[Reader(k)] = <<>>
                        /\ tries[Reader(k)] = 0
  /\ BothOpen => seq["client"] = seq["server"]

Sent(k) ==
  /\ Open(Sender(k)) => Waits(Sender(k), k) /\ wire[Sender(k)] = <<>> /\ k # 8
                        /\ (k = 2 => KeepsObo)
  /\ Open(Reader(k)) => /\ pc[Reader(k)] = k /\ mode[Reader(k)] = "step"
                        /\ One(Reader(k)) /\ Is(wire[Reader(k)][1], seq[Reader(k)], OpOf(k))
  /\ BothOpen => /\ seq[Sender(k)] = seq[Reader(k)] + 1 /\ wants[Sender(k)] = seq[Reader(k)]
                 /\ tries[Reader(k)] = ackTries[Sender(k)]

AckFirst(x) == Is(wire[x][1], seq[x], "ack") /\ wire[x][1].arg = wants[x]

Acked(k) ==
  /\ k # 8
  /\ Open(Sender(k)) => Waits(Sender(k), k) /\ One(Sender(k)) /\ AckFirst(Sender(k))
  /\ Open(Reader(k)) => Stands(Reader(k), k + 1) /\ wire[Reader(k)] = <<>> /\ tries[Reader(k)] = 0
  /\ BothOpen => seq[Reader(k)] = seq[Sender(k)] + 1

Chained(k) ==
  /\ k \in 3 .. 7
  /\ Open(Sender(k)) => /\ Waits(Sender(k), k) /\ Two(Sender(k)) /\ AckFirst(Sender(k))
                        /\ Is(wire[Sender(k)][2], seq[Sender(k)] + 1, OpOf(k + 1))
  /\ Open(Reader(k)) => Waits(Reader(k), k + 1) /\ wire[Reader(k)] = <<>> /\ k # 7
  /\ BothOpen => /\ seq[Reader(k)] = seq[Sender(k)] + 2 /\ wants[Reader(k)] = seq[Sender(k)] + 1
                 /\ ackTries[Reader(k)] = 0

\* A Resend is on its way to the client ...
Asked ==
  /\ Open("client") => /\ Waits("client", 2) /\ KeepsObo /\ One("client")
                       /\ Is(wire["client"][1], seq["client"], "resend")
                       /\ wire["client"][1].arg = wants["client"]
  /\ Open("server") => Stands("server", 2) /\ wire["server"] = <<>>
  /\ BothOpen => /\ seq["server"] = seq["client"] + 1
                 /\ tries["server"] = ackTries["client"] + 1

\* ... and after the last one the client goes on, while the server gives up.
Doomed ==
  /\ Open("client") => pc["client"] = 3 /\ wire["client"] = <<>>
  /\ Open("server") => /\ Stands("server", 2) /\ tries["server"] = MaxConsecutiveResends
                       /\ One("server") \/ Two("server")
                       /\ Is(wire["server"][1], seq["server"], "obo")
                       /\ Two("server") => Is(wire["server"][2], seq["server"] + 1, "shardCheck")
  /\ BothOpen /\ mode["client"] = "step" =>
       One("server") /\ seq["client"] = seq["server"] + 1

Stage ==
  \/ \E k \in Exchanges : Ready(k) \/ Sent(k) \/ Acked(k) \/ Chained(k)
  \/ Asked \/ Doomed

\* Of each side by itself: a session that is closed has ended; only the server
\* asks for a frame again, in the second exchange.
Alone(x) ==
  /\ Open(x) => state[x] # "closed"
  /\ mode[x] = "step" => ackTries[x] = 0
  /\ tries[x] # 0 => x = "server" /\ pc[x] = 2
  /\ mode[x] = "ack" => Script[x][pc[x]].kind = "send" /\ requiresAck(Script[x][pc[x]].op)

IsFun(f) == f = [x \in Sides |-> f[x]]
Functions ==
  /\ IsFun(pc) /\ IsFun(mode) /\ IsFun(state) /\ IsFun(seq) /\ IsFun(sentFrames)
  /\ IsFun(wants) /\ IsFun(tries) /\ IsFun(ackTries) /\ IsFun(wire) /\ IsFun(result)

Typed(x) ==
  /\ pc[x] \in 1 .. Len(Script[x]) /\ mode[x] \in {"step", "ack"}
  /\ state[x] \in {"init", "started", "closed"} /\ seq[x] \in Nat /\ wants[x] \in Nat
  /\ \A f \in sentFrames[x] : f.op \in Ops /\ f.sequence \in Nat /\ f.sequence < seq[x]
  /\ tries[x] \in 0 .. MaxConsecutiveResends
  /\ ackTries[x] \in 0 .. MaxConsecutiveResends - 1
  /\ result[x] \in {"none", "ok", "reroute", "error"}

Booleans ==
  running \in BOOLEAN /\ oboFull \in BOOLEAN /\ bucket \in BOOLEAN /\ routed \in BOOLEAN

SessionInv ==
  Functions /\ Booleans /\ (\A x \in Sides : Typed(x) /\ Alone(x)) /\ Stage

LEMMA SidesFacts ==
  /\ "client" \in Sides /\ "server" \in Sides /\ "client" # "server"
  /\ \A x \in Sides : x = "client" \/ x = "server"
  /\ Peer("client") = "server" /\ Peer("server") = "client"
  /\ \A x \in Sides : Peer(x) \in Sides /\ Peer(x) # x /\ Peer(Peer(x)) = x
BY DEF Sides, Peer

LEMMA Numbers ==
  ASSUME SessionInv, NEW x \in Sides
  PROVE  seq[x] \in Nat /\ wants[x] \in Nat /\ mode[x] \in {"step", "ack"}
BY DEF SessionInv, Typed

LEMMA FramesTyped ==
  ASSUME SessionInv, NEW x \in Sides
  PROVE  \A f \in sentFrames[x] : f.op \in Ops /\ f.sequence \in Nat /\ f.sequence < seq[x]
BY DEF SessionInv, Typed

LEMMA WireFacts ==
  /\ \A f : /\ <<f>> # <<>> /\ Head(<<f>>) = f /\ Tail(<<f>>) = <<>> /\ <<f>>[1] = f
            /\ Len(<<f>>) = 1 /\ Append(<<>>, f) = <<f>>
  /\ \A f, g : /\ <<f, g>> # <<>> /\ Head(<<f, g>>) = f /\ Tail(<<f, g>>) = <<g>>
               /\ <<f, g>>[1] = f /\ <<f, g>>[2] = g /\ Len(<<f, g>>) = 2
               /\ Append(<<f>>, g) = <<f, g>>
<1>1. ASSUME NEW f
      PROVE  /\ <<f>> # <<>> /\ Head(<<f>>) = f /\ <<f>>[1] = f
             /\ Len(<<f>>) = 1 /\ Append(<<>>, f) = <<f>>
  OBVIOUS
<1>2. ASSUME NEW f
      PROVE  Tail(<<f>>) = <<>>
  OBVIOUS
<1>3. ASSUME NEW f, NEW g
      PROVE  /\ <<f, g>> # <<>> /\ Head(<<f, g>>) = f
             /\ <<f, g>>[1] = f /\ <<f, g>>[2] = g /\ Len(<<f, g>>) = 2
  OBVIOUS
<1>4. ASSUME NEW f, NEW g
      PROVE  Tail(<<f, g>>) = <<g>>
  <2>1. <<f, g>> \in Seq({f, g}) /\ Len(<<f, g>>) = 2 /\ <<f, g>>[2] = g
    OBVIOUS
  <2>2. Len(Tail(<<f, g>>)) = 1 /\ Tail(<<f, g>>)[1] = g /\ Tail(<<f, g>>) \in Seq({f, g})
    BY <2>1
  <2> QED
    BY <2>2
<1>5. ASSUME NEW f, NEW g
      PROVE  Append(<<f>>, g) = <<f, g>>
  <2>1. <<f>> \in Seq({f, g}) /\ Len(<<f>>) = 1 /\ <<f>>[1] = f
    OBVIOUS
  <2>2. /\ Append(<<f>>, g) \in Seq({f, g}) /\ Len(Append(<<f>>, g)) = 2
        /\ Append(<<f>>, g)[1] = f /\ Append(<<f>>, g)[2] = g
    BY <2>1
  <2>3. <<f, g>> \in Seq({f, g}) /\ Len(<<f, g>>) = 2 /\ <<f, g>>[1] = f /\ <<f, g>>[2] = g
    OBVIOUS
  <2>4. \A s, t \in Seq({f, g}) : Len(s) = 2 /\ Len(t) = 2 /\ s[1] = t[1] /\ s[2] = t[2] => s = t
    OBVIOUS
  <2> QED
    BY Zenon, <2>2, <2>3, <2>4
<1> QED
  BY ZenonT(30), <1>1, <1>2, <1>3, <1>4, <1>5

\* The two scripts, side by side.
LEMMA ClientFacts ==
  /\ Script["client"][1] = Send("start") /\ Script["client"][2] = Send("obo")
  /\ Script["client"][3] = Send("shardCheck") /\ Script["client"][4] = Await("shardStatus")
  /\ Script["client"][5] = Send("msgCheck") /\ Script["client"][6] = Await("msgStatus")
  /\ Script["client"][7] = Send("frgRoute") /\ Script["client"][8] = Await("accepted")
  /\ Len(Script["client"]) = 8
BY DEF Script, ClientScript

LEMMA ServerFacts ==
  /\ Script["server"][1] = Await("start") /\ Script["server"][2] = Await("obo")
  /\ Script["server"][3] = Await("shardCheck") /\ Script["server"][4] = Send("shardStatus")
  /\ Script["server"][5] = Await("msgCheck") /\ Script["server"][6] = Send("msgStatus")
  /\ Script["server"][7] = Await("frgRoute") /\ Script["server"][8] = [kind |-> "route", op |-> "none"]
  /\ Script["server"][9] = Send("accepted") /\ Len(Script["server"]) = 9
BY DEF Script, ServerScript

LEMMA ScriptLengths ==
  /\ Len(Script["client"]) = 8 /\ Len(Script["server"]) = 9
  /\ \A x \in Sides : Len(Script[x]) \in Nat /\ Len(Script[x]) >= 8 /\ 1 \in 1 .. Len(Script[x])
<1>1. Len(Script["client"]) = 8 /\ Len(Script["server"]) = 9
  BY ZenonT(30), ClientFacts, ServerFacts
<1>2. \A n \in {8, 9} : n \in Nat /\ n >= 8 /\ 1 \in 1 .. n
  BY SMTT(30)
<1> QED
  BY ZenonT(30), <1>1, <1>2, SidesFacts

LEMMA OpFacts ==
  /\ OpOf(1) = "start" /\ OpOf(2) = "obo" /\ OpOf(3) = "shardCheck" /\ OpOf(4) = "shardStatus"
  /\ OpOf(5) = "msgCheck" /\ OpOf(6) = "msgStatus" /\ OpOf(7) = "frgRoute" /\ OpOf(8) = Verdict
BY DEF OpOf, ClientScript, Send, Await

LEMMA TurnFacts ==
  ASSUME NEW k \in Exchanges
  PROVE  /\ Sender(k) \in Sides /\ Reader(k) \in Sides /\ Sender(k) # Reader(k)
         /\ Peer(Sender(k)) = Reader(k) /\ Peer(Reader(k)) = Sender(k)
         /\ \A x \in Sides : x = Sender(k) \/ x = Reader(k)
         /\ BothOpen <=> Open(Sender(k)) /\ Open(Reader(k))
BY DEF Sender, Reader, Peer, Sides, BothOpen

LEMMA ExchangeFacts ==
  ASSUME NEW k \in 1 .. 7
  PROVE  /\ Script[Sender(k)][k].kind = "send" /\ Script[Sender(k)][k].op = OpOf(k)
         /\ Script[Reader(k)][k].kind = "await" /\ Script[Reader(k)][k].op = OpOf(k)
         /\ requiresAck(OpOf(k)) /\ OpOf(k) \in Ops
         /\ OpOf(k) = "obo" <=> k = 2
         /\ OpOf(k) = "start" <=> k = 1
         /\ OpOf(k) = "shardStatus" <=> k = 4
         /\ OpOf(k) \notin {"ack", "resend", "accepted", "rejected"}
<1>1. k \in {1, 2, 3, 4, 5, 6, 7}
  OBVIOUS
<1>2. CASE k \in {4, 6}
  <2>1. Sender(k) = "server" /\ Reader(k) = "client"
    BY SMTT(30), <1>2 DEF Sender, Reader, Peer
  <2> QED
    BY <1>2, <2>1, ClientFacts, ServerFacts, OpFacts DEF Send, Await, requiresAck, Ops
<1>3. CASE k \in {1, 2, 3, 5, 7}
  <2>1. Sender(k) = "client" /\ Reader(k) = "server"
    BY <1>3 DEF Sender, Reader, Peer
  <2> QED
    BY <1>3, <2>1, ClientFacts, ServerFacts, OpFacts DEF Send, Await, requiresAck, Ops
<1> QED
  BY ZenonT(30), <1>1, <1>2, <1>3

LEMMA ExchangeKinds ==
  ASSUME NEW k \in 1 .. 7
  PROVE  /\ Script[Sender(k)][k].kind = "send" /\ Script[Sender(k)][k].op = OpOf(k)
         /\ Script[Reader(k)][k].kind = "await"
BY ZenonT(30), ExchangeFacts

LEMMA LastFacts ==
  /\ Sender(8) = "server" /\ Reader(8) = "client"
  /\ Sender(7) = "client" /\ Reader(7) = "server"
  /\ Script["client"][8].kind = "await" /\ Script["client"][8].op = "accepted"
  /\ Script["server"][8].kind = "route" /\ Script["server"][8].op = "none"
  /\ Script["server"][9].kind = "send" /\ Script["server"][9].op = "accepted"
  /\ ~requiresAck("accepted") /\ ~requiresAck("rejected")
  /\ Verdict \in {"accepted", "rejected"}
<1>1. Sender(8) = "server" /\ Reader(8) = "client" /\ Sender(7) = "client" /\ Reader(7) = "server"
  BY DEF Sender, Reader, Peer
<1> QED
  BY <1>1, ClientFacts, ServerFacts DEF Send, Await, requiresAck, Verdict

\* What the scripts send is an operation.
LEMMA SendKinds ==
  ASSUME SessionInv, NEW z \in Sides, Step(z).kind = "send"
  PROVE  Step(z).op \in {"start", "obo", "shardCheck", "shardStatus", "msgCheck", "msgStatus",
                         "frgRoute", "accepted"}
<1>1. pc[z] \in 1 .. Len(Script[z])
  BY DEF SessionInv, Typed
<1>2. CASE z = "client"
  <2>1. pc[z] \in {1, 2, 3, 4, 5, 6, 7, 8}
    BY <1>1, <1>2, ClientFacts
  <2> QED
    BY <1>2, <2>1, ClientFacts DEF Step, Send, Await
<1>3. CASE z = "server"
  <2>1. pc[z] \in {1, 2, 3, 4, 5, 6, 7, 8, 9}
    BY <1>1, <1>3, ServerFacts
  <2> QED
    BY <1>3, <2>1, ServerFacts DEF Step, Send, Await
<1> QED
  BY ZenonT(30), <1>2, <1>3, SidesFacts

\* A step leaves the side y alone.
SameSide(y) ==
  /\ pc'[y] = pc[y] /\ mode'[y] = mode[y] /\ state'[y] = state[y] /\ seq'[y] = seq[y]
  /\ sentFrames'[y] = sentFrames[y] /\ wants'[y] = wants[y] /\ tries'[y] = tries[y]
  /\ ackTries'[y] = ackTries[y] /\ result'[y] = result[y]

\* When a side ends, the stage stays what it is to the other.
LEMMA StageEnds ==
  ASSUME Stage, NEW z \in Sides, result'[z] # "none", UNCHANGED <<oboFull, routed>>,
         SameSide(Peer(z)), wire'[Peer(z)] = wire[Peer(z)]
  PROVE  Stage'
<1> DEFINE y == Peer(z)
<1>1. /\ y \in Sides /\ y # z /\ \A x \in Sides : x = y \/ x = z
      /\ ~Open(z)' /\ ~BothOpen' /\ (Open(y)' <=> Open(y))
  BY SidesFacts DEF Open, SameSide, BothOpen
<1>2. /\ \A k \in Exchanges : OpOf(k)' = OpOf(k)
      /\ \A f, n, op : Is(f, n, op)' <=> Is(f, n, op)
  BY DEF OpOf, Verdict, Is
<1>3. /\ \A k : (At(y, k)' <=> At(y, k)) /\ (Waits(y, k)' <=> Waits(y, k)) /\ (Stands(y, k)' <=> Stands(y, k))
      /\ (One(y)' <=> One(y)) /\ (Two(y)' <=> Two(y)) /\ (AckFirst(y)' <=> AckFirst(y))
      /\ pc'[y] = pc[y] /\ mode'[y] = mode[y] /\ seq'[y] = seq[y] /\ wants'[y] = wants[y]
      /\ tries'[y] = tries[y] /\ wire'[y] = wire[y]
  BY <1>2 DEF At, Waits, Stands, One, Two, AckFirst, Is, SameSide
<1>4. y = "client" => (KeepsObo' <=> KeepsObo)
  BY DEF KeepsObo, SameSide
<1> HIDE DEF y
<1>5. CASE \E k \in Exchanges : Ready(k) \/ Sent(k) \/ Acked(k) \/ Chained(k)
  <2>1. PICK k \in Exchanges : Ready(k) \/ Sent(k) \/ Acked(k) \/ Chained(k)
    BY <1>5
  <2>2. (y = Sender(k) /\ z = Reader(k)) \/ (y = Reader(k) /\ z = Sender(k))
    <3>1. /\ Sender(k) \in Sides /\ Reader(k) \in Sides /\ Sender(k) # Reader(k)
          /\ \A x \in Sides : x = Sender(k) \/ x = Reader(k)
      BY TurnFacts
    <3>2. y \in Sides /\ z \in Sides /\ y # z
      BY <1>1
    <3> QED
      BY Zenon, <3>1, <3>2
  <2>3. CASE Ready(k)
    <3>1. Ready(k)'
      BY ZenonT(30), <1>1, <1>3, <2>2, <2>3 DEF Ready
    <3> QED
      BY SMTT(30), <3>1 DEF Stage
  <2>4. CASE Sent(k)
    <3>0. k = 2 => Sender(k) = "client"
      BY SMTT(30) DEF Sender
    <3>1. Sent(k)'
      <4>1. OpOf(k)' = OpOf(k)
        BY SMTT(30), <1>2
      <4>2. y = Reader(k) => (Is(wire[y][1], seq[y], OpOf(k))' <=> Is(wire[y][1], seq[y], OpOf(k)))
        BY ZenonT(30), <1>3, <4>1 DEF Is
      <4> QED
        BY SMTT(30), <1>1, <1>3, <1>4, <2>2, <2>4, <3>0, <4>2 DEF Sent
    <3> QED
      BY <3>1 DEF Stage
  <2>5. CASE Acked(k)
    <3>1. Acked(k)'
      BY ZenonT(30), <1>1, <1>3, <2>2, <2>5 DEF Acked
    <3> QED
      BY SMTT(30), <3>1 DEF Stage
  <2>6. CASE Chained(k)
    <3>1. Chained(k)'
      <4>1. OpOf(k + 1)' = OpOf(k + 1)
        BY SMTT(30) DEF OpOf, Verdict
      <4>2. Is(wire[y][2], seq[y] + 1, OpOf(k + 1))' <=> Is(wire[y][2], seq[y] + 1, OpOf(k + 1))
        BY <1>3, <4>1 DEF Is
      <4> QED
        BY ZenonT(30), <1>1, <1>3, <2>2, <2>6, <4>2 DEF Chained
    <3> QED
      BY SMTT(30), <3>1 DEF Stage
  <2> QED
    BY <2>1, <2>3, <2>4, <2>5, <2>6
<1>6. CASE Asked
  <2>1. Is(wire[y][1], seq[y], "resend")' <=> Is(wire[y][1], seq[y], "resend")
    BY ZenonT(30), <1>3 DEF Is
  <2>2. Asked'
    BY SMTT(30), <1>1, <1>3, <1>4, <1>6, <2>1, SidesFacts DEF Asked
  <2> QED
    BY SMTT(30), <2>2 DEF Stage
<1>7. CASE Doomed
  <2>1. /\ Is(wire[y][1], seq[y], "obo")' <=> Is(wire[y][1], seq[y], "obo")
        /\ Is(wire[y][2], seq[y] + 1, "shardCheck")' <=> Is(wire[y][2], seq[y] + 1, "shardCheck")
    BY SMTT(30), <1>3 DEF Is
  <2>2. Doomed'
    BY SMTT(30), <1>1, <1>3, <1>7, <2>1, SidesFacts DEF Doomed
  <2> QED
    BY SMTT(30), <2>2 DEF Stage
<1> QED
  BY <1>5, <1>6, <1>7 DEF Stage

\* Where a side is that sends, and what it finds when it reads.
LEMMA SendsWhere ==
  ASSUME SessionInv, NEW z \in Sides, Open(z), mode[z] = "step", Step(z).kind = "send"
  PROVE  \/ \E k \in 1 .. 7 : z = Sender(k) /\ pc[z] = k /\ Ready(k)
         \/ \E k \in 3 .. 6 : z = Reader(k) /\ pc[z] = k + 1 /\ Sender(k + 1) = z /\ Acked(k)
         \/ z = "client" /\ pc[z] = 3 /\ Doomed
         \/ z = "server" /\ pc[z] = 9 /\ (Ready(8) \/ Acked(7))
<1>1. CASE \E k \in Exchanges : Ready(k) \/ Sent(k) \/ Acked(k) \/ Chained(k)
  <2>1. PICK k \in Exchanges : Ready(k) \/ Sent(k) \/ Acked(k) \/ Chained(k)
    BY <1>1
  <2>2. k \in {1, 2, 3, 4, 5, 6, 7, 8} /\ (z = Sender(k) \/ z = Reader(k))
    BY SMTT(30), TurnFacts DEF Exchanges
  <2>3. CASE Ready(k)
    <3>1. CASE z = Sender(k)
      <4>1. Stands(z, k)
        BY SMTT(30), <2>3, <3>1 DEF Ready
      <4>2. CASE k = 8
        BY ZenonT(30), <2>3, <3>1, <4>1, <4>2, LastFacts DEF Stands, At, Step
      <4>3. CASE k # 8
        BY SMTT(30), <2>2, <2>3, <3>1, <4>1, <4>3 DEF Stands, At
      <4> QED
        BY SMTT(30), <4>2, <4>3
    <3>2. CASE z = Reader(k)
      <4>1. pc[z] = k
        BY SMTT(30), <2>3, <3>2 DEF Ready
      <4>2. Script[Reader(k)][k].kind = "await"
        BY SMTT(30), <2>2, ExchangeFacts, LastFacts
      <4> QED
        BY SMTT(30), <3>2, <4>1, <4>2 DEF Step
    <3> QED
      BY SMTT(30), <2>2, <3>1, <3>2
  <2>4. CASE Sent(k)
    <3>1. CASE z = Sender(k)
      BY SMTT(30), <2>4, <3>1 DEF Sent, Waits
    <3>2. CASE z = Reader(k)
      <4>1. pc[z] = k
        BY <2>4, <3>2 DEF Sent
      <4>2. Script[Reader(k)][k].kind = "await"
        BY <2>2, ExchangeFacts, LastFacts
      <4> QED
        BY ZenonT(30), <3>2, <4>1, <4>2 DEF Step
    <3> QED
      BY <2>2, <3>1, <3>2
  <2>5. CASE Acked(k)
    <3>1. CASE z = Sender(k)
      BY <2>5, <3>1 DEF Acked, Waits
    <3>2. CASE z = Reader(k)
      <4>1. Stands(z, k + 1) /\ k # 8
        BY <2>5, <3>2 DEF Acked
      <4>2. CASE k = 7
        BY <2>5, <3>2, <4>1, <4>2, LastFacts DEF Stands, At, Step
      <4>3. CASE k \in {1, 2}
        <5>1. z = Reader(k + 1) /\ pc[z] = k + 1 /\ k + 1 \in 1 .. 7
          BY SMTT(30), <3>2, <4>1, <4>3 DEF Sender, Reader, Peer, Stands, At
        <5>2. Script[Reader(k + 1)][k + 1].kind = "await"
          BY ZenonT(30), <5>1, ExchangeFacts
        <5> QED
          BY <5>1, <5>2 DEF Step
      <4>4. CASE k \in {3, 4, 5, 6}
        <5>1. z = Sender(k + 1) /\ pc[z] = k + 1
          BY <3>2, <4>1, <4>4 DEF Sender, Reader, Peer, Stands, At
        <5>2. k \in 3 .. 6
          BY <4>4
        <5> QED
          BY Zenon, <2>5, <3>2, <5>1, <5>2
      <4> QED
        BY ZenonT(30), <2>2, <4>1, <4>2, <4>3, <4>4
    <3> QED
      BY <2>2, <3>1, <3>2
  <2>6. CASE Chained(k)
    <3>1. mode[z] = "ack"
      BY <2>2, <2>6 DEF Chained, Waits
    <3> QED
      BY <3>1
  <2> QED
    BY ZenonT(30), <2>1, <2>3, <2>4, <2>5, <2>6
<1>2. CASE Asked
  <2>1. z = "server" /\ pc[z] = 2
    BY <1>2, SidesFacts DEF Asked, Waits, Stands, At
  <2> QED
    BY <2>1, ServerFacts DEF Step, Await
<1>3. CASE Doomed
  <2>1. CASE z = "client"
    BY <1>3, <2>1 DEF Doomed
  <2>2. CASE z = "server"
    <3>1. pc[z] = 2
      BY <1>3, <2>2 DEF Doomed, Stands, At
    <3> QED
      BY <2>2, <3>1, ServerFacts DEF Step, Await
  <2> QED
    BY ZenonT(30), <2>1, <2>2, SidesFacts
<1> QED
  BY ZenonT(30), <1>1, <1>2, <1>3 DEF SessionInv, Stage

LEMMA ReadsWhere ==
  ASSUME SessionInv, NEW z \in Sides, Reading(z), wire[z] # <<>>
  PROVE  \/ \E k \in Exchanges : z = Reader(k) /\ Sent(k)
         \/ \E k \in 1 .. 7 : z = Sender(k) /\ (Acked(k) \/ Chained(k))
         \/ z = "client" /\ Asked
<1>1. Open(z) /\ tries[z] < MaxConsecutiveResends /\ tries[z] \in Nat
  BY FiprAssumption DEF Reading, SessionInv, Typed
<1>2. CASE \E k \in Exchanges : Ready(k) \/ Sent(k) \/ Acked(k) \/ Chained(k)
  <2>1. PICK k \in Exchanges : Ready(k) \/ Sent(k) \/ Acked(k) \/ Chained(k)
    BY <1>2
  <2>2. z = Sender(k) \/ z = Reader(k)
    BY TurnFacts
  <2>3. CASE Ready(k)
    BY ZenonT(30), <1>1, <2>2, <2>3 DEF Ready
  <2>4. CASE Sent(k)
    BY ZenonT(30), <1>1, <2>2, <2>4 DEF Sent
  <2>5. CASE Acked(k)
    <3>1. k \in 1 .. 7
      BY SMTT(30), <2>5 DEF Acked, Exchanges
    <3> QED
      BY ZenonT(30), <1>1, <2>2, <2>5, <3>1 DEF Acked
  <2>6. CASE Chained(k)
    <3>1. k \in 1 .. 7
      BY <2>6 DEF Chained
    <3> QED
      BY ZenonT(30), <1>1, <2>2, <2>6, <3>1 DEF Chained
  <2> QED
    BY ZenonT(30), <2>1, <2>3, <2>4, <2>5, <2>6
<1>3. CASE Asked
  BY ZenonT(30), <1>1, <1>3, SidesFacts DEF Asked
<1>4. CASE Doomed
  BY <1>1, <1>4, SidesFacts DEF Doomed
<1> QED
  BY <1>2, <1>3, <1>4 DEF SessionInv, Stage

LEMMA FunFacts ==
  ASSUME NEW f, IsFun(f), NEW z \in Sides, NEW e
  PROVE  /\ IsFun([f EXCEPT ![z] = e]) /\ [f EXCEPT ![z] = e][z] = e
         /\ \A y \in Sides : y # z => [f EXCEPT ![z] = e][y] = f[y]
BY DEF IsFun

\* A step of the side z changes f, a function of the sides, at most at z.
Own(z, f, g) == g = f \/ \E e : g = [f EXCEPT ![z] = e]

Owned(z) ==
  /\ Own(z, pc, pc') /\ Own(z, mode, mode') /\ Own(z, state, state') /\ Own(z, seq, seq')
  /\ Own(z, sentFrames, sentFrames') /\ Own(z, wants, wants') /\ Own(z, tries, tries')
  /\ Own(z, ackTries, ackTries') /\ Own(z, result, result')
  /\ UNCHANGED <<running, oboFull, bucket, routed>>

LEMMA OwnFacts ==
  ASSUME NEW z \in Sides, NEW f, NEW g, IsFun(f), Own(z, f, g)
  PROVE  IsFun(g) /\ g[Peer(z)] = f[Peer(z)]
BY FunFacts, SidesFacts DEF Own

LEMMA OwnedFacts ==
  ASSUME Functions, NEW z \in Sides, Owned(z), IsFun(wire')
  PROVE  Functions' /\ SameSide(Peer(z))
<1>1. /\ IsFun(pc') /\ IsFun(mode') /\ IsFun(state') /\ IsFun(seq') /\ IsFun(sentFrames')
      /\ IsFun(wants') /\ IsFun(tries') /\ IsFun(ackTries') /\ IsFun(result')
      /\ SameSide(Peer(z))
  BY Zenon, OwnFacts DEF Functions, Owned, SameSide
<1> QED
  BY <1>1 DEF Functions

\* The step of one side is its own: it leaves the other alone but for its wire.
LEMMA OwnStep ==
  ASSUME SessionInv, NEW z \in Sides, Side(z) \/ Fault(z, "timeout") \/ Fault(z, "crash")
  PROVE  Functions' /\ SameSide(Peer(z)) /\ UNCHANGED <<running, oboFull, bucket, routed>>
<1>1. Functions /\ IsFun(wire)
  BY DEF SessionInv, Functions
<1>2. ASSUME NEW w, NEW f, IsFun(w)
      PROVE  IsFun(Written(z, w, f))
  BY Zenon, <1>2, FunFacts, SidesFacts DEF Written
<1>3. IsFun(Rest(z))
  BY Zenon, <1>1, FunFacts DEF Rest
<1>4. CASE SendOp(z)
  <2>1. IsFun(wire')
    BY ZenonT(30), <1>1, <1>2, <1>4 DEF SendOp, SendFrame
  <2>2. Owned(z)
    BY ZenonT(30), <1>4 DEF SendOp, SendFrame, inputs, server, Owned, Own
  <2> QED
    BY ZenonT(30), <1>1, <2>1, <2>2, OwnedFacts DEF Owned
<1>5. ASSUME NEW op, SendVerdict(z, op)
      PROVE  Owned(z) /\ IsFun(wire')
  <2>1. IsFun(wire')
    BY ZenonT(30), <1>1, <1>2, <1>5 DEF SendVerdict, SendFrame
  <2>2. Owned(z)
    BY ZenonT(30), <1>5 DEF SendVerdict, SendFrame, End, inputs, server, Owned, Own
  <2> QED
    BY <2>1, <2>2
<1>6. CASE RecvRefused(z) \/ GiveUp(z) \/ Eof(z) \/ Fault(z, "timeout") \/ Fault(z, "crash")
  <2>1. IsFun(wire')
    BY ZenonT(30), <1>1, <1>3, <1>6 DEF RecvRefused, GiveUp, Eof, Fault
  <2>2. Owned(z)
    BY ZenonT(30), <1>6 DEF RecvRefused, GiveUp, Eof, Fault, End, inputs, server, Owned, Own
  <2> QED
    BY ZenonT(30), <1>1, <2>1, <2>2, OwnedFacts DEF Owned
<1>7. CASE RecvMalformed(z)
  <2>1. IsFun(wire')
    BY ZenonT(30), <1>2, <1>3, <1>7 DEF RecvMalformed
  <2>2. Owned(z)
    BY ZenonT(30), <1>7 DEF RecvMalformed, End, inputs, server, Owned, Own
  <2> QED
    BY ZenonT(30), <1>1, <2>1, <2>2, OwnedFacts DEF Owned
<1>8. CASE RecvAck(z)
  <2>1. IsFun(wire')
    BY <1>3, <1>8 DEF RecvAck
  <2>2. Owned(z)
    BY ZenonT(30), <1>8 DEF RecvAck, Advance, End, inputs, server, Owned, Own
  <2> QED
    BY ZenonT(30), <1>1, <2>1, <2>2, OwnedFacts DEF Owned
<1>9. CASE RecvResend(z)
  <2>1. wire' = Rest(z) \/ \E f : wire' = Written(z, Rest(z), f)
    BY ZenonT(30), <1>9 DEF RecvResend
  <2>2. Owned(z)
    BY ZenonT(30), <1>9 DEF RecvResend, Advance, End, inputs, server, Owned, Own
  <2> QED
    BY ZenonT(30), <1>1, <1>2, <1>3, <2>1, <2>2, OwnedFacts DEF Owned
<1>10. CASE RecvOp(z)
  <2>1. wire' = Rest(z) \/ \E f : wire' = Written(z, Rest(z), f)
    BY ZenonT(30), <1>10 DEF RecvOp
  <2>2. Owned(z)
    BY ZenonT(30), <1>10 DEF RecvOp, Advance, End, inputs, server, Owned, Own
  <2> QED
    BY ZenonT(30), <1>1, <1>2, <1>3, <2>1, <2>2, OwnedFacts DEF Owned
<1> QED
  BY ZenonT(30), <1>1, <1>4, <1>5, <1>6, <1>7, <1>8, <1>9, <1>10, OwnedFacts DEF Side, Owned

LEMMA SamePeer ==
  ASSUME NEW y, SameSide(y), Typed(y), Alone(y)
  PROVE  Typed(y)' /\ Alone(y)'
<1>1. Typed(y)'
  BY DEF Typed, SameSide
<1>2. Alone(y)'
  BY ZenonT(30) DEF Alone, SameSide, Open
<1> QED
  BY <1>1, <1>2

\* What is left to show of a step of z: that z stays of its type, and the stage.
LEMMA Finish ==
  ASSUME SessionInv, NEW z \in Sides, Side(z) \/ Fault(z, "timeout") \/ Fault(z, "crash"),
         Typed(z)', Alone(z)', Stage'
  PROVE  SessionInv'
<1>1. Functions' /\ SameSide(Peer(z)) /\ UNCHANGED <<running, oboFull, bucket, routed>>
  BY OwnStep
<1>2. Booleans'
  BY <1>1 DEF SessionInv, Booleans
<1>3. Peer(z) \in Sides /\ \A x \in Sides : x = z \/ x = Peer(z)
  BY SidesFacts DEF Peer
<1>4. Typed(Peer(z)) /\ Alone(Peer(z))
  BY <1>3 DEF SessionInv
<1>5. Typed(Peer(z))' /\ Alone(Peer(z))'
  BY ZenonT(30), <1>1, <1>4, SamePeer
<1>6. \A x \in Sides : Typed(x)' /\ Alone(x)'
  BY Zenon, <1>3, <1>5
<1> QED
  BY <1>1, <1>2, <1>6 DEF SessionInv

\* A step that ends the side z and writes nothing.
LEMMA EndsKeep ==
  ASSUME SessionInv, NEW z \in Sides, Side(z) \/ Fault(z, "timeout") \/ Fault(z, "crash"),
         Typed(z)', result'[z] # "none", wire'[Peer(z)] = wire[Peer(z)],
         mode'[z] = mode[z], ackTries'[z] = ackTries[z], tries'[z] = 0 \/ tries'[z] = tries[z],
         pc'[z] = pc[z]
  PROVE  SessionInv'
<1>1. Stage'
  BY OwnStep, StageEnds DEF SessionInv
<1>2. Alone(z)'
  BY DEF SessionInv, Alone, Open
<1> QED
  BY <1>1, <1>2, Finish

LEMMA SessionEnds ==
  ASSUME SessionInv, NEW z \in Sides,
         RecvRefused(z) \/ GiveUp(z) \/ Eof(z) \/ Fault(z, "timeout") \/ Fault(z, "crash")
  PROVE  SessionInv' /\ result'[z] \in {"ok", "error"} /\ wire'[Peer(z)] = wire[Peer(z)]
<1>1. Typed(z) /\ Functions /\ Peer(z) \in Sides /\ Peer(z) # z
  BY SidesFacts DEF SessionInv
<1>2. Side(z) \/ Fault(z, "timeout") \/ Fault(z, "crash")
  BY SMTT(30) DEF Side
<1>3. /\ result'[z] \in {"ok", "error"} /\ wire'[Peer(z)] = wire[Peer(z)]
      /\ UNCHANGED <<pc, mode, seq, sentFrames, wants, tries, ackTries>>
      /\ state'[z] \in {state[z], "closed"}
  BY ZenonT(30), <1>1 DEF RecvRefused, GiveUp, Eof, Fault, End, Rest, Functions, IsFun
<1>4. Typed(z)'
  BY SMTT(30), <1>1, <1>3 DEF Typed
<1> QED
  BY <1>2, <1>3, <1>4, EndsKeep

LEMMA SentEffect ==
  ASSUME SessionInv, NEW z \in Sides, NEW op, SendFrame(z, op)
  PROVE  LET f == Frame(z, seq[z], op, Payload(z, op)) IN
         /\ Open(z) /\ mode[z] = "step" /\ Step(z).kind = "send" /\ Is(f, seq[z], op)
         /\ wire'[z] = wire[z] /\ seq'[z] = seq[z] + 1 /\ wants'[z] = seq[z]
         /\ wire'[Peer(z)] = IF Open(Peer(z)) THEN Append(wire[Peer(z)], f) ELSE wire[Peer(z)]
         /\ sentFrames'[z] = sentFrames[z] \union {f}
<1>1. Functions /\ Peer(z) \in Sides /\ Peer(z) # z
  BY SidesFacts DEF SessionInv
<1> DEFINE f == Frame(z, seq[z], op, Payload(z, op))
<1>2. Is(f, seq[z], op)
  BY ZenonT(30) DEF Is, Frame
<1> HIDE DEF f
<1>3. /\ wire'[z] = wire[z]
      /\ wire'[Peer(z)] = IF Open(Peer(z)) THEN Append(wire[Peer(z)], f) ELSE wire[Peer(z)]
  BY ZenonT(30), <1>1 DEF SendFrame, Written, Functions, IsFun, f
<1>4. seq'[z] = seq[z] + 1 /\ wants'[z] = seq[z] /\ sentFrames'[z] = sentFrames[z] \union {f}
  BY <1>1 DEF SendFrame, Functions, IsFun, f
<1> QED
  BY ZenonT(30), <1>2, <1>3, <1>4 DEF SendFrame, f

LEMMA SendOpKeeps ==
  ASSUME SessionInv, NEW z \in Sides, SendOp(z)
  PROVE  SessionInv'
<1> DEFINE y == Peer(z)
           op == Step(z).op
           f == Frame(z, seq[z], op, Payload(z, op))
<1>1. /\ Open(z) /\ mode[z] = "step" /\ Step(z).kind = "send" /\ requiresAck(op)
      /\ UNCHANGED <<pc, state, tries, ackTries, result>>
  BY ZenonT(30), SentEffect DEF SendOp
<1>num. wire'[z] = wire[z] /\ seq'[z] = seq[z] + 1 /\ wants'[z] = seq[z]
  BY ZenonT(30), SentEffect DEF SendOp
<1>put. /\ Is(f, seq[z], op)
        /\ Open(y) => wire'[y] = Append(wire[y], f)
        /\ ~Open(y) => wire'[y] = wire[y]
  BY ZenonT(30), SentEffect DEF SendOp
<1>kept. sentFrames'[z] = sentFrames[z] \union {f}
  BY ZenonT(30), SentEffect DEF SendOp
<1>2. /\ Functions /\ Typed(z) /\ Alone(z) /\ y \in Sides /\ y # z /\ Side(z)
      /\ SameSide(y) /\ UNCHANGED <<oboFull, routed>>
  BY ZenonT(30), SidesFacts, OwnStep DEF SessionInv, Side
<1>3. mode'[z] = "ack"
  BY <1>2 DEF SendOp, Functions, IsFun
<1> HIDE DEF y, f
<1>4. op \in Ops
  BY <1>1, SendKinds DEF Ops
<1>5. Typed(z)'
  <2>1. \A g \in sentFrames'[z] : g.op \in Ops /\ g.sequence \in Nat /\ g.sequence < seq'[z]
    BY SMTT(30), <1>num, <1>put, <1>kept, <1>4, Numbers, FramesTyped DEF Is
  <2> QED
    BY <1>1, <1>num, <1>2, <1>3, <2>1 DEF Typed
<1>6. Alone(z)'
  BY ZenonT(30), <1>1, <1>2, <1>3 DEF Alone, Open, Step
<1>7. Open(z)' /\ (Open(y)' <=> Open(y))
  BY <1>1 DEF Open
<1>8. CASE \E k \in 1 .. 7 : z = Sender(k) /\ pc[z] = k /\ Ready(k)
  <2>1. PICK k \in 1 .. 7 : z = Sender(k) /\ pc[z] = k /\ Ready(k)
    BY SMTT(30), <1>8
  <2>2. y = Reader(k) /\ k \in Exchanges /\ op = OpOf(k) /\ OpOf(k)' = OpOf(k)
    BY SMTT(30), <1>2, <2>1, ExchangeFacts DEF Reader, Step, Exchanges, OpOf, Verdict, y
  <2>3. (BothOpen <=> Open(y)) /\ (BothOpen' <=> Open(y))
    BY ZenonT(30), <1>1, <1>2, <1>7, SidesFacts DEF BothOpen
  <2>4. Waits(z, k)' /\ wire'[z] = <<>>
    BY ZenonT(30), <1>1, <1>num, <1>3, <2>1 DEF Ready, Waits
  <2>5. k = 2 => KeepsObo'
    <3> SUFFICES ASSUME k = 2, NEW g \in sentFrames'["client"], g.sequence = wants'["client"]
                 PROVE  g.op = "obo"
      BY DEF KeepsObo
    <3>1. z = "client" /\ op = "obo"
      BY SMTT(30), <2>1, <2>2, OpFacts DEF Sender
    <3>2. g = f
      BY SMTT(30), <1>num, <1>kept, <3>1, FramesTyped, Numbers
    <3> QED
      BY <1>put, <3>1, <3>2 DEF Is
  <2>6. ASSUME Open(y)
        PROVE  /\ pc'[y] = k /\ mode'[y] = "step" /\ One(y)'
               /\ Is(wire[y][1], seq[y], OpOf(k))' /\ seq[z] = seq[y] /\ tries'[y] = 0
               /\ seq'[y] = seq[y]
    <3>1. /\ pc[y] = k /\ mode[y] = "step" /\ wire[y] = <<>> /\ tries[y] = 0 /\ seq[z] = seq[y]
      BY ZenonT(30), <1>1, <2>1, <2>2, <2>3, <2>6, SidesFacts DEF Ready, y
    <3>2. wire'[y] = <<f>>
      BY ZenonT(30), <1>put, <2>6, <3>1, WireFacts
    <3>3. One(y)' /\ wire'[y][1] = f
      BY SMTT(30), <3>2, WireFacts DEF One
    <3>4. Is(wire[y][1], seq[y], OpOf(k))'
      <4>1. seq'[y] = seq[y] /\ oboFull' = oboFull
        BY ZenonT(30), <1>2 DEF SameSide
      <4> QED
        BY ZenonT(30), <1>put, <2>2, <3>1, <3>3, <4>1 DEF Is
    <3> QED
      BY ZenonT(30), <1>2, <3>1, <3>3, <3>4 DEF SameSide
  <2>7. Open(y) => seq'[z] = seq'[y] + 1 /\ wants'[z] = seq'[y] /\ tries'[y] = ackTries'[z]
    <3>1. ackTries'[z] = 0
      BY ZenonT(30), <1>1, <1>2 DEF Alone
    <3> QED
      BY SMTT(30), <1>num, <2>6, <3>1
  <2>8. Sent(k)'
    <3>1. k # 8 /\ Sender(k) = z /\ Reader(k) = y
      BY SMTT(30), <2>1, <2>2
    <3> QED
      BY ZenonT(30), <1>7, <2>3, <2>4, <2>5, <2>6, <2>7, <3>1 DEF Sent
  <2>9. Stage'
    BY <2>2, <2>8 DEF Stage
  <2> QED
    BY ZenonT(30), <1>2, <1>5, <1>6, <2>9, Finish
<1>9. CASE \E k \in 3 .. 6 : z = Reader(k) /\ pc[z] = k + 1 /\ Sender(k + 1) = z /\ Acked(k)
  <2>1. PICK k \in 3 .. 6 : z = Reader(k) /\ pc[z] = k + 1 /\ Sender(k + 1) = z /\ Acked(k)
    BY <1>9
  <2>2. /\ k \in Exchanges /\ k + 1 \in 1 .. 7 /\ OpOf(k + 1)' = OpOf(k + 1)
    BY SMTT(30), <2>1 DEF Exchanges, OpOf, Verdict
  <2>3. y = Sender(k) /\ op = OpOf(k + 1)
    BY SMTT(30), <2>1, <2>2, TurnFacts, ExchangeFacts DEF y, Step
  <2>4. (BothOpen <=> Open(y)) /\ (BothOpen' <=> Open(y))
    BY ZenonT(30), <1>1, <1>2, <1>7, SidesFacts DEF BothOpen
  <2>5. Waits(z, k + 1)' /\ wire'[z] = <<>>
    BY ZenonT(30), <1>1, <1>num, <1>3, <2>1 DEF Acked, Waits
  <2>6. ASSUME Open(y)
        PROVE  /\ Waits(y, k)' /\ Two(y)' /\ AckFirst(y)' /\ Is(wire[y][2], seq[y] + 1, OpOf(k + 1))'
               /\ seq[z] = seq[y] + 1 /\ seq'[y] = seq[y]
    <3>1. Waits(y, k) /\ One(y) /\ AckFirst(y) /\ seq[z] = seq[y] + 1
      BY ZenonT(30), <2>1, <2>3, <2>4, <2>6 DEF Acked
    <3>2. wire'[y] = <<wire[y][1], f>>
      <4>1. wire[y] = <<wire[y][1]>> /\ wire'[y] = Append(wire[y], f)
        BY ZenonT(30), <1>put, <2>6, <3>1 DEF One
      <4>2. Append(<<wire[y][1]>>, f) = <<wire[y][1], f>>
        BY Zenon, WireFacts
      <4> QED
        BY ZenonT(30), <4>1, <4>2
    <3>3. Two(y)' /\ wire'[y][1] = wire[y][1] /\ wire'[y][2] = f
      BY SMTT(30), <3>2, WireFacts DEF Two
    <3>4. AckFirst(y)'
      BY ZenonT(30), <1>2, <3>1, <3>3 DEF AckFirst, Is, SameSide
    <3>5. Is(wire[y][2], seq[y] + 1, OpOf(k + 1))'
      <4>1. seq'[y] + 1 = seq[z] /\ OpOf(k + 1)' = op /\ oboFull' = oboFull
        BY ZenonT(30), <1>2, <2>2, <2>3, <3>1 DEF SameSide
      <4> QED
        BY ZenonT(30), <1>put, <3>3, <4>1 DEF Is
    <3> QED
      BY ZenonT(30), <1>2, <3>1, <3>3, <3>4, <3>5 DEF SameSide, Waits
  <2>7. Open(y) => seq'[z] = seq'[y] + 2 /\ wants'[z] = seq'[y] + 1 /\ ackTries'[z] = 0
    <3>1. seq[y] \in Nat /\ seq'[y] = seq[y]
      BY <1>2, Numbers DEF SameSide
    <3>2. ackTries'[z] = 0
      BY ZenonT(30), <1>1, <1>2 DEF Alone
    <3> QED
      BY SMTT(30), <1>num, <2>6, <3>1, <3>2
  <2>8. Chained(k)'
    BY <1>7, <2>1, <2>3, <2>4, <2>5, <2>6, <2>7 DEF Chained
  <2>9. Stage'
    BY <2>2, <2>8 DEF Stage
  <2> QED
    BY ZenonT(30), <1>2, <1>5, <1>6, <2>9, Finish
<1>10. CASE z = "client" /\ pc[z] = 3 /\ Doomed
  <2>1. y = "server" /\ op = "shardCheck"
    BY <1>10, SidesFacts, ClientFacts DEF y, Step, Send
  <2>2. (BothOpen <=> Open(y)) /\ (BothOpen' <=> Open(y))
    BY <1>1, <1>7, <1>10, <2>1 DEF BothOpen
  <2>3. ASSUME Open(y)
        PROVE  /\ Stands(y, 2)' /\ tries'[y] = MaxConsecutiveResends /\ Two(y)'
               /\ Is(wire[y][1], seq[y], "obo")' /\ Is(wire[y][2], seq[y] + 1, "shardCheck")'
    <3>1. /\ Stands(y, 2) /\ tries[y] = MaxConsecutiveResends /\ One(y)
          /\ Is(wire[y][1], seq[y], "obo") /\ seq[z] = seq[y] + 1
      BY ZenonT(30), <1>1, <1>10, <2>1, <2>2, <2>3 DEF Doomed
    <3>2. wire'[y] = <<wire[y][1], f>>
      <4>1. wire[y] = <<wire[y][1]>> /\ wire'[y] = Append(wire[y], f)
        BY ZenonT(30), <1>put, <2>3, <3>1 DEF One
      <4>2. Append(<<wire[y][1]>>, f) = <<wire[y][1], f>>
        BY ZenonT(30), WireFacts
      <4> QED
        BY Zenon, <4>1, <4>2
    <3>3. Two(y)' /\ wire'[y][1] = wire[y][1] /\ wire'[y][2] = f
      BY SMTT(30), <3>2, WireFacts DEF Two
    <3>4. Is(wire[y][1], seq[y], "obo")' /\ Is(wire[y][2], seq[y] + 1, "shardCheck")'
      BY SMTT(30), <1>put, <1>2, <2>1, <3>1, <3>3 DEF Is, SameSide
    <3> QED
      BY ZenonT(30), <1>2, <3>1, <3>3, <3>4 DEF SameSide, Stands, At
  <2>4. Doomed'
    BY ZenonT(30), <1>1, <1>num, <1>3, <1>7, <1>10, <2>1, <2>2, <2>3 DEF Doomed
  <2>5. Stage'
    BY <2>4 DEF Stage
  <2> QED
    BY ZenonT(30), <1>2, <1>5, <1>6, <2>5, Finish
<1>11. CASE z = "server" /\ pc[z] = 9
  BY ZenonT(30), <1>1, <1>11, LastFacts DEF Step
<1> QED
  BY ZenonT(30), <1>1, <1>8, <1>9, <1>10, <1>11, SendsWhere

LEMMA VerdictKeeps ==
  ASSUME SessionInv, NEW z \in Sides, NEW op \in {"accepted", "rejected"}, SendVerdict(z, op)
  PROVE  /\ SessionInv' /\ z = "server" /\ pc[z] = 9 /\ ~Open(z)'
         /\ Open("client") => \/ One("client")' /\ wire'["client"][1].op = Verdict
                              \/ Two("client")' /\ wire'["client"][2].op = Verdict
<1> DEFINE f == Frame(z, seq[z], op, Payload(z, op))
<1>1. /\ Open(z) /\ mode[z] = "step" /\ Step(z).kind = "send" /\ ~requiresAck(Step(z).op)
      /\ UNCHANGED <<pc, mode, tries, ackTries>>
  BY ZenonT(30), SentEffect DEF SendVerdict
<1>num. wire'[z] = wire[z] /\ seq'[z] = seq[z] + 1 /\ wants'[z] = seq[z]
  BY ZenonT(30), SentEffect DEF SendVerdict
<1>put. /\ Is(f, seq[z], op) /\ op = Verdict
        /\ Open(Peer(z)) => wire'[Peer(z)] = Append(wire[Peer(z)], f)
        /\ ~Open(Peer(z)) => wire'[Peer(z)] = wire[Peer(z)]
  BY ZenonT(30), SentEffect DEF SendVerdict
<1>kept. sentFrames'[z] = sentFrames[z] \union {f}
  BY ZenonT(30), SentEffect DEF SendVerdict
<1>2. /\ Functions /\ Typed(z) /\ Alone(z) /\ Side(z)
      /\ SameSide(Peer(z)) /\ UNCHANGED <<oboFull, routed>>
  BY SidesFacts, OwnStep DEF SessionInv, Side
<1>3. state'[z] = "closed" /\ result'[z] \in {"ok", "error"}
  BY <1>2 DEF SendVerdict, End, Functions, IsFun
<1> HIDE DEF f
<1>4. z = "server" /\ pc[z] = 9 /\ (Ready(8) \/ Acked(7))
  <2>1. \A k \in 1 .. 7 : ~(z = Sender(k) /\ pc[z] = k)
    BY <1>1, ExchangeFacts DEF Step
  <2>2. \A k \in 3 .. 6 : k + 1 \in 1 .. 7
    OBVIOUS
  <2>3. \A k \in 3 .. 6 : ~(z = Sender(k + 1) /\ pc[z] = k + 1)
    BY <2>1, <2>2
  <2>4. Sender(3) = "client" /\ 3 \in 1 .. 7
    BY DEF Sender
  <2> QED
    BY ZenonT(30), <1>1, <2>1, <2>3, <2>4, SendsWhere
<1>5. Peer(z) = "client" /\ ~Open("server")' /\ ~BothOpen' /\ (Open("client")' <=> Open("client"))
  BY <1>2, <1>3, <1>4, SidesFacts DEF Open, BothOpen, SameSide
<1>6. Typed(z)'
  <2>1. \A g \in sentFrames'[z] : g.op \in Ops /\ g.sequence \in Nat /\ g.sequence < seq'[z]
    BY SMTT(30), <1>num, <1>put, <1>kept, Numbers, FramesTyped DEF Is, Ops
  <2> QED
    BY SMTT(30), <1>1, <1>num, <1>2, <1>3, <2>1 DEF Typed
<1>7. Alone(z)'
  BY ZenonT(30), <1>1, <1>num, <1>2, <1>3 DEF Alone, Open, Step
<1>8. OpOf(8)' = Verdict /\ OpOf(8) = Verdict
  BY <1>2 DEF OpOf, Verdict
<1>9. CASE Ready(8)
  <2>1. ASSUME Open("client")
        PROVE  /\ pc'["client"] = 8 /\ mode'["client"] = "step" /\ One("client")'
               /\ Is(wire["client"][1], seq["client"], OpOf(8))' /\ wire'["client"][1].op = Verdict
    <3>1. /\ pc["client"] = 8 /\ mode["client"] = "step" /\ wire["client"] = <<>>
          /\ seq["client"] = seq["server"]
      BY SMTT(30), <1>1, <1>4, <1>9, <2>1, LastFacts DEF Ready, BothOpen
    <3>2. wire'["client"] = <<f>>
      BY SMTT(30), <1>put, <1>5, <2>1, <3>1, WireFacts
    <3>3. One("client")' /\ wire'["client"][1] = f
      BY <3>2, WireFacts DEF One
    <3>4. seq'["client"] = seq[z] /\ oboFull' = oboFull
      BY SMTT(30), <1>2, <1>4, <1>5, <3>1 DEF SameSide
    <3>5. pc'["client"] = pc["client"] /\ mode'["client"] = mode["client"]
      BY ZenonT(30), <1>2, <1>5 DEF SameSide
    <3>6. Is(wire["client"][1], seq["client"], OpOf(8))' /\ wire'["client"][1].op = Verdict
      BY ZenonT(30), <1>put, <1>8, <3>3, <3>4 DEF Is
    <3> QED
      BY ZenonT(30), <3>1, <3>3, <3>5, <3>6
  <2>2. Sent(8)'
    BY ZenonT(30), <1>5, <2>1, LastFacts DEF Sent
  <2>3. Stage'
    BY <2>2 DEF Stage, Exchanges
  <2> QED
    BY ZenonT(30), <1>2, <1>4, <1>5, <1>6, <1>7, <2>1, <2>3, Finish
<1>10. CASE Acked(7)
  <2>1. ASSUME Open("client")
        PROVE  /\ Waits("client", 7)' /\ Two("client")' /\ AckFirst("client")'
               /\ Is(wire["client"][2], seq["client"] + 1, OpOf(8))' /\ wire'["client"][2].op = Verdict
    <3>1. /\ Waits("client", 7) /\ One("client") /\ AckFirst("client")
          /\ seq["server"] = seq["client"] + 1
      BY <1>1, <1>4, <1>10, <2>1, LastFacts DEF Acked, BothOpen
    <3>2. wire'["client"] = <<wire["client"][1], f>>
      <4>1. wire["client"] = <<wire["client"][1]>> /\ wire'["client"] = Append(wire["client"], f)
        BY ZenonT(30), <1>put, <1>5, <2>1, <3>1 DEF One
      <4>2. Append(<<wire["client"][1]>>, f) = <<wire["client"][1], f>>
        BY Zenon, WireFacts
      <4> QED
        BY ZenonT(30), <4>1, <4>2
    <3>3. Two("client")' /\ wire'["client"][1] = wire["client"][1] /\ wire'["client"][2] = f
      BY <3>2, WireFacts DEF Two
    <3>4. seq'["client"] + 1 = seq[z] /\ oboFull' = oboFull
      BY ZenonT(30), <1>2, <1>4, <1>5, <3>1 DEF SameSide
    <3>5. Is(wire["client"][2], seq["client"] + 1, OpOf(8))' /\ wire'["client"][2].op = Verdict
      BY ZenonT(30), <1>put, <1>8, <3>3, <3>4 DEF Is
    <3>6. AckFirst("client")' /\ Waits("client", 7)'
      BY <1>2, <1>5, <3>1, <3>3 DEF AckFirst, Is, SameSide, Waits
    <3> QED
      BY ZenonT(30), <3>3, <3>5, <3>6
  <2>2. 7 + 1 = 8 /\ 7 \in 3 .. 7
    BY SMTT(30)
  <2>3. Chained(7)'
    BY ZenonT(30), <1>5, <2>1, <2>2, LastFacts DEF Chained
  <2>4. Stage'
    BY <2>3 DEF Stage, Exchanges
  <2> QED
    BY ZenonT(30), <1>2, <1>4, <1>5, <1>6, <1>7, <2>1, <2>4, Finish
<1> QED
  BY ZenonT(30), <1>4, <1>9, <1>10

LEMMA RouteKeeps ==
  ASSUME SessionInv, (\E success \in BOOLEAN : Route(success)) \/ BucketChanges
  PROVE  SessionInv'
<1>1. CASE BucketChanges
  <2>1. /\ UNCHANGED <<running, oboFull, routed, pc, mode, state, seq, sentFrames, wants, tries,
                       ackTries, wire, result>>
        /\ bucket' \in BOOLEAN
    BY <1>1 DEF BucketChanges, inputs
  <2>2. Functions' /\ Booleans' /\ \A x \in Sides : SameSide(x) /\ wire'[x] = wire[x]
    BY <2>1 DEF SessionInv, Functions, Booleans, SameSide
  <2>3. \A x \in Sides : Typed(x)' /\ Alone(x)'
    BY <2>2, SamePeer DEF SessionInv
  <2>4. Stage'
    <3>1. \A x \in Sides : (Open(x)' <=> Open(x)) /\ (One(x)' <=> One(x)) /\ (Two(x)' <=> Two(x))
                           /\ (AckFirst(x)' <=> AckFirst(x))
      BY <2>1 DEF Open, One, Two, AckFirst, Is
    <3>2. (BothOpen' <=> BothOpen) /\ (KeepsObo' <=> KeepsObo)
      BY <2>1 DEF BothOpen, Open, KeepsObo
    <3>3. \A x, k : (Stands(x, k)' <=> Stands(x, k)) /\ (Waits(x, k)' <=> Waits(x, k))
      BY <2>1 DEF Stands, Waits, At
    <3>4. \A f, n, op : Is(f, n, op)' <=> Is(f, n, op)
      BY <2>1 DEF Is
    <3>5. \A k : OpOf(k)' = OpOf(k)
      BY <2>1 DEF OpOf, Verdict
    <3>6. ASSUME NEW k \in Exchanges
          PROVE  /\ Ready(k)' <=> Ready(k)
                 /\ Sent(k)' <=> Sent(k)
                 /\ Acked(k)' <=> Acked(k)
                 /\ Chained(k)' <=> Chained(k)
      <4>1. Sender(k) \in Sides /\ Reader(k) \in Sides
        BY SMTT(30), TurnFacts
      <4>2. Ready(k)' <=> Ready(k)
        BY ZenonT(30), <2>1, <3>1, <3>2, <3>3, <4>1 DEF Ready
      <4>3. Sent(k)' <=> Sent(k)
        BY ZenonT(30), <2>1, <3>1, <3>2, <3>3, <3>5, <4>1 DEF Sent, Is
      <4>4. Acked(k)' <=> Acked(k)
        BY ZenonT(30), <2>1, <3>1, <3>2, <3>3, <4>1 DEF Acked
      <4>5. Chained(k)' <=> Chained(k)
        BY ZenonT(30), <2>1, <3>1, <3>2, <3>3, <3>5, <4>1 DEF Chained, Is
      <4> QED
        BY <4>2, <4>3, <4>4, <4>5
    <3>7. Asked' <=> Asked
      BY ZenonT(30), <2>1, <3>1, <3>2, <3>3, SidesFacts DEF Asked, Is
    <3>8. Doomed' <=> Doomed
      BY ZenonT(30), <2>1, <3>1, <3>2, <3>3, SidesFacts DEF Doomed, Is
    <3> QED
      BY ZenonT(30), <3>6, <3>7, <3>8 DEF SessionInv, Stage
  <2> QED
    BY ZenonT(30), <2>2, <2>3, <2>4 DEF SessionInv
<1>2. CASE \E success \in BOOLEAN : Route(success)
  <2>1. PICK success \in BOOLEAN : Route(success)
    BY <1>2
  <2>2. Functions /\ Typed("server") /\ Alone("server") /\ Typed("client") /\ Alone("client")
    BY SidesFacts DEF SessionInv
  <2>3. /\ Open("server") /\ Step("server").kind = "route"
        /\ UNCHANGED <<running, oboFull, state, seq, sentFrames, wants, wire, result>>
        /\ pc'["server"] = pc["server"] + 1 /\ mode'["server"] = "step"
        /\ tries'["server"] = 0 /\ ackTries'["server"] = 0
        /\ SameSide("client")
    BY ZenonT(30), <2>1, <2>2, SidesFacts DEF Route, Advance, inputs, Functions, IsFun, SameSide
  <2>4. Functions'
    BY ZenonT(30), <2>1, <2>2, SidesFacts DEF Route, Advance, Functions, IsFun
  <2>5. Booleans'
    BY ZenonT(30), <2>1, <2>3 DEF Route, Booleans, SessionInv
  <2>6. pc["server"] = 8
    <3>1. pc["server"] \in {1, 2, 3, 4, 5, 6, 7, 8, 9}
      BY SMTT(30), <2>2, ServerFacts DEF Typed
    <3> QED
      BY <2>3, <3>1, ServerFacts DEF Step, Send, Await
  <2>7. mode["server"] = "step"
    BY ZenonT(30), <2>2, <2>6, LastFacts, Numbers, SidesFacts DEF Alone
  <2>8. Typed("server")'
    BY <2>2, <2>3, <2>6, ServerFacts, FiprAssumption DEF Typed
  <2>9. Alone("server")'
    BY ZenonT(30), <2>2, <2>3 DEF Alone, Open
  <2>10. \A x \in Sides : Typed(x)' /\ Alone(x)'
    BY ZenonT(30), <2>2, <2>3, <2>8, <2>9, SamePeer, SidesFacts
  <2>11. /\ \A x \in Sides : Open(x)' <=> Open(x)
         /\ BothOpen' <=> BothOpen
    BY <2>3 DEF Open, BothOpen
  <2>12. Ready(8) \/ Acked(7)
    <3>1. CASE \E k \in Exchanges : Ready(k) \/ Sent(k) \/ Acked(k) \/ Chained(k)
      <4>1. PICK k \in Exchanges : Ready(k) \/ Sent(k) \/ Acked(k) \/ Chained(k)
        BY <3>1
      <4>2. k \in {1, 2, 3, 4, 5, 6, 7, 8} /\ ("server" = Sender(k) \/ "server" = Reader(k))
        BY SMTT(30), TurnFacts, SidesFacts DEF Exchanges
      <4>open. Open("server") /\ ~Waits("server", 7) /\ ~Waits("server", 8)
        BY ZenonT(30), <2>3, <2>7 DEF Waits
      <4>4. CASE k = 8
        <5>1. ~Sent(8)
          BY SMTT(30), <4>open, LastFacts DEF Sent
        <5>2. ~Acked(8)
          BY DEF Acked
        <5>3. ~Chained(8)
          BY SMTT(30) DEF Chained
        <5> QED
          BY ZenonT(30), <4>1, <4>4, <5>1, <5>2, <5>3
      <4>5. CASE k = 7
        <5>1. ~Ready(7) /\ ~Sent(7)
          BY SMTT(30), <2>6, <4>open, LastFacts DEF Ready, Sent
        <5>2. ~Chained(7)
          BY SMTT(30), <4>open, LastFacts DEF Chained
        <5> QED
          BY <4>1, <4>5, <5>1, <5>2
      <4>6. CASE k \notin {7, 8}
        <5>1. k \in {1, 2, 3, 4, 5, 6}
          BY <4>2, <4>6
        <5>2. /\ ~Stands("server", k) /\ ~Waits("server", k) /\ pc["server"] # k
              /\ ~Stands("server", k + 1) /\ ~Waits("server", k + 1)
          BY SMTT(30), <2>6, <2>7, <5>1 DEF Stands, Waits, At
        <5>3. ~Ready(k) /\ ~Sent(k)
          BY ZenonT(30), <4>2, <4>open, <5>2 DEF Ready, Sent
        <5>4. ~Acked(k) /\ ~Chained(k)
          BY ZenonT(30), <4>2, <4>open, <5>2 DEF Acked, Chained
        <5> QED
          BY ZenonT(30), <4>1, <5>3, <5>4
      <4> QED
        BY <4>4, <4>5, <4>6
    <3>2. CASE Asked \/ Doomed
      BY <2>3, <2>6, <3>2 DEF Asked, Doomed, Stands, At
    <3> QED
      BY ZenonT(30), <3>1, <3>2 DEF SessionInv, Stage
  <2>13. CASE Ready(8)
    <3>1. Ready(8)'
      <4>1. Stands("server", 8)'
        BY <2>3, <2>6 DEF Stands, At
      <4>2. /\ pc'["client"] = pc["client"] /\ mode'["client"] = mode["client"]
            /\ tries'["client"] = tries["client"] /\ seq' = seq /\ wire' = wire
        BY <2>3 DEF SameSide
      <4> QED
        BY SMTT(30), <2>11, <2>13, <4>1, <4>2, LastFacts, SidesFacts DEF Ready
    <3> QED
      BY SMTT(30), <2>4, <2>5, <2>10, <3>1 DEF SessionInv, Stage, Exchanges
  <2>14. CASE Acked(7)
    <3>1. Waits("client", 7)' <=> Waits("client", 7)
      BY <2>3 DEF Waits, SameSide
    <3>2. (One("client")' <=> One("client")) /\ (AckFirst("client")' <=> AckFirst("client"))
      BY <2>3 DEF One, AckFirst, Is
    <3>3. 7 + 1 = 8 /\ Stands("server", 8)'
      BY SMTT(30), <2>3, <2>6 DEF Stands, At
    <3>4. Acked(7)'
      BY SMTT(30), <2>3, <2>11, <2>14, <3>1, <3>2, <3>3, LastFacts, SidesFacts DEF Acked
    <3> QED
      BY SMTT(30), <2>4, <2>5, <2>10, <3>4 DEF SessionInv, Stage, Exchanges
  <2> QED
    BY <2>12, <2>13, <2>14
<1> QED
  BY <1>1, <1>2
=============================================================================
