----------------------------- MODULE FiprProofs -----------------------------
(***************************************************************************)
(* Proofs about Fipr.  FiprStageProofs defines the stages of a session and *)
(* has the steps that send; here are the steps that read, the invariant    *)
(* that both give, and what it says: the two counters agree, and the       *)
(* client reports what happened to the fragment.                           *)
(***************************************************************************)
EXTENDS FiprStageProofs

LEMMA MalformedKeeps ==
  ASSUME SessionInv, NEW z \in Sides, RecvMalformed(z)
  PROVE  SessionInv' /\ z = "server" /\ pc[z] = 2
<1> DEFINE f == Head(wire[z])
           r == Frame(z, seq[z] + 1, "resend", f.sequence)
<1>1. /\ Functions /\ Typed(z) /\ Alone(z) /\ Side(z) /\ Peer(z) # z /\ Peer(z) \in Sides
      /\ SameSide(Peer(z)) /\ UNCHANGED <<oboFull, routed>>
  BY ZenonT(30), SidesFacts, OwnStep DEF SessionInv, Side
<1>2. Reading(z) /\ wire[z] # <<>> /\ ~f.full
  BY ZenonT(30) DEF RecvMalformed
<1>3. z = "server" /\ Sent(2)
  <2>1. ASSUME NEW k \in Exchanges, z = Reader(k), Sent(k)
        PROVE  k = 2
    <3>1. One(z) /\ Is(wire[z][1], seq[z], OpOf(k))
      BY ZenonT(30), <1>2, <2>1 DEF Sent, Reading
    <3>2. f = wire[z][1]
      BY ZenonT(30), <3>1, WireFacts DEF One
    <3>3. OpOf(k) = "obo"
      BY ZenonT(30), <1>2, <3>1, <3>2 DEF Is
    <3> QED
      BY SMTT(30), <2>1, <3>3, OpFacts, ExchangeFacts, LastFacts DEF Exchanges
  <2>2. ASSUME NEW k \in 1 .. 7, z = Sender(k), Acked(k) \/ Chained(k)
        PROVE  FALSE
    <3>1. (One(z) \/ Two(z)) /\ Is(wire[z][1], seq[z], "ack")
      BY ZenonT(30), <1>2, <2>2 DEF Acked, Chained, Reading, AckFirst
    <3>2. f = wire[z][1]
      BY <3>1, WireFacts DEF One, Two
    <3> QED
      BY ZenonT(30), <1>2, <3>1, <3>2 DEF Is
  <2>3. ~(z = "client" /\ Asked)
    <3> SUFFICES ASSUME z = "client", Asked PROVE FALSE
      OBVIOUS
    <3>1. One(z) /\ Is(wire[z][1], seq[z], "resend")
      BY ZenonT(30), <1>2 DEF Asked, Reading
    <3>2. f = wire[z][1]
      BY ZenonT(30), <3>1, WireFacts DEF One
    <3> QED
      BY ZenonT(30), <1>2, <3>1, <3>2 DEF Is
  <2>4. Reader(2) = "server"
    BY DEF Reader, Sender, Peer
  <2> HIDE DEF f
  <2> QED
    BY ZenonT(30), <1>2, <2>1, <2>2, <2>3, <2>4, ReadsWhere
<1>4. /\ Sender(2) = "client" /\ Reader(2) = "server" /\ Peer(z) = "client"
      /\ BothOpen <=> Open("client")
  BY <1>2, <1>3 DEF Reader, Sender, Peer, Reading, BothOpen
<1>5. /\ Open(z) /\ tries[z] < MaxConsecutiveResends
      /\ pc[z] = 2 /\ mode[z] = "step" /\ One(z) /\ Is(wire[z][1], seq[z], "obo")
  BY ZenonT(30), <1>2, <1>3, <1>4, OpFacts DEF Sent, Reading
<1>6. f.sequence = seq[z] /\ Tail(wire[z]) = <<>>
  <2>1. wire[z] = <<wire[z][1]>> /\ wire[z][1].sequence = seq[z]
    BY ZenonT(30), <1>5 DEF One, Is
  <2>2. Head(<<wire[z][1]>>) = wire[z][1] /\ Tail(<<wire[z][1]>>) = <<>>
    BY Zenon, WireFacts
  <2> QED
    BY Zenon, <2>1, <2>2
<1>7. Is(r, seq[z] + 1, "resend") /\ r.arg = f.sequence
  BY ZenonT(30) DEF Is, Frame
<1> HIDE DEF f, r
<1>8. /\ wire'[z] = <<>>
      /\ wire'["client"] = IF Open("client") THEN Append(wire["client"], r) ELSE wire["client"]
  BY ZenonT(30), <1>1, <1>4, <1>6 DEF RecvMalformed, Written, Rest, Functions, IsFun, r, f
<1>9. /\ seq'[z] = seq[z] + 2 /\ tries'[z] = tries[z] + 1
      /\ sentFrames'[z] = {g \in sentFrames[z] : g.op # "resend"} \union {r}
      /\ result'[z] = IF Open("client") THEN "none" ELSE "error"
      /\ UNCHANGED <<pc, mode, state, wants, ackTries>>
  BY ZenonT(30), <1>1, <1>4 DEF RecvMalformed, End, Functions, IsFun, r, f
<1>10. Typed(z)'
  <2>1. \A g \in sentFrames'[z] : g.op \in Ops /\ g.sequence \in Nat /\ g.sequence < seq'[z]
    BY SMTT(30), <1>1, <1>7, <1>9 DEF Typed, Is, Ops
  <2>2. tries'[z] \in 0 .. MaxConsecutiveResends /\ seq'[z] \in Nat
    BY SMTT(30), <1>1, <1>5, <1>9, FiprAssumption DEF Typed
  <2>3. result'[z] \in {"none", "ok", "reroute", "error"}
    BY ZenonT(30), <1>9
  <2> QED
    BY ZenonT(30), <1>1, <1>9, <2>1, <2>2, <2>3 DEF Typed
<1>11. Alone(z)'
  BY ZenonT(30), <1>1, <1>3, <1>5, <1>9 DEF Alone, Open
<1>12. CASE ~Open("client")
  <2>1. Stage'
    BY ZenonT(30), <1>1, <1>4, <1>8, <1>9, <1>12, StageEnds DEF SessionInv
  <2> QED
    BY ZenonT(30), <1>1, <1>3, <1>5, <1>10, <1>11, <2>1, Finish
<1>13. CASE Open("client")
  <2>1. /\ Waits("client", 2) /\ wire["client"] = <<>> /\ KeepsObo
        /\ seq["client"] = seq["server"] + 1 /\ wants["client"] = seq["server"]
        /\ tries["server"] = ackTries["client"]
    BY ZenonT(30), <1>3, <1>4, <1>13 DEF Sent
  <2>2. One("client")' /\ wire'["client"][1] = r
    BY SMTT(30), <1>8, <1>13, <2>1, WireFacts DEF One
  <2>3. Waits("client", 2)' /\ KeepsObo'
    BY SMTT(30), <1>1, <1>4, <2>1 DEF Waits, KeepsObo, SameSide
  <2>4. Is(wire["client"][1], seq["client"], "resend")' /\ wire'["client"][1].arg = wants'["client"]
    BY SMTT(30), <1>1, <1>3, <1>4, <1>6, <1>7, <2>1, <2>2 DEF Is, SameSide
  <2>5. Stands("server", 2)' /\ wire'["server"] = <<>>
    BY ZenonT(30), <1>3, <1>5, <1>8, <1>9 DEF Stands, At
  <2>6. seq'["server"] = seq'["client"] + 1 /\ tries'["server"] = ackTries'["client"] + 1
    <3>1. seq["server"] \in Nat
      BY ZenonT(30), <1>1, <1>3 DEF Typed
    <3> QED
      BY SMTT(30), <1>1, <1>3, <1>4, <1>9, <2>1, <3>1 DEF SameSide
  <2>7. Asked'
    BY ZenonT(30), <2>2, <2>3, <2>4, <2>5, <2>6 DEF Asked
  <2>8. Stage'
    BY ZenonT(30), <2>7 DEF Stage
  <2> QED
    BY ZenonT(30), <1>1, <1>3, <1>5, <1>10, <1>11, <2>8, Finish
<1> QED
  BY ZenonT(30), <1>12, <1>13

LEMMA AckKeeps ==
  ASSUME SessionInv, NEW z \in Sides, RecvAck(z)
  PROVE  /\ SessionInv'
         /\ \E k \in 1 .. 7 : z = Sender(k) /\ pc[z] = k /\ (Acked(k) \/ Chained(k))
         /\ wire'[z] = Tail(wire[z]) /\ wire'[Peer(z)] = wire[Peer(z)]
         /\ result'[z] = "none" \/ (Step(z).op = "shardStatus" /\ result'[z] = "ok")
<1> DEFINE f == Head(wire[z])
           y == Peer(z)
<1>1. /\ Functions /\ Typed(z) /\ Alone(z) /\ Side(z) /\ y # z /\ y \in Sides
      /\ SameSide(y) /\ UNCHANGED <<oboFull, routed>>
  BY ZenonT(30), SidesFacts, OwnStep DEF SessionInv, Side
<1>2. Reading(z) /\ wire[z] # <<>> /\ f.op = "ack" /\ Open(z)
  BY ZenonT(30) DEF RecvAck, Reading
<1>3. PICK k \in 1 .. 7 : z = Sender(k) /\ (Acked(k) \/ Chained(k))
  <2>1. ASSUME NEW k \in Exchanges, z = Reader(k), Sent(k)
        PROVE  FALSE
    <3>1. One(z) /\ Is(wire[z][1], seq[z], OpOf(k))
      BY ZenonT(30), <1>2, <2>1 DEF Sent
    <3>2. f = wire[z][1]
      BY ZenonT(30), <3>1, WireFacts DEF One
    <3>3. OpOf(k) = "ack"
      BY ZenonT(30), <1>2, <3>1, <3>2 DEF Is
    <3> QED
      BY SMTT(30), <2>1, <3>3, OpFacts, ExchangeFacts, LastFacts DEF Exchanges
  <2>2. ~(z = "client" /\ Asked)
    <3> SUFFICES ASSUME z = "client", Asked PROVE FALSE
      OBVIOUS
    <3>1. One(z) /\ Is(wire[z][1], seq[z], "resend")
      BY ZenonT(30), <1>2 DEF Asked
    <3>2. f = wire[z][1]
      BY ZenonT(30), <3>1, WireFacts DEF One
    <3> QED
      BY ZenonT(30), <1>2, <3>1, <3>2 DEF Is
  <2> HIDE DEF f
  <2> QED
    BY ZenonT(30), <1>2, <2>1, <2>2, ReadsWhere
<1>4. /\ Waits(z, k) /\ AckFirst(z)
      /\ Acked(k) => One(z)
      /\ Chained(k) => Two(z)
      /\ y = Reader(k) /\ k \in Exchanges /\ k + 1 \in Exchanges
  BY <1>2, <1>3 DEF Acked, Chained, Reader, Exchanges
<1>5. f = wire[z][1]
  BY <1>3, <1>4, WireFacts DEF One, Two
<1>6. f.arg = wants[z]
  BY ZenonT(30), <1>4, <1>5 DEF AckFirst
<1> HIDE DEF f, y
<1>7. /\ wire'[z] = Tail(wire[z]) /\ wire'[y] = wire[y] /\ seq'[z] = seq[z] + 1
  BY ZenonT(30), <1>1 DEF RecvAck, Rest, Functions, IsFun
<1>8. /\ sentFrames' = [sentFrames EXCEPT ![z] = {g \in @ : g.sequence # f.arg}]
      /\ state' = [state EXCEPT ![z] = "started"]
      /\ \/ Step(z).op = "shardStatus" /\ End(z, "ok") /\ UNCHANGED <<pc, mode, tries, ackTries>>
         \/ Advance(z) /\ UNCHANGED result
      /\ wants' = wants
  BY ZenonT(30), <1>6 DEF RecvAck, f
<1>9. sentFrames'[z] \subseteq sentFrames[z] /\ state'[z] = "started"
  BY ZenonT(30), <1>1, <1>8 DEF Functions, IsFun
<1>10. \A g \in sentFrames'[z] : g.op \in Ops /\ g.sequence \in Nat /\ g.sequence < seq'[z]
  BY SMTT(30), <1>1, <1>7, <1>9 DEF Typed
<1>11. pc[z] = k /\ mode[z] = "ack"
  BY ZenonT(30), <1>4 DEF Waits
<1>12. CASE Step(z).op = "shardStatus" /\ End(z, "ok") /\ UNCHANGED <<pc, mode, tries, ackTries>>
  <2>1. result'[z] = "ok"
    BY ZenonT(30), <1>1, <1>12 DEF End, Functions, IsFun
  <2>2. Typed(z)'
    BY SMTT(30), <1>1, <1>7, <1>8, <1>9, <1>10, <1>12, <2>1 DEF Typed
  <2> QED
    BY ZenonT(30), <1>1, <1>3, <1>7, <1>11, <1>12, <2>1, <2>2, EndsKeep DEF y
<1>13. CASE Advance(z) /\ UNCHANGED result
  <2>1. pc'[z] = k + 1 /\ mode'[z] = "step" /\ tries'[z] = 0 /\ ackTries'[z] = 0
    BY ZenonT(30), <1>1, <1>11, <1>13 DEF Advance, Functions, IsFun
  <2>2. Len(Script[z]) >= 8
    BY ZenonT(30), ScriptLengths
  <2>3. Typed(z)'
    <3>1. Len(Script[z]) \in Nat
      BY ClientFacts, ServerFacts, SidesFacts
    <3>2. pc'[z] \in 1 .. Len(Script[z])
      BY <2>1, <2>2, <3>1
    <3>3. ackTries'[z] \in 0 .. MaxConsecutiveResends - 1 /\ tries'[z] \in 0 .. MaxConsecutiveResends
      BY <2>1, FiprAssumption
    <3>4. seq'[z] \in Nat /\ wants'[z] \in Nat /\ result'[z] = result[z]
      BY SMTT(30), <1>1, <1>7, <1>8, <1>13 DEF Typed
    <3> QED
      BY ZenonT(30), <1>1, <1>9, <1>10, <2>1, <3>2, <3>3, <3>4 DEF Typed
  <2>4. Alone(z)'
    BY ZenonT(30), <1>9, <2>1 DEF Alone
  <2>5. Open(z)' /\ (Open(y)' <=> Open(y)) /\ (BothOpen <=> Open(y)) /\ (BothOpen' <=> Open(y))
    BY ZenonT(30), <1>1, <1>2, <1>13, SidesFacts DEF Open, BothOpen
  <2>6. /\ (At(y, k + 1)' <=> At(y, k + 1)) /\ (Stands(y, k + 1)' <=> Stands(y, k + 1))
        /\ (Waits(y, k + 1)' <=> Waits(y, k + 1))
        /\ pc'[y] = pc[y] /\ mode'[y] = mode[y] /\ seq'[y] = seq[y] /\ wants'[y] = wants[y]
        /\ tries'[y] = tries[y] /\ ackTries'[y] = ackTries[y]
    BY ZenonT(30), <1>1 DEF At, Stands, Waits, SameSide
  <2>7. CASE Acked(k)
    <3>1. wire'[z] = <<>>
      <4>1. wire[z] = <<wire[z][1]>> /\ wire'[z] = Tail(wire[z])
        BY ZenonT(30), <1>4, <1>7, <2>7 DEF One
      <4>2. Tail(<<wire[z][1]>>) = <<>>
        BY Zenon, WireFacts
      <4> QED
        BY ZenonT(30), <4>1, <4>2
    <3>2. Stands(z, k + 1)'
      BY ZenonT(30), <2>1 DEF Stands, At
    <3>3. Open(y) => /\ Stands(y, k + 1) /\ wire[y] = <<>> /\ tries[y] = 0 /\ seq[y] = seq'[z]
      BY ZenonT(30), <1>3, <1>4, <1>7, <2>5, <2>7 DEF Acked
    <3>4. (Sender(k + 1) = z /\ Reader(k + 1) = y) \/ (Sender(k + 1) = y /\ Reader(k + 1) = z)
      <4>1. /\ Sender(k + 1) \in Sides /\ Reader(k + 1) \in Sides /\ Sender(k + 1) # Reader(k + 1)
            /\ \A x \in Sides : x = Sender(k + 1) \/ x = Reader(k + 1)
        BY ZenonT(30), <1>4, TurnFacts
      <4> QED
        BY ZenonT(30), <1>1, <4>1
    <3>5. Reader(k + 1) = y /\ Stands(y, k + 1) => pc[y] = k + 1 /\ mode[y] = "step"
      <4>1. k + 1 = 8 => Reader(k + 1) = "client"
        BY ZenonT(30), LastFacts
      <4> QED
        BY ZenonT(30), <4>1, SidesFacts DEF Stands, At
    <3>6. BothOpen' => seq'["client"] = seq'["server"]
      BY ZenonT(30), <1>1, <2>5, <2>6, <3>3, SidesFacts DEF y
    <3>7. Ready(k + 1)'
      <4>1. CASE Sender(k + 1) = z /\ Reader(k + 1) = y
        BY ZenonT(30), <1>7, <2>5, <2>6, <3>1, <3>2, <3>3, <3>5, <3>6, <4>1 DEF Ready
      <4>2. CASE Sender(k + 1) = y /\ Reader(k + 1) = z
        BY ZenonT(30), <1>7, <2>1, <2>5, <2>6, <3>1, <3>3, <3>6, <4>2 DEF Ready
      <4> QED
        BY ZenonT(30), <3>4, <4>1, <4>2
    <3>8. Stage'
      BY ZenonT(30), <1>4, <3>7 DEF Stage
    <3> QED
      BY ZenonT(30), <1>1, <1>2, <1>3, <1>7, <1>11, <1>13, <2>3, <2>4, <3>8, Finish DEF Open, y
  <2>8. CASE Chained(k)
    <3>1. wire'[z] = <<wire[z][2]>>
      <4>1. wire[z] = <<wire[z][1], wire[z][2]>> /\ wire'[z] = Tail(wire[z])
        BY ZenonT(30), <1>4, <1>7, <2>8 DEF Two
      <4>2. Tail(<<wire[z][1], wire[z][2]>>) = <<wire[z][2]>>
        BY Zenon, WireFacts
      <4> QED
        BY ZenonT(30), <4>1, <4>2
    <3>2. One(z)' /\ wire'[z][1] = wire[z][2]
      BY SMTT(30), <3>1, WireFacts DEF One
    <3>3. Is(wire[z][2], seq[z] + 1, OpOf(k + 1)) /\ OpOf(k + 1)' = OpOf(k + 1)
      BY ZenonT(30), <1>1, <1>2, <1>3, <2>8 DEF Chained, OpOf, Verdict
    <3>4. Is(wire[z][1], seq[z], OpOf(k + 1))'
      BY ZenonT(30), <1>1, <1>7, <3>2, <3>3 DEF Is
    <3>5. Sender(k + 1) = y /\ Reader(k + 1) = z /\ k + 1 # 2 /\ k \in {3, 4, 5, 6, 7}
      <4>1. k \in {3, 4, 5, 6, 7}
        BY <2>8 DEF Chained
      <4> QED
        BY <1>3, <1>4, <4>1 DEF Sender, Reader, Peer
    <3>6. Open(y) => /\ Waits(y, k + 1) /\ wire[y] = <<>> /\ k + 1 # 8
                     /\ seq[y] = seq[z] + 2 /\ wants[y] = seq[z] + 1 /\ ackTries[y] = 0
      BY <1>3, <1>4, <2>5, <2>8 DEF Chained
    <3>7. Open(y) => seq'[y] = seq'[z] + 1 /\ wants'[y] = seq'[z] /\ tries'[z] = ackTries'[y]
      <4>1. seq[z] \in Nat
        BY ZenonT(30), <1>1 DEF Typed
      <4>2. seq'[z] = seq[z] + 1
        BY ZenonT(30), <1>7
      <4> QED
        BY <2>1, <2>6, <3>6, <4>1, <4>2
    <3>8. Sent(k + 1)'
      BY ZenonT(30), <1>7, <2>1, <2>5, <2>6, <3>2, <3>4, <3>5, <3>6, <3>7 DEF Sent
    <3>9. Stage'
      BY ZenonT(30), <1>4, <3>8 DEF Stage
    <3> QED
      BY <1>1, <1>2, <1>3, <1>7, <1>11, <1>13, <2>3, <2>4, <3>9, Finish DEF Open, y
  <2> QED
    BY ZenonT(30), <1>3, <2>7, <2>8
<1> QED
  BY ZenonT(30), <1>8, <1>12, <1>13

LEMMA ResendKeeps ==
  ASSUME SessionInv, NEW z \in Sides, RecvResend(z)
  PROVE  SessionInv' /\ z = "client" /\ Asked /\ result'[z] \in {"none", "error"}
<1> DEFINE f == Head(wire[z])
           old == {g \in sentFrames[z] : g.sequence = f.arg}
           new == LET g == CHOOSE g \in old : TRUE IN Frame(z, seq[z] + 1, g.op, g.arg)
<1>1. /\ Functions /\ Typed(z) /\ Alone(z) /\ Side(z) /\ Peer(z) # z /\ Peer(z) \in Sides
      /\ SameSide(Peer(z)) /\ UNCHANGED <<oboFull, routed>>
  BY ZenonT(30), SidesFacts, OwnStep DEF SessionInv, Side
<1>2. Reading(z) /\ wire[z] # <<>> /\ f.op = "resend" /\ Open(z)
  BY ZenonT(30) DEF RecvResend, Reading
<1>3. z = "client" /\ Asked
  <2>1. ASSUME NEW k \in Exchanges, z = Reader(k), Sent(k)
        PROVE  FALSE
    <3>1. One(z) /\ Is(wire[z][1], seq[z], OpOf(k))
      BY ZenonT(30), <1>2, <2>1 DEF Sent
    <3>2. f = wire[z][1]
      BY ZenonT(30), <3>1, WireFacts DEF One
    <3>3. OpOf(k) = "resend"
      BY ZenonT(30), <1>2, <3>1, <3>2 DEF Is
    <3> QED
      BY <2>1, <3>3, OpFacts, ExchangeFacts, LastFacts DEF Exchanges
  <2>2. ASSUME NEW k \in 1 .. 7, z = Sender(k), Acked(k) \/ Chained(k)
        PROVE  FALSE
    <3>1. (One(z) \/ Two(z)) /\ Is(wire[z][1], seq[z], "ack")
      BY ZenonT(30), <1>2, <2>2 DEF Acked, Chained, AckFirst
    <3>2. f = wire[z][1]
      BY <3>1, WireFacts DEF One, Two
    <3> QED
      BY ZenonT(30), <1>2, <3>1, <3>2 DEF Is
  <2> HIDE DEF f
  <2> QED
    BY ZenonT(30), <1>2, <2>1, <2>2, ReadsWhere
<1>4. /\ Peer(z) = "server" /\ (BothOpen <=> Open("server"))
      /\ pc[z] = 2 /\ mode[z] = "ack" /\ KeepsObo /\ One(z)
      /\ Is(wire[z][1], seq[z], "resend") /\ wire[z][1].arg = wants[z]
  BY ZenonT(30), <1>2, <1>3, SidesFacts DEF Asked, Waits, BothOpen
<1>5. f = wire[z][1] /\ Tail(wire[z]) = <<>>
  <2>1. wire[z] = <<wire[z][1]>>
    BY ZenonT(30), <1>4 DEF One
  <2>2. Head(<<wire[z][1]>>) = wire[z][1] /\ Tail(<<wire[z][1]>>) = <<>>
    BY Zenon, WireFacts
  <2> QED
    BY Zenon, <2>1, <2>2
<1>6. f.arg = wants[z]
  BY ZenonT(30), <1>4, <1>5
<1>7. ASSUME old # {}
      PROVE  Is(new, seq[z] + 1, "obo")
  <2> DEFINE g == CHOOSE g \in old : TRUE
  <2>1. g \in old
    BY ZenonT(30), <1>7
  <2>2. g.op = "obo"
    BY ZenonT(30), <1>3, <1>4, <1>6, <2>1 DEF KeepsObo
  <2> HIDE DEF g, old
  <2>3. new = Frame(z, seq[z] + 1, g.op, g.arg)
    BY ZenonT(30) DEF g
  <2> HIDE DEF new
  <2> QED
    BY ZenonT(30), <2>2, <2>3 DEF Frame, Is
<1>8. /\ wire' = Rest(z) => wire'[z] = <<>> /\ wire'["server"] = wire["server"]
      /\ Open("server") /\ wire' = Written(z, Rest(z), new) =>
           wire'[z] = <<>> /\ wire'["server"] = Append(wire["server"], new)
  <2> HIDE DEF new, f
  <2> DEFINE r == Rest(z)
  <2>1. r = [x \in Sides |-> r[x]] /\ r[z] = <<>> /\ r["server"] = wire["server"]
    BY ZenonT(30), <1>1, <1>4, <1>5 DEF Rest, Functions, IsFun
  <2> HIDE DEF r
  <2>2. Open("server") => Written(z, r, new) = [r EXCEPT !["server"] = Append(@, new)]
    BY ZenonT(30), <1>4 DEF Written
  <2> DEFINE w == [r EXCEPT !["server"] = Append(@, new)]
  <2>3. w[z] = <<>> /\ w["server"] = Append(wire["server"], new)
    BY ZenonT(30), <1>1, <1>4, <2>1
  <2> HIDE DEF w
  <2> QED
    BY ZenonT(30), <2>1, <2>2, <2>3 DEF r, w
<1> HIDE DEF f, new, old
<1>9. CASE old = {} \/ ~Open("server")
  <2>1. /\ state' = [state EXCEPT ![z] = "closed"] /\ End(z, "error")
        /\ wire' = Rest(z) /\ seq' = [seq EXCEPT ![z] = @ + 1]
        /\ UNCHANGED <<pc, mode, tries, ackTries, sentFrames, wants>>
    BY ZenonT(30), <1>4, <1>9 DEF RecvResend, old, f
  <2>2. state'[z] = "closed" /\ result'[z] = "error" /\ seq'[z] = seq[z] + 1
    BY ZenonT(30), <1>1, <2>1 DEF End, Functions, IsFun
  <2>3. Typed(z)'
    BY <1>1, <2>1, <2>2 DEF Typed
  <2> QED
    BY <1>1, <1>3, <1>4, <1>8, <2>1, <2>2, <2>3, EndsKeep
<1>10. CASE old # {} /\ Open("server")
  <2>1. /\ wire' = Written(z, Rest(z), new)
        /\ seq' = [seq EXCEPT ![z] = @ + 2]
        /\ sentFrames' = [sentFrames EXCEPT ![z] = {g \in @ : g.sequence # wants[z]} \union {new}]
        /\ wants' = [wants EXCEPT ![z] = new.sequence]
        /\ IF LastRound(z) THEN Advance(z)
           ELSE ackTries' = [ackTries EXCEPT ![z] = @ + 1] /\ UNCHANGED <<pc, mode, tries>>
        /\ UNCHANGED <<state, result>>
    BY ZenonT(30), <1>4, <1>10 DEF RecvResend, old, new, f
  <2>2. /\ wire'[z] = <<>> /\ wire'["server"] = Append(wire["server"], new)
        /\ seq'[z] = seq[z] + 2 /\ wants'[z] = new.sequence
        /\ sentFrames'[z] = {g \in sentFrames[z] : g.sequence # wants[z]} \union {new}
    BY ZenonT(30), <1>1, <1>8, <1>10, <2>1 DEF Functions, IsFun
  <2>3. Is(new, seq[z] + 1, "obo") /\ seq[z] \in Nat
    BY ZenonT(30), <1>1, <1>7, <1>10 DEF Typed
  <2>4. /\ Stands("server", 2) /\ wire["server"] = <<>> /\ seq["server"] = seq[z] + 1
        /\ tries["server"] = ackTries[z] + 1
    BY ZenonT(30), <1>3, <1>4, <1>10 DEF Asked
  <2>5. One("server")' /\ wire'["server"][1] = new
    BY <2>2, <2>4, WireFacts DEF One
  <2>6. seq'["server"] = seq[z] + 1 /\ Is(wire["server"][1], seq["server"], "obo")'
    BY <1>1, <1>4, <2>3, <2>4, <2>5 DEF Is, SameSide
  <2>7. Stands("server", 2)' /\ tries'["server"] = ackTries[z] + 1
    BY <1>1, <1>4, <2>4 DEF Stands, At, SameSide
  <2>8. Open(z)' /\ Open("server")' /\ BothOpen'
    BY ZenonT(30), <1>2, <1>3, <1>10, <2>1 DEF Open, BothOpen
  <2>9. seq'[z] = seq'["server"] + 1 /\ wants'[z] = seq'["server"]
    BY <2>2, <2>3, <2>6 DEF Is
  <2>10. \A g \in sentFrames'[z] : g.op \in Ops /\ g.sequence \in Nat /\ g.sequence < seq'[z]
    BY <1>1, <2>2, <2>3 DEF Typed, Is, Ops
  <2>11. KeepsObo'
    <3> SUFFICES ASSUME NEW g \in sentFrames'["client"], g.sequence = wants'["client"]
                 PROVE  g.op = "obo"
      BY ZenonT(30) DEF KeepsObo
    <3>1. g = new \/ (g \in sentFrames[z] /\ g.sequence < seq[z])
      BY ZenonT(30), <1>1, <1>3, <2>2 DEF Typed
    <3>2. wants'["client"] = seq[z] + 1
      BY ZenonT(30), <1>3, <2>2, <2>3 DEF Is
    <3>3. g = new
      BY <2>3, <3>1, <3>2
    <3> QED
      BY ZenonT(30), <2>3, <3>3 DEF Is
  <2>12. OpOf(2)' = "obo" /\ Sender(2) = "client" /\ Reader(2) = "server"
    BY DEF OpOf, ClientScript, Send, Sender, Reader, Peer
  <2>13. CASE LastRound(z)
    <3>1. pc'[z] = 3 /\ mode'[z] = "step" /\ tries'[z] = 0 /\ ackTries'[z] = 0
      BY SMTT(30), <1>1, <1>4, <2>1, <2>13 DEF Advance, Functions, IsFun
    <3>2. Typed(z)'
      <4>1. pc'[z] \in 1 .. Len(Script[z])
        BY SMTT(30), <1>3, <3>1, ClientFacts
      <4>2. ackTries'[z] \in 0 .. MaxConsecutiveResends - 1 /\ tries'[z] \in 0 .. MaxConsecutiveResends
        BY <3>1, FiprAssumption
      <4>3. wants'[z] \in Nat /\ seq'[z] \in Nat
        BY SMTT(30), <2>2, <2>3 DEF Is
      <4> QED
        BY ZenonT(30), <1>1, <2>1, <2>10, <3>1, <4>1, <4>2, <4>3 DEF Typed
    <3>3. Alone(z)'
      BY ZenonT(30), <1>1, <1>2, <2>1, <3>1 DEF Alone, Open
    <3>4. tries'["server"] = MaxConsecutiveResends
      BY ZenonT(30), <2>7, <2>13 DEF LastRound
    <3>5. ~Two("server")'
      BY SMTT(30), <2>5 DEF One, Two
    <3>6. Doomed'
      BY ZenonT(30), <1>3, <2>2, <2>5, <2>6, <2>7, <2>9, <3>1, <3>4, <3>5 DEF Doomed
    <3>7. Stage'
      BY ZenonT(30), <3>6 DEF Stage
    <3> QED
      BY ZenonT(30), <1>1, <1>2, <1>3, <1>4, <2>1, <3>2, <3>3, <3>7, Finish DEF Open
  <2>14. CASE ~LastRound(z)
    <3>1. /\ ackTries'[z] = ackTries[z] + 1 /\ UNCHANGED <<pc, mode, tries>>
      BY ZenonT(30), <1>1, <2>1, <2>14 DEF Functions, IsFun
    <3>2. Typed(z)'
      <4>1. ackTries'[z] \in 0 .. MaxConsecutiveResends - 1
        BY SMTT(30), <1>1, <2>14, <3>1, FiprAssumption DEF Typed, LastRound
      <4>2. wants'[z] \in Nat /\ seq'[z] \in Nat
        BY <2>2, <2>3 DEF Is
      <4> QED
        BY ZenonT(30), <1>1, <2>1, <2>10, <3>1, <4>1, <4>2 DEF Typed
    <3>3. Alone(z)'
      BY ZenonT(30), <1>1, <1>2, <1>4, <2>1, <3>1 DEF Alone, Open
    <3>4. Waits("client", 2)'
      BY ZenonT(30), <1>3, <1>4, <3>1 DEF Waits
    <3>5. pc'["server"] = 2 /\ mode'["server"] = "step"
      BY <2>7 DEF Stands, At
    <3>6. tries'["server"] = ackTries'["client"]
      BY ZenonT(30), <1>3, <2>7, <3>1
    <3>7. Sent(2)'
      BY SMTT(30), <1>3, <2>2, <2>5, <2>6, <2>9, <2>11, <2>12, <3>4, <3>5, <3>6 DEF Sent
    <3>8. Stage'
      BY <3>7 DEF Stage, Exchanges
    <3> QED
      BY ZenonT(30), <1>1, <1>2, <1>3, <1>4, <2>1, <3>2, <3>3, <3>8, Finish DEF Open
  <2> QED
    BY ZenonT(30), <2>13, <2>14
<1> QED
  BY ZenonT(30), <1>9, <1>10

LEMMA OpKeeps ==
  ASSUME SessionInv, NEW z \in Sides, RecvOp(z)
  PROVE  /\ SessionInv'
         /\ \E k \in Exchanges : /\ z = Reader(k) /\ pc[z] = k /\ Sent(k)
                                 /\ k = 8 => /\ wire[z][1].op = "accepted" /\ result'[z] = "ok"
                                             /\ wire'[Peer(z)] = wire[Peer(z)]
                                 /\ k = 7 => Open("client") \/ ~Open(z)'
                                 /\ k # 8 => result'[z] # "ok"
                                 /\ k # 8 /\ Open(z)' => pc'[z] = k + 1
<1> DEFINE f == Head(wire[z])
           y == Peer(z)
           a == Frame(z, seq[z] + 1, "ack", f.sequence)
           lost == Acknowledges(f) /\ ~Open(y)
<1>1. /\ Functions /\ Typed(z) /\ Alone(z) /\ Side(z) /\ y # z /\ y \in Sides
      /\ SameSide(y) /\ UNCHANGED <<oboFull, routed>>
  BY ZenonT(30), SidesFacts, OwnStep DEF SessionInv, Side
<1>2. Reading(z) /\ wire[z] # <<>> /\ f.op \notin {"ack", "resend"} /\ Open(z) /\ ~Refuses(z, f)
  BY ZenonT(30) DEF RecvOp, Reading
<1>3. PICK k \in Exchanges : z = Reader(k) /\ Sent(k)
  <2>1. ASSUME NEW k \in 1 .. 7, z = Sender(k), Acked(k) \/ Chained(k)
        PROVE  FALSE
    <3>1. (One(z) \/ Two(z)) /\ Is(wire[z][1], seq[z], "ack")
      BY ZenonT(30), <1>2, <2>1 DEF Acked, Chained, AckFirst
    <3>2. f = wire[z][1]
      BY <3>1, WireFacts DEF One, Two
    <3> QED
      BY ZenonT(30), <1>2, <3>1, <3>2 DEF Is
  <2>2. ~(z = "client" /\ Asked)
    <3> SUFFICES ASSUME z = "client", Asked PROVE FALSE
      BY ZenonT(30)
    <3>1. One(z) /\ Is(wire[z][1], seq[z], "resend")
      BY <1>2 DEF Asked
    <3>2. f = wire[z][1]
      BY ZenonT(30), <3>1, WireFacts DEF One
    <3> QED
      BY ZenonT(30), <1>2, <3>1, <3>2 DEF Is
  <2> HIDE DEF f
  <2> QED
    BY ZenonT(30), <1>2, <2>1, <2>2, ReadsWhere
<1>4. /\ pc[z] = k /\ mode[z] = "step" /\ One(z) /\ Is(wire[z][1], seq[z], OpOf(k))
      /\ y = Sender(k) /\ (BothOpen <=> Open(y))
  BY ZenonT(30), <1>2, <1>3, TurnFacts DEF Sent
<1>5. f = wire[z][1] /\ Tail(wire[z]) = <<>>
  <2>1. wire[z] = <<wire[z][1]>>
    BY <1>4 DEF One
  <2>2. Head(<<wire[z][1]>>) = wire[z][1] /\ Tail(<<wire[z][1]>>) = <<>>
    BY ZenonT(30), WireFacts
  <2> QED
    BY Zenon, <2>1, <2>2
<1>6. f.op = OpOf(k) /\ f.sequence = seq[z]
  BY ZenonT(30), <1>4, <1>5 DEF Is
<1>7. Is(a, seq[z] + 1, "ack") /\ a.arg = seq[z]
  BY ZenonT(30), <1>6 DEF Is, Frame
<1> HIDE DEF f, y, a
<1>8. /\ wire' = Rest(z) => wire'[z] = <<>> /\ wire'[y] = wire[y]
      /\ wire' = Written(z, Rest(z), a) =>
           wire'[z] = <<>> /\ wire'[y] = IF Open(y) THEN Append(wire[y], a) ELSE wire[y]
  BY ZenonT(30), <1>1, <1>5 DEF Written, Rest, Functions, IsFun, y
<1>9. /\ IF Acknowledges(f)
         THEN /\ wire' = Written(z, Rest(z), a)
              /\ seq' = [seq EXCEPT ![z] = @ + 2]
              /\ sentFrames' = [sentFrames EXCEPT ![z] = @ \union {a}]
         ELSE /\ wire' = Rest(z) /\ seq' = [seq EXCEPT ![z] = @ + 1] /\ UNCHANGED sentFrames
      /\ state' = [state EXCEPT ![z] = IF f.op = "accepted" THEN "closed" ELSE "started"]
      /\ IF lost THEN End(z, "error") ELSE End(z, Answer(z, f))
      /\ IF lost \/ Answer(z, f) # "none" THEN UNCHANGED <<pc, mode, tries, ackTries>>
         ELSE Advance(z)
      /\ wants' = wants
  BY ZenonT(30) DEF RecvOp, f, a, y
<1>10. /\ seq'[z] = seq[z] + (IF Acknowledges(f) THEN 2 ELSE 1)
       /\ sentFrames'[z] = sentFrames[z] \union (IF Acknowledges(f) THEN {a} ELSE {})
  BY ZenonT(30), <1>1, <1>9 DEF Functions, IsFun
<1>11. /\ state'[z] = (IF f.op = "accepted" THEN "closed" ELSE "started")
       /\ result'[z] = IF lost THEN "error" ELSE Answer(z, f)
  BY ZenonT(30), <1>1, <1>9 DEF End, Functions, IsFun
<1>12. Answer(z, f) \in {"none", "ok", "reroute", "error"} /\ (Answer(z, f) = "ok" <=> f.op = "accepted")
  BY ZenonT(30) DEF Answer
<1>13. \A g \in sentFrames'[z] : g.op \in Ops /\ g.sequence \in Nat /\ g.sequence < seq'[z]
  BY SMTT(30), <1>1, <1>7, <1>10 DEF Typed, Is, Ops
<1>14. seq'[z] \in Nat /\ wants'[z] \in Nat
       /\ result'[z] \in {"none", "ok", "reroute", "error"}
       /\ state'[z] \in {"init", "started", "closed"}
  BY SMTT(30), <1>1, <1>9, <1>10, <1>11, <1>12 DEF Typed
<1> HIDE DEF lost
<1>15. CASE lost \/ Answer(z, f) # "none"
  <2>1. result'[z] # "none" /\ UNCHANGED <<pc, mode, tries, ackTries>>
    BY ZenonT(30), <1>9, <1>11, <1>15
  <2>2. Typed(z)' /\ Alone(z)'
    <3>1. Typed(z)'
      BY ZenonT(30), <1>1, <1>13, <1>14, <2>1 DEF Typed
    <3>2. Alone(z)'
      BY ZenonT(30), <1>1, <2>1 DEF Alone, Open
    <3> QED
      BY ZenonT(30), <3>1, <3>2
  <2>3. CASE k = 8
    <3>1. OpOf(k) = Verdict /\ Verdict \in {"accepted", "rejected"}
      BY ZenonT(30), <2>3, OpFacts, LastFacts
    <3>2. f.op = "accepted" /\ ~Acknowledges(f)
      BY ZenonT(30), <1>2, <1>6, <3>1 DEF Refuses, Invalid, Acknowledges, requiresAck
    <3>3. wire'[y] = wire[y] /\ result'[z] = "ok"
      BY ZenonT(30), <1>8, <1>9, <1>11, <1>12, <3>2 DEF lost
    <3>4. SessionInv'
      BY ZenonT(30), <1>1, <2>1, <2>2, <3>3, EndsKeep DEF y
    <3> QED
      BY SMTT(30), <1>3, <1>4, <1>5, <2>3, <3>2, <3>3, <3>4 DEF y
  <2>4. CASE k # 8
    <3>0. k \in 1 .. 7
      BY SMTT(30), <2>4 DEF Exchanges
    <3>1. Acknowledges(f) /\ f.op # "accepted" /\ result'[z] # "ok"
      BY SMTT(30), <1>6, <1>11, <1>12, <3>0, ExchangeFacts DEF Acknowledges
    <3>2. ~Open(z)'
      BY ZenonT(30), <2>1 DEF Open
    <3>3. CASE ~Open(y)
      <4>1. wire'[y] = wire[y]
        BY ZenonT(30), <1>8, <1>9, <3>1, <3>3
      <4>2. SessionInv'
        BY ZenonT(30), <1>1, <2>1, <2>2, <4>1, EndsKeep DEF y
      <4> QED
        BY ZenonT(30), <1>3, <1>4, <2>4, <3>1, <3>2, <4>2
    <3>4. CASE Open(y)
      <4>1. /\ Waits(y, k) /\ wire[y] = <<>> /\ seq[y] = seq[z] + 1 /\ wants[y] = seq[z]
        BY ZenonT(30), <1>3, <1>4, <3>4 DEF Sent
      <4>2. wire'[y] = <<a>>
        BY ZenonT(30), <1>8, <1>9, <3>1, <3>4, <4>1, WireFacts
      <4>3. One(y)' /\ wire'[y][1] = a
        BY ZenonT(30), <4>2, WireFacts DEF One
      <4>4. AckFirst(y)' /\ Waits(y, k)'
        BY ZenonT(30), <1>1, <1>7, <4>1, <4>3 DEF AckFirst, Is, Waits, SameSide
      <4>5. ~BothOpen'
        BY ZenonT(30), <3>2, SidesFacts DEF BothOpen
      <4>6. Acked(k)'
        BY ZenonT(30), <1>3, <1>4, <2>4, <3>2, <4>3, <4>4, <4>5 DEF Acked
      <4>7. Stage'
        BY <4>6 DEF Stage
      <4>8. SessionInv'
        BY ZenonT(30), <1>1, <2>2, <4>7, Finish
      <4> QED
        BY ZenonT(30), <1>3, <1>4, <2>4, <3>1, <3>2, <4>8
    <3> QED
      BY ZenonT(30), <3>3, <3>4
  <2> QED
    BY ZenonT(30), <2>3, <2>4
<1>16. CASE ~lost /\ Answer(z, f) = "none"
  <2>1. k # 8 /\ k \in 1 .. 7
    <3>1. CASE k = 8
      <4>1. OpOf(k) = Verdict /\ Verdict \in {"accepted", "rejected"}
        BY ZenonT(30), <3>1, OpFacts, LastFacts
      <4>2. f.op = "accepted"
        BY ZenonT(30), <1>2, <1>6, <4>1 DEF Refuses, Invalid
      <4> QED
        BY ZenonT(30), <1>12, <1>16, <4>2
    <3> QED
      BY <3>1 DEF Exchanges
  <2>2. Acknowledges(f) /\ f.op # "accepted" /\ Open(y)
    BY SMTT(30), <1>6, <1>16, <2>1, ExchangeFacts DEF Acknowledges, lost
  <2>3. result'[z] = "none" /\ state'[z] = "started" /\ Open(z)'
    BY ZenonT(30), <1>11, <1>16, <2>2 DEF Open
  <2>4. pc'[z] = k + 1 /\ mode'[z] = "step" /\ tries'[z] = 0 /\ ackTries'[z] = 0
    BY ZenonT(30), <1>1, <1>4, <1>9, <1>16 DEF Advance, Functions, IsFun
  <2>5. Typed(z)' /\ Alone(z)'
    <3>1. Len(Script[z]) \in Nat /\ Len(Script[z]) >= 8
      BY ZenonT(30), ScriptLengths
    <3>2. pc'[z] \in 1 .. Len(Script[z])
      BY <2>1, <2>4, <3>1
    <3>3. ackTries'[z] \in 0 .. MaxConsecutiveResends - 1 /\ tries'[z] \in 0 .. MaxConsecutiveResends
      BY <2>4, FiprAssumption
    <3>4. Typed(z)'
      BY ZenonT(30), <1>13, <1>14, <2>4, <3>2, <3>3 DEF Typed
    <3>5. Alone(z)'
      BY ZenonT(30), <2>3, <2>4 DEF Alone
    <3> QED
      BY ZenonT(30), <3>4, <3>5
  <2>6. /\ Waits(y, k) /\ wire[y] = <<>> /\ seq[y] = seq[z] + 1 /\ wants[y] = seq[z]
    BY ZenonT(30), <1>3, <1>4, <2>2 DEF Sent
  <2>7. wire'[y] = <<a>> /\ wire'[z] = <<>>
    BY ZenonT(30), <1>8, <1>9, <2>2, <2>6, WireFacts
  <2>8. One(y)' /\ wire'[y][1] = a
    BY ZenonT(30), <2>7, WireFacts DEF One
  <2>9. AckFirst(y)' /\ Waits(y, k)'
    BY ZenonT(30), <1>1, <1>7, <2>6, <2>8 DEF AckFirst, Is, Waits, SameSide
  <2>10. Stands(z, k + 1)'
    BY ZenonT(30), <2>4 DEF Stands, At
  <2>11. seq'[z] = seq'[y] + 1
    <3>1. seq[z] \in Nat /\ seq'[y] = seq[y]
      BY ZenonT(30), <1>1 DEF Typed, SameSide
    <3> QED
      BY SMTT(30), <1>10, <2>2, <2>6, <3>1
  <2>12. Acked(k)'
    BY SMTT(30), <1>3, <1>4, <2>1, <2>4, <2>7, <2>8, <2>9, <2>10, <2>11 DEF Acked
  <2>13. Stage'
    BY ZenonT(30), <2>12 DEF Stage
  <2>14. SessionInv'
    BY ZenonT(30), <1>1, <2>5, <2>13, Finish
  <2>15. k = 7 => Open("client")
    BY ZenonT(30), <1>4, <2>2, LastFacts
  <2> QED
    BY ZenonT(30), <1>3, <1>4, <2>1, <2>3, <2>4, <2>14, <2>15
<1> QED
  BY ZenonT(30), <1>15, <1>16

LEMMA SessionStep == SessionInv /\ [Next]_vars => SessionInv'
<1> SUFFICES ASSUME SessionInv, [Next]_vars
             PROVE  SessionInv'
  OBVIOUS
<1>1. ASSUME NEW z \in Sides, Side(z) \/ Fault(z, "timeout") \/ Fault(z, "crash")
      PROVE  SessionInv'
  <2>1. CASE SendOp(z)
    BY ZenonT(30), <2>1, SendOpKeeps
  <2>2. CASE SendVerdict(z, "accepted") \/ SendVerdict(z, "rejected")
    BY ZenonT(30), <2>2, VerdictKeeps
  <2>3. CASE RecvRefused(z) \/ GiveUp(z) \/ Eof(z) \/ Fault(z, "timeout") \/ Fault(z, "crash")
    BY ZenonT(30), <2>3, SessionEnds
  <2>4. CASE RecvMalformed(z)
    BY ZenonT(30), <2>4, MalformedKeeps
  <2>5. CASE RecvAck(z)
    BY ZenonT(30), <2>5, AckKeeps
  <2>6. CASE RecvResend(z)
    BY ZenonT(30), <2>6, ResendKeeps
  <2>7. CASE RecvOp(z)
    BY ZenonT(30), <2>7, OpKeeps
  <2> QED
    BY ZenonT(30), <1>1, <2>1, <2>2, <2>3, <2>4, <2>5, <2>6, <2>7 DEF Side
<1>2. ASSUME (\E success \in BOOLEAN : Route(success)) \/ BucketChanges
      PROVE  SessionInv'
  BY ZenonT(30), <1>2, RouteKeeps
<1>3. CASE UNCHANGED vars
  <2>1. Functions' /\ Booleans'
    BY ZenonT(30), <1>3 DEF vars, SessionInv, Functions, Booleans, IsFun
  <2>2. \A x \in Sides : Typed(x)' /\ Alone(x)'
    BY <1>3 DEF vars, SessionInv, Typed, Alone, Open
  <2>3. ASSUME NEW k \in Exchanges
        PROVE  /\ Ready(k) => Ready(k)'
               /\ Sent(k) => Sent(k)'
               /\ Acked(k) => Acked(k)'
               /\ Chained(k) => Chained(k)'
    <3>1. UNCHANGED <<pc, mode, seq, sentFrames, wants, tries, ackTries, wire, result, oboFull, routed>>
      BY ZenonT(30), <1>3 DEF vars
    <3>2. Ready(k) => Ready(k)'
      BY ZenonT(30), <3>1 DEF Ready, Stands, At, Open, BothOpen
    <3>3. Sent(k) => Sent(k)'
      BY ZenonT(30), <3>1 DEF Sent, Waits, KeepsObo, Open, BothOpen, One, Is, OpOf, Verdict
    <3>4. Acked(k) => Acked(k)'
      BY ZenonT(30), <3>1 DEF Acked, Waits, One, AckFirst, Is, Stands, At, Open, BothOpen
    <3>5. Chained(k) => Chained(k)'
      BY ZenonT(30), <3>1 DEF Chained, Waits, Two, AckFirst, Is, Stands, At, Open, BothOpen, OpOf, Verdict
    <3> QED
      BY ZenonT(30), <3>2, <3>3, <3>4, <3>5
  <2>4. (Asked => Asked') /\ (Doomed => Doomed')
    <3>1. UNCHANGED <<pc, mode, seq, sentFrames, wants, tries, ackTries, wire, result, oboFull, routed>>
      BY ZenonT(30), <1>3 DEF vars
    <3>2. Asked => Asked'
      BY ZenonT(30), <3>1 DEF Asked, Waits, KeepsObo, One, Is, Stands, At, Open, BothOpen
    <3>3. Doomed => Doomed'
      BY ZenonT(30), <3>1 DEF Doomed, One, Two, Is, Stands, At, Open, BothOpen
    <3> QED
      BY ZenonT(30), <3>2, <3>3
  <2>5. Stage'
    <3>1. Stage
      BY DEF SessionInv
    <3> QED
      BY Zenon, <2>3, <2>4, <3>1 DEF Stage
  <2> QED
    BY ZenonT(30), <2>1, <2>2, <2>5 DEF SessionInv
<1> QED
  BY ZenonT(30), <1>1, <1>2, <1>3 DEF Next

LEMMA SessionInit == Init => SessionInv
<1> SUFFICES ASSUME Init
             PROVE  SessionInv
  BY ZenonT(30)
<1>1. Functions /\ Booleans
  BY ZenonT(30) DEF Init, Both, Functions, Booleans, IsFun
<1>2. \A x \in Sides : Typed(x) /\ Alone(x)
  <2> SUFFICES ASSUME NEW x \in Sides
               PROVE  Typed(x) /\ Alone(x)
    OBVIOUS
  <2>1. 1 \in 1 .. Len(Script[x])
    BY ZenonT(30), ScriptLengths
  <2>2. /\ pc[x] = 1 /\ mode[x] = "step" /\ state[x] = "init" /\ seq[x] = 0 /\ sentFrames[x] = {}
        /\ wants[x] = 0 /\ tries[x] = 0 /\ ackTries[x] = 0 /\ result[x] = "none"
    BY ZenonT(30) DEF Init, Both
  <2>3. Typed(x)
    BY <2>1, <2>2, FiprAssumption DEF Typed
  <2>4. Alone(x)
    BY ZenonT(30), <2>2 DEF Alone
  <2> QED
    BY ZenonT(30), <2>3, <2>4
<1>3. Sender(1) \in Sides /\ Reader(1) \in Sides
  BY TurnFacts DEF Exchanges
<1>4. Ready(1)
  BY ZenonT(30), <1>3, SidesFacts DEF Init, Both, Ready, Stands, At
<1>5. Stage
  BY <1>4 DEF Stage, Exchanges
<1> QED
  BY ZenonT(30), <1>1, <1>2, <1>5 DEF SessionInv

LEMMA SessionAlways == FairSpec => []SessionInv
<1>1. Init => SessionInv
  BY ZenonT(30), SessionInit
<1>2. SessionInv /\ [Next]_vars => SessionInv'
  BY ZenonT(30), SessionStep
<1> QED
  BY <1>1, <1>2, PTL DEF FairSpec

\* Positions, counters and kept frames of the two sides are of their types, for
\* every number of resends (TypeOK of the run).
THEOREM FiprTypeCorrect == FairSpec => []TypeOK
<1>1. SessionInv => TypeOK
  <2> SUFFICES ASSUME SessionInv
               PROVE  TypeOK
    BY ZenonT(30)
  <2>1. running \in BOOLEAN /\ oboFull \in BOOLEAN /\ bucket \in BOOLEAN /\ routed \in BOOLEAN
    BY ZenonT(30) DEF SessionInv, Booleans
  <2>2. \A x \in Sides : pc[x] \in 1 .. Len(Script[x]) /\ seq[x] \in Nat
    BY ZenonT(30) DEF SessionInv, Typed
  <2>3. \A x \in Sides : \A f \in sentFrames[x] : f.op \in Ops /\ f.sequence < seq[x]
    BY ZenonT(30) DEF SessionInv, Typed
  <2>4. mode \in [Sides -> {"step", "ack"}] /\ state \in [Sides -> {"init", "started", "closed"}]
    BY ZenonT(30) DEF SessionInv, Typed, Functions, IsFun
  <2>5. /\ tries \in [Sides -> 0 .. MaxConsecutiveResends]
        /\ ackTries \in [Sides -> 0 .. MaxConsecutiveResends - 1]
    BY ZenonT(30) DEF SessionInv, Typed, Functions, IsFun
  <2>6. result \in [Sides -> {"none", "ok", "reroute", "error"}]
    BY ZenonT(30) DEF SessionInv, Typed, Functions, IsFun
  <2> QED
    BY ZenonT(30), <2>1, <2>2, <2>3, <2>4, <2>5, <2>6 DEF TypeOK
<1> QED
  BY <1>1, SessionAlways, PTL

\* Whatever is sent again, refused or lost, the frames that wait for an open
\* side carry the numbers decodeFrame expects and acknowledge the frame that is
\* awaited.
THEOREM SequencesAgree == FairSpec => []SequenceInStep
<1>1. SessionInv => SequenceInStep
  <2> SUFFICES ASSUME SessionInv, NEW x \in Sides, Open(x), NEW i \in DOMAIN wire[x]
               PROVE  /\ wire[x][i].sequence = seq[x] + i - 1
                      /\ wire[x][i].op = "ack" => wire[x][i].arg = wants[x]
    BY ZenonT(30) DEF SequenceInStep
  <2> DEFINE Goal == /\ wire[x][i].sequence = seq[x] + i - 1
                     /\ wire[x][i].op = "ack" => wire[x][i].arg = wants[x]
  <2>0. seq[x] \in Nat /\ Stage
    BY ZenonT(30) DEF SessionInv, Typed
  <2>1. wire[x] # <<>>
    <3>1. DOMAIN <<>> = {}
      OBVIOUS
    <3> QED
      BY <3>1
  <2>2. ASSUME One(x), wire[x][1].sequence = seq[x], wire[x][1].op = "ack" => wire[x][1].arg = wants[x]
        PROVE  Goal
    <3>1. i = 1
      BY <2>2 DEF One
    <3> QED
      BY <2>0, <2>2, <3>1
  <2>3. ASSUME Two(x), wire[x][1].sequence = seq[x], wire[x][1].op = "ack" => wire[x][1].arg = wants[x],
               wire[x][2].sequence = seq[x] + 1, wire[x][2].op # "ack"
        PROVE  Goal
    <3>1. i \in {1, 2}
      BY <2>3 DEF Two
    <3> QED
      BY SMTT(30), <2>0, <2>3, <3>1
  <2> HIDE DEF Goal
  <2>4. ASSUME NEW k \in Exchanges
        PROVE  OpOf(k) # "ack" /\ (x = Sender(k) \/ x = Reader(k))
    <3>1. OpOf(k) # "ack"
      BY SMTT(30), ExchangeFacts, LastFacts, OpFacts DEF Exchanges
    <3> QED
      BY ZenonT(30), <3>1, TurnFacts
  <2>5. ASSUME NEW k \in Exchanges, Ready(k) PROVE Goal
    BY ZenonT(30), <2>1, <2>4, <2>5 DEF Ready
  <2>6. ASSUME NEW k \in Exchanges, Sent(k) PROVE Goal
    <3>1. x = Reader(k)
      BY ZenonT(30), <2>1, <2>4, <2>6 DEF Sent
    <3>2. One(x) /\ Is(wire[x][1], seq[x], OpOf(k))
      BY ZenonT(30), <2>6, <3>1 DEF Sent
    <3> QED
      BY ZenonT(30), <2>2, <2>4, <3>2 DEF Is
  <2>7. ASSUME NEW k \in Exchanges, Acked(k) PROVE Goal
    <3>1. x = Sender(k)
      BY ZenonT(30), <2>1, <2>4, <2>7 DEF Acked
    <3>2. One(x) /\ AckFirst(x)
      BY ZenonT(30), <2>7, <3>1 DEF Acked
    <3> QED
      BY ZenonT(30), <2>2, <3>2 DEF AckFirst, Is
  <2>8. ASSUME NEW k \in Exchanges, Chained(k) PROVE Goal
    <3>1. x = Sender(k) /\ k + 1 \in Exchanges
      BY <2>1, <2>4, <2>8 DEF Chained, Exchanges
    <3>2. Two(x) /\ AckFirst(x) /\ Is(wire[x][2], seq[x] + 1, OpOf(k + 1))
      BY ZenonT(30), <2>8, <3>1 DEF Chained
    <3> QED
      BY ZenonT(30), <2>3, <2>4, <3>1, <3>2 DEF AckFirst, Is
  <2>9. ASSUME Asked PROVE Goal
    <3>1. x = "client"
      BY ZenonT(30), <2>1, <2>9, SidesFacts DEF Asked
    <3> QED
      BY ZenonT(30), <2>2, <2>9, <3>1 DEF Asked, Is
  <2>10. ASSUME Doomed PROVE Goal
    <3>1. x = "server"
      BY ZenonT(30), <2>1, <2>10, SidesFacts DEF Doomed
    <3>2. /\ One(x) \/ Two(x)
          /\ Is(wire[x][1], seq[x], "obo") /\ (Two(x) => Is(wire[x][2], seq[x] + 1, "shardCheck"))
      BY ZenonT(30), <2>10, <3>1 DEF Doomed
    <3> QED
      BY ZenonT(30), <2>2, <2>3, <3>2 DEF Is
  <2> QED
    BY ZenonT(30), <2>0, <2>5, <2>6, <2>7, <2>8, <2>9, <2>10 DEF Stage, Goal
<1> QED
  BY <1>1, SessionAlways, PTL

----------------------------------------------------------------------------
(* What the client reports.                                                *)

\* What the client knows of the fragment while nothing failed: it is open until
\* it has the verdict.
RouteInv ==
  /\ routed /\ Open("server") => pc["server"] = 9
  /\ result["client"] = "ok" => routed
  /\ faults = {} /\ Open("server") /\ pc["server"] \in {8, 9} => Open("client")
  /\ faults = {} /\ routed => \/ result["client"] = "ok"
                              \/ /\ Open("client")
                                 /\ \/ Open("server")
                                    \/ One("client") /\ wire["client"][1].op = "accepted"
                                    \/ Two("client") /\ wire["client"][2].op = "accepted"

\* Before the server awaits anything more it has not routed the fragment.
LEMMA ServerReads ==
  ASSUME SessionInv, RouteInv, Reading("server")
  PROVE  ~routed /\ pc["server"] \notin {8, 9}
<1>1. Open("server") /\ (mode["server"] = "ack" \/ Script["server"][pc["server"]].kind = "await")
  BY ZenonT(30) DEF Reading, Step
<1>2. Alone("server")
  BY ZenonT(30), SidesFacts DEF SessionInv
<1>3. pc["server"] \notin {8, 9}
  <2>1. mode["server"] # "ack" => Script["server"][pc["server"]].kind = "await"
    BY ZenonT(30), <1>1
  <2>2. mode["server"] = "ack" => /\ Script["server"][pc["server"]].kind = "send"
                                  /\ requiresAck(Script["server"][pc["server"]].op)
    BY ZenonT(30), <1>2 DEF Alone
  <2> QED
    BY ZenonT(30), <2>1, <2>2, LastFacts
<1> QED
  BY ZenonT(30), <1>1, <1>3 DEF RouteInv

\* The only frame the client refuses is the server's rejection, its last.
LEMMA ClientRefuses ==
  ASSUME SessionInv, Reading("client"), wire["client"] # <<>>, Refuses("client", Head(wire["client"]))
  PROVE  ~routed /\ Sent(8)
<1> DEFINE f == Head(wire["client"])
<1>1. Open("client") /\ Alone("client") /\ "client" \in Sides
  BY ZenonT(30), SidesFacts DEF SessionInv, Reading
<1>2. state["client"] # "closed"
  BY ZenonT(30), <1>1 DEF Alone
<1>3. ASSUME NEW k \in Exchanges, "client" = Reader(k), Sent(k)
      PROVE  ~routed /\ Sent(8)
  <2>1. /\ pc["client"] = k /\ mode["client"] = "step"
        /\ One("client") /\ Is(wire["client"][1], seq["client"], OpOf(k))
    BY ZenonT(30), <1>1, <1>3 DEF Sent
  <2>2. f = wire["client"][1]
    BY <2>1, WireFacts DEF One
  <2>3. f.sequence = seq["client"] /\ f.op = OpOf(k)
    BY ZenonT(30), <2>1, <2>2 DEF Is
  <2>4. Expected("client") = {Script["client"][k].op}
    BY ZenonT(30), <2>1 DEF Expected, Step
  <2> HIDE DEF f
  <2>5. CASE k = 8
    <3>1. f.op = "rejected"
      BY SMTT(30), <1>2, <2>3, <2>4, <2>5, OpFacts, LastFacts DEF Refuses, Invalid, f
    <3> QED
      BY ZenonT(30), <1>3, <2>3, <2>5, <3>1, OpFacts DEF Verdict
  <2>6. CASE k # 8
    <3>1. k \in 1 .. 7
      BY SMTT(30), <2>6 DEF Exchanges
    <3>2. Script["client"][k].op = OpOf(k) /\ OpOf(k) \notin {"rejected"}
      BY ZenonT(30), <1>3, <3>1, ExchangeFacts
    <3>3. OpOf(k) # "start"
      BY SMTT(30), <1>3, <3>1, ExchangeFacts DEF Reader, Sender, Peer
    <3> QED
      BY ZenonT(30), <1>2, <2>3, <2>4, <3>2, <3>3 DEF Refuses, Invalid, f
  <2> QED
    BY ZenonT(30), <2>5, <2>6
<1>4. ASSUME NEW k \in 1 .. 7, "client" = Sender(k), Acked(k) \/ Chained(k)
      PROVE  FALSE
  <2>1. /\ mode["client"] = "ack" /\ (One("client") \/ Two("client"))
        /\ Is(wire["client"][1], seq["client"], "ack")
    BY ZenonT(30), <1>1, <1>4 DEF Acked, Chained, AckFirst, Waits
  <2>2. f = wire["client"][1]
    BY <2>1, WireFacts DEF One, Two
  <2>3. f.sequence = seq["client"] /\ f.op = "ack" /\ Expected("client") = {"ack", "resend"}
    BY ZenonT(30), <2>1, <2>2 DEF Is, Expected
  <2> HIDE DEF f
  <2> QED
    BY ZenonT(30), <1>2, <2>3 DEF Refuses, Invalid, f
<1>5. ASSUME Asked
      PROVE  FALSE
  <2>1. mode["client"] = "ack" /\ One("client") /\ Is(wire["client"][1], seq["client"], "resend")
    BY ZenonT(30), <1>1, <1>5 DEF Asked, Waits
  <2>2. f = wire["client"][1]
    BY <2>1, WireFacts DEF One
  <2>3. f.sequence = seq["client"] /\ f.op = "resend" /\ Expected("client") = {"ack", "resend"}
    BY ZenonT(30), <2>1, <2>2 DEF Is, Expected
  <2> HIDE DEF f
  <2> QED
    BY ZenonT(30), <1>2, <2>3 DEF Refuses, Invalid, f
<1> QED
  BY ZenonT(30), <1>1, <1>3, <1>4, <1>5, ReadsWhere

\* A step of the server that does not route keeps RouteInv when the server ends,
\* or goes on to a position before the routing.
LEMMA ServerRoute ==
  ASSUME RouteInv, ~routed, ~routed', result'["client"] = result["client"],
         ~Open("server")' \/ pc'["server"] \notin {8, 9} \/ (Open("client") /\ pc'["server"] = 8)
  PROVE  RouteInv'
<1>1. Open("client") => Open("client")'
  BY ZenonT(30) DEF Open
<1> QED
  BY ZenonT(30), <1>1 DEF RouteInv

LEMMA RouteEnds ==
  ASSUME SessionInv, RouteInv, NEW z \in Sides,
         RecvRefused(z) \/ GiveUp(z) \/ Eof(z)
  PROVE  RouteInv'
<1>1. /\ Functions /\ Alone(z) /\ Typed(z) /\ SameSide(Peer(z)) /\ UNCHANGED <<routed, faults>>
      /\ result'[z] \in {"ok", "error"} /\ wire'[Peer(z)] = wire[Peer(z)] /\ UNCHANGED pc
  <2>1. SameSide(Peer(z)) /\ UNCHANGED routed
    BY ZenonT(30), OwnStep DEF Side
  <2>2. UNCHANGED <<faults, pc>>
    BY ZenonT(30) DEF RecvRefused, GiveUp, Eof
  <2> QED
    BY ZenonT(30), <2>1, <2>2, SessionEnds DEF SessionInv
<1>2. Open(z) /\ ~Open(z)'
  BY ZenonT(30), <1>1 DEF RecvRefused, GiveUp, Eof, Reading, Open
<1>3. CASE z = "server"
  <2>1. ~routed
    <3>1. CASE GiveUp(z)
      <4>1. tries[z] # 0
        BY ZenonT(30), <3>1, FiprAssumption DEF GiveUp
      <4> QED
        BY SMTT(30), <1>1, <1>2, <1>3, <4>1 DEF Alone, RouteInv
    <3>2. CASE Reading(z)
      BY ZenonT(30), <1>3, <3>2, ServerReads
    <3> QED
      BY ZenonT(30), <3>1, <3>2 DEF RecvRefused, Eof
  <2>2. result'["client"] = result["client"] /\ ~Open("server")'
    BY ZenonT(30), <1>1, <1>2, <1>3, SidesFacts DEF SameSide
  <2> QED
    BY ZenonT(30), <1>1, <2>1, <2>2, ServerRoute
<1>4. CASE z = "client"
  <2>1. ~GiveUp(z)
    <3>1. GiveUp(z) => tries[z] # 0
      BY ZenonT(30), FiprAssumption DEF GiveUp
    <3> QED
      BY ZenonT(30), <1>1, <1>4, <3>1 DEF Alone
  <2>2. /\ Open("server") <=> Open("server")'
        /\ pc'["server"] = pc["server"]
    BY SMTT(30), <1>1, <1>4, SidesFacts DEF SameSide, Open
  <2>3. CASE RecvRefused(z)
    <3>1. ~routed /\ Sent(8)
      BY ZenonT(30), <1>4, <2>3, ClientRefuses DEF RecvRefused
    <3>2. ~Open("server")
      BY ZenonT(30), <3>1, LastFacts DEF Sent
    <3>3. result'["client"] # "ok"
      BY ZenonT(30), <1>1, <1>4, <2>3 DEF RecvRefused, End, Functions, IsFun
    <3> QED
      BY ZenonT(30), <1>1, <2>2, <3>1, <3>2, <3>3 DEF RouteInv
  <2>4. CASE Eof(z)
    <3>1. wire["client"] = <<>> /\ ~Open("server") /\ Reading("client")
      BY ZenonT(30), <1>4, <2>4, SidesFacts DEF Eof
    <3>2. ~One("client") /\ ~Two("client")
      BY <3>1, WireFacts DEF One, Two
    <3>3. Expected("client") # {"frgRoute"}
      <4>1. CASE mode["client"] = "ack"
        BY ZenonT(30), <4>1 DEF Expected
      <4>2. CASE mode["client"] # "ack"
        <5>1. pc["client"] \in 1 .. 8 /\ Script["client"][pc["client"]].kind = "await"
          BY ZenonT(30), <1>1, <1>4, <3>1, <4>2, ClientFacts DEF Reading, Step, Typed
        <5>2. Script["client"][pc["client"]].op # "frgRoute"
          BY SMTT(30), <5>1, ClientFacts DEF Send, Await
        <5> QED
          BY ZenonT(30), <4>2, <5>2 DEF Expected, Step
      <4> QED
        BY ZenonT(30), <4>1, <4>2
    <3>4. result'["client"] # "ok"
      BY ZenonT(30), <1>1, <1>4, <2>4, <3>3 DEF Eof, End, Functions, IsFun
    <3>5. Open("client")
      BY ZenonT(30), <1>2, <1>4
    <3>6. ~(faults = {} /\ routed)
      BY ZenonT(30), <3>1, <3>2, <3>5 DEF RouteInv, Open
    <3> QED
      BY ZenonT(30), <1>1, <2>2, <3>1, <3>4, <3>6 DEF RouteInv
  <2> QED
    BY ZenonT(30), <2>1, <2>3, <2>4
<1> QED
  BY ZenonT(30), <1>3, <1>4, SidesFacts

LEMMA RouteSends ==
  ASSUME SessionInv, RouteInv, NEW z \in Sides,
         SendOp(z) \/ SendVerdict(z, "accepted") \/ SendVerdict(z, "rejected")
  PROVE  RouteInv'
<1>1. UNCHANGED <<routed, faults, pc>>
  BY DEF SendOp, SendVerdict, server
<1>2. CASE SendOp(z)
  <2>1. UNCHANGED result /\ SendFrame(z, Step(z).op)
    BY ZenonT(30), <1>2 DEF SendOp
  <2>2. Open(z) /\ wire'[z] = wire[z]
    BY ZenonT(30), <2>1, SentEffect
  <2>3. \A x \in Sides : Open(x)' <=> Open(x)
    BY ZenonT(30), <2>1 DEF Open
  <2>4. ~Open("server") => wire'["client"] = wire["client"]
    BY ZenonT(30), <2>2, SidesFacts
  <2> QED
    BY ZenonT(30), <1>1, <2>1, <2>3, <2>4, SidesFacts DEF RouteInv, One, Two
<1>3. ASSUME NEW op \in {"accepted", "rejected"}, SendVerdict(z, op)
      PROVE  RouteInv'
  <2>1. /\ z = "server" /\ ~Open("server")'
        /\ Open("client") => \/ One("client")' /\ wire'["client"][1].op = Verdict
                             \/ Two("client")' /\ wire'["client"][2].op = Verdict
    BY ZenonT(30), <1>3, VerdictKeeps
  <2>2. result'["client"] = result["client"]
    BY ZenonT(30), <1>3, <2>1, SidesFacts DEF SendVerdict, End, SessionInv, Functions, IsFun
  <2>3. Open("client") <=> Open("client")'
    BY ZenonT(30), <2>2 DEF Open
  <2>4. routed => Verdict = "accepted"
    BY ZenonT(30) DEF Verdict
  <2> QED
    BY ZenonT(30), <1>1, <2>1, <2>2, <2>3, <2>4 DEF RouteInv
<1> QED
  BY ZenonT(30), <1>2, <1>3

LEMMA RouteReads ==
  ASSUME SessionInv, RouteInv, NEW z \in Sides,
         RecvMalformed(z) \/ RecvAck(z) \/ RecvResend(z)
  PROVE  RouteInv'
<1>1. /\ Functions /\ SameSide(Peer(z)) /\ UNCHANGED <<routed, faults>> /\ Reading(z)
  <2>1. SameSide(Peer(z)) /\ UNCHANGED routed
    BY ZenonT(30), OwnStep DEF Side
  <2>2. UNCHANGED faults /\ Reading(z)
    BY ZenonT(30) DEF RecvMalformed, RecvAck, RecvResend
  <2> QED
    BY ZenonT(30), <2>1, <2>2 DEF SessionInv
<1>2. Open(z)
  BY ZenonT(30), <1>1 DEF Reading
<1>3. CASE RecvMalformed(z)
  <2>1. z = "server" /\ pc[z] = 2 /\ UNCHANGED pc
    BY ZenonT(30), <1>3, MalformedKeeps DEF RecvMalformed
  <2>2. result'["client"] = result["client"]
    BY ZenonT(30), <1>1, <2>1, SidesFacts DEF SameSide
  <2>3. ~routed
    BY <1>2, <2>1 DEF RouteInv
  <2> QED
    BY SMTT(30), <1>1, <2>1, <2>2, <2>3, ServerRoute
<1>4. CASE RecvAck(z) /\ z = "server"
  <2>1. PICK k \in 1 .. 7 : z = Sender(k) /\ pc[z] = k
    BY ZenonT(30), <1>4, AckKeeps
  <2>2. k \in {4, 6}
    BY <1>4, <2>1 DEF Sender
  <2>3. pc'[z] = pc[z] \/ pc'[z] = pc[z] + 1
    BY ZenonT(30), <1>1, <1>4 DEF RecvAck, Advance, Functions, IsFun
  <2>4. pc'["server"] \notin {8, 9}
    BY <1>4, <2>1, <2>2, <2>3
  <2>5. result'["client"] = result["client"]
    BY ZenonT(30), <1>1, <1>4, SidesFacts DEF SameSide
  <2>6. ~routed
    BY ZenonT(30), <1>1, <1>4, ServerReads
  <2> QED
    BY ZenonT(30), <1>1, <2>4, <2>5, <2>6, ServerRoute
<1>5. CASE RecvAck(z) /\ z = "client"
  <2>1. PICK k \in 1 .. 7 : z = Sender(k) /\ pc[z] = k /\ (Acked(k) \/ Chained(k))
    BY ZenonT(30), <1>5, AckKeeps
  <2>2. wire'[z] = Tail(wire[z]) /\ (result'[z] = "none" \/ Step(z).op = "shardStatus")
    BY ZenonT(30), <1>5, AckKeeps
  <2>3. Step(z).op # "shardStatus"
    <3>1. Script[z][k].op = OpOf(k) /\ k # 4
      BY <1>5, <2>1, ExchangeFacts DEF Sender
    <3> QED
      BY SMTT(30), <2>1, <3>1, ExchangeFacts DEF Step
  <2>4. Open("client") /\ Open("client")' /\ result'["client"] = result["client"]
    BY ZenonT(30), <1>2, <1>5, <2>2, <2>3 DEF Open
  <2>5. (Open("server") <=> Open("server")') /\ pc'["server"] = pc["server"]
    BY SMTT(30), <1>1, <1>5, SidesFacts DEF SameSide, Open
  <2>6. (One("client") \/ Two("client")) /\ wire["client"][1].op = "ack"
    BY SMTT(30), <1>5, <2>1, <2>4 DEF Acked, Chained, AckFirst, Is
  <2>7. ASSUME Two("client")
        PROVE  One("client")' /\ wire'["client"][1] = wire["client"][2]
    <3>1. wire["client"] = <<wire["client"][1], wire["client"][2]>>
      BY ZenonT(30), <2>7 DEF Two
    <3>2. Tail(<<wire["client"][1], wire["client"][2]>>) = <<wire["client"][2]>>
      BY ZenonT(30), WireFacts
    <3>3. wire'["client"] = <<wire["client"][2]>>
      BY Zenon, <1>5, <2>2, <3>1, <3>2
    <3> QED
      BY <3>3, WireFacts DEF One
  <2> QED
    BY ZenonT(30), <1>1, <2>4, <2>5, <2>6, <2>7 DEF RouteInv
<1>6. CASE RecvResend(z)
  <2>1. z = "client" /\ Asked /\ result'["client"] # "ok"
    BY ZenonT(30), <1>6, ResendKeeps
  <2>2. (Open("server") <=> Open("server")') /\ pc'["server"] = pc["server"]
    BY SMTT(30), <1>1, <2>1, SidesFacts DEF SameSide, Open
  <2>3. /\ Open("server") => pc["server"] = 2
        /\ One("client") /\ ~Two("client") /\ wire["client"][1].op # "accepted"
        /\ Open("client")
    BY <1>2, <2>1 DEF Asked, Stands, At, One, Two, Is
  <2>4. ~(faults = {} /\ routed)
    BY SMTT(30), <2>3 DEF RouteInv, Open
  <2> QED
    BY SMTT(30), <1>1, <2>1, <2>2, <2>3, <2>4 DEF RouteInv
<1> QED
  BY ZenonT(30), <1>3, <1>4, <1>5, <1>6, SidesFacts

LEMMA RouteRecvOp ==
  ASSUME SessionInv, RouteInv, NEW z \in Sides, RecvOp(z)
  PROVE  RouteInv'
<1>1. /\ SameSide(Peer(z)) /\ UNCHANGED <<routed, faults>> /\ Reading(z)
  BY ZenonT(30), OwnStep DEF Side, RecvOp
<1>2. Open(z)
  BY ZenonT(30), <1>1 DEF Reading
<1>3. PICK k \in Exchanges : /\ z = Reader(k) /\ pc[z] = k /\ Sent(k)
                             /\ k = 8 => wire[z][1].op = "accepted" /\ result'[z] = "ok"
                             /\ k = 7 => Open("client") \/ ~Open(z)'
                             /\ k # 8 => result'[z] # "ok"
                             /\ k # 8 /\ Open(z)' => pc'[z] = k + 1
  BY ZenonT(30), OpKeeps
<1>4. One(z) /\ wire[z][1].op = OpOf(k) /\ (Open(Sender(k)) => k # 8 /\ pc[Sender(k)] = k)
  BY ZenonT(30), <1>2, <1>3 DEF Sent, Is, Waits
<1>5. CASE z = "server"
  <2>1. ~routed /\ result'["client"] = result["client"]
    BY ZenonT(30), <1>1, <1>5, SidesFacts, ServerReads DEF SameSide
  <2>2. k # 8
    BY ZenonT(30), <1>3, <1>5, LastFacts, SidesFacts
  <2>3. ~Open("server")' \/ pc'["server"] \notin {8, 9} \/ (Open("client") /\ pc'["server"] = 8)
    BY <1>3, <1>5, <2>2 DEF Exchanges
  <2> QED
    BY ZenonT(30), <1>1, <2>1, <2>3, ServerRoute
<1>6. CASE z = "client"
  <2>1. Sender(k) = "server"
    BY ZenonT(30), <1>3, <1>6, TurnFacts, SidesFacts
  <2>2. (Open("server") <=> Open("server")') /\ pc'["server"] = pc["server"]
    BY <1>1, <1>6, SidesFacts DEF SameSide, Open
  <2>3. Open("server") => k # 8 /\ pc["server"] = k
    BY ZenonT(30), <1>4, <2>1
  <2>4. CASE k = 8
    <3>1. routed /\ result'["client"] = "ok"
      BY ZenonT(30), <1>3, <1>4, <1>6, <2>4, OpFacts DEF Verdict
    <3> QED
      BY ZenonT(30), <1>1, <2>2, <2>3, <2>4, <3>1 DEF RouteInv
  <2>5. CASE k # 8
    <3>1. k \in 1 .. 7
      BY <2>5 DEF Exchanges
    <3>2. wire["client"][1].op # "accepted" /\ ~Two("client")
      BY <1>4, <1>6, <3>1, ExchangeFacts DEF One, Two
    <3>3. pc["server"] \notin {8, 9} \/ ~Open("server")
      BY <2>3, <3>1
    <3>4. ~(faults = {} /\ routed)
      BY ZenonT(30), <1>2, <1>6, <3>2, <3>3 DEF RouteInv, Open
    <3> QED
      BY ZenonT(30), <1>1, <1>3, <1>6, <2>2, <2>5, <3>3, <3>4 DEF RouteInv
  <2> QED
    BY ZenonT(30), <2>4, <2>5
<1> QED
  BY ZenonT(30), <1>5, <1>6, SidesFacts

LEMMA RouteStep == SessionInv /\ RouteInv /\ [Next]_vars => RouteInv'
<1> SUFFICES ASSUME SessionInv, RouteInv, [Next]_vars
             PROVE  RouteInv'
  BY ZenonT(30)
<1>1. ASSUME NEW z \in Sides, Side(z)
      PROVE  RouteInv'
  BY ZenonT(30), <1>1, RouteSends, RouteEnds, RouteReads, RouteRecvOp DEF Side
<1>2. ASSUME NEW z \in Sides, Fault(z, "timeout") \/ Fault(z, "crash")
      PROVE  RouteInv'
  <2>1. faults' # {} /\ UNCHANGED <<routed, pc>>
    BY ZenonT(30), <1>2 DEF Fault, server
  <2>2. result'["client"] # "ok" \/ result'["client"] = result["client"]
    BY ZenonT(30), <1>2, SidesFacts DEF Fault, End, SessionInv, Functions, IsFun
  <2>3. Open("server")' => Open("server")
    BY ZenonT(30), <1>2, SidesFacts DEF Fault, End, SessionInv, Functions, IsFun, Open
  <2> QED
    BY ZenonT(30), <2>1, <2>2, <2>3 DEF RouteInv
<1>3. ASSUME NEW success \in BOOLEAN, Route(success)
      PROVE  RouteInv'
  <2>1. /\ Open("server") /\ Script["server"][pc["server"]].kind = "route"
        /\ UNCHANGED <<result, faults>>
    BY ZenonT(30), <1>3 DEF Route, Step
  <2>2. pc["server"] = 8
    <3>1. pc["server"] \in 1 .. 9
      BY ZenonT(30), ServerFacts, SidesFacts DEF SessionInv, Typed
    <3> QED
      BY SMTT(30), <2>1, <3>1, ServerFacts DEF Send, Await
  <2>3. pc'["server"] = 9
    BY <1>3, <2>2, SidesFacts DEF Route, Advance, SessionInv, Functions, IsFun
  <2>4. ~routed
    BY <2>1, <2>2 DEF RouteInv
  <2>5. \A x \in Sides : Open(x)' <=> Open(x)
    BY ZenonT(30), <2>1 DEF Open
  <2>6. result["client"] # "ok" /\ (faults = {} => Open("client"))
    BY ZenonT(30), <2>1, <2>2, <2>4 DEF RouteInv
  <2> QED
    BY ZenonT(30), <2>1, <2>3, <2>5, <2>6, SidesFacts DEF RouteInv
<1>4. CASE BucketChanges \/ UNCHANGED vars
  <2>1. UNCHANGED <<routed, pc, result, faults, wire>>
    BY ZenonT(30), <1>4 DEF BucketChanges, vars
  <2> QED
    BY ZenonT(30), <2>1 DEF RouteInv, Open, One, Two
<1> QED
  BY ZenonT(30), <1>1, <1>2, <1>3, <1>4 DEF Next

\* A client that reports success has handed the fragment over; one that reports
\* a failure, and routes the fragment itself, makes a second copy of it only
\* after a crash or a deadline (ResultIsTrue of the run), for every number of
\* resends.
THEOREM ClientReportsTruth == FairSpec => []ResultIsTrue
<1>1. Init => RouteInv
  BY ZenonT(30), SidesFacts DEF Init, Both, RouteInv, Open
<1>2. SessionInv /\ RouteInv /\ [Next]_vars => RouteInv'
  BY ZenonT(30), RouteStep
<1>3. RouteInv => ResultIsTrue
  BY DEF RouteInv, ResultIsTrue, Open
<1> QED
  BY <1>1, <1>2, <1>3, SessionAlways, PTL DEF FairSpec
=============================================================================
