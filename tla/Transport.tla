----------------------------- MODULE Transport -----------------------------
(***************************************************************************)
(* One message on its way: the sender's assembler makes datagrams of it    *)
(* (protocol.Create), UDP loses, doubles and reorders them, the listeners  *)
(* refuse the ones they have seen, the processors open and check them, and *)
(* a bucket of the receiver's shard collects the fragments until the       *)
(* assembler makes a message of them again (protocol.Defragment).          *)
(* Meanwhile time passes and the pinned keys may be reloaded.              *)
(*                                                                         *)
(* The bucket is the one of Shard without its goroutines, the processors'  *)
(* queue the one of Ring without its positions.                            *)
(***************************************************************************)
EXTENDS Protocol, ReplayCache

CONSTANTS Inputs,      \* the calls of Create considered, the keys set up, and a
                       \* budget that bounds the copies, reloads and seconds
          SigningKeys, \* the pairs of keys that sign and verify
          PastCutoff,
          FutureCutoff

ASSUME TransportAssumption ==
  /\ MaxFragments \in Nat \ {0}
  /\ Datagrams = 1 .. MaxFragments
  /\ PastCutoff \in Int /\ FutureCutoff \in Int
  /\ \A in \in Inputs : in.msg.Timestamp \in Int

VARIABLES input,     \* the message
          created,   \* what Create returned
          net,       \* copies of each datagram on the way
          copies,    \* copies UDP made so far
          inbox,     \* the processors' queue: how often it holds a datagram
          pinned,    \* the public key pinned for the hostname, if any
          reloads,
          everPinned, \* the keys that have been pinned for it
          accepted,  \* how often a datagram was routed to the bucket
          bucket,    \* fragments of the message in the shard
          lines,     \* what the assembler handed on, with what it was made of
          trouble    \* what happened to datagrams, the bucket and the message

wire     == <<net, copies>>
message  == <<input, created>>
trust    == <<pinned, reloads, everPinned>>
assembly == <<bucket, lines>>
tvars == <<wire, message, inbox, trust, accepted, assembly, trouble, rcvars>>

Host == cleanStringToBytes(StripMarkers(input.msg.Hostname), MaxHostnameLen)

NoBucket == [frags |-> {}, maxSeq |-> 0, filled |-> FALSE]

Packets == created.packets

Sent == IF created.err = "none" THEN DOMAIN Packets ELSE {}

CreateOf(in, pad) ==
  Create(in.msg, in.hostID, in.msgID, in.maxPayloadSize, in.sigID, in.signKey,
         SetupEncryptInnerPayload(in.encryptKey, NoKey), pad)

Paddings == [0 .. MaxFragments - 1 -> MinPaddingLen .. MaxPaddingLen]

\* What the key file may say of the host.
Pinnings == UNION {[hosts -> SigningKeys] : hosts \in SUBSET {Host}}

PinnedKeys(pins) == {pins[host] : host \in DOMAIN pins}

Init ==
  /\ CacheInit
  /\ input \in Inputs
  /\ created \in {CreateOf(input, pad) : pad \in Paddings}
  /\ net = [i \in Datagrams |-> IF i \in Sent THEN 1 ELSE 0]
  /\ copies = 0
  /\ inbox = [i \in Datagrams |-> 0]
  /\ pinned \in Pinnings
  /\ everPinned = PinnedKeys(pinned)
  /\ reloads = 0
  /\ accepted = [i \in Datagrams |-> 0]
  /\ bucket = NoBucket
  /\ lines = <<>>
  /\ trouble = {}

\* Bounds what may happen on the way.
CanSpend == copies + reloads + clock < input.budget

Happens(what) == trouble' = trouble \union {what}

(* UDP *)

Lose(i) ==
  /\ net[i] > 0
  /\ net' = [net EXCEPT ![i] = @ - 1]
  /\ Happens("lost")
  /\ UNCHANGED <<copies, message, inbox, trust, accepted, assembly, rcvars>>

Copy(i) ==
  /\ net[i] > 0
  /\ CanSpend
  /\ copies' = copies + 1
  /\ net' = [net EXCEPT ![i] = @ + 1]
  /\ UNCHANGED <<message, inbox, trust, accepted, assembly, trouble, rcvars>>

(* The listeners *)

Receive(l, i) ==
  /\ net[i] > 0
  /\ net' = [net EXCEPT ![i] = @ - 1]
  /\ Arrive(l, i)
  /\ UNCHANGED <<copies, message, inbox, trust, accepted, assembly, trouble>>

DropReplayed(l) ==
  /\ Refuse(l)
  /\ UNCHANGED <<wire, message, inbox, trust, accepted, assembly, trouble>>

\* The cache has the datagram even when the queue has no room for it.
Forward(l) ==
  /\ Admit(l)
  /\ \/ /\ inbox' = [inbox EXCEPT ![call[l].key] = @ + 1]
        /\ UNCHANGED trouble
     \/ /\ Happens("queue full")
        /\ UNCHANGED inbox
  /\ UNCHANGED <<wire, message, trust, accepted, assembly>>

\* Nothing to evict while the clock stands still.
Background ==
  /\ input.budget > 0
  /\ (CanSpend /\ Tick) \/ CleanupTicks \/ CleanupReads \/ CleanupShard
  /\ UNCHANGED <<wire, message, inbox, trust, accepted, assembly, trouble>>

(* The processors *)

\* SetupVerifySignature with the keys of the file as it is now.
NewPinnedSenders ==
  /\ CanSpend
  /\ reloads' = reloads + 1
  /\ pinned' \in Pinnings \ {pinned}
  /\ everPinned' = everPinned \union PinnedKeys(pinned')
  /\ UNCHANGED <<wire, message, inbox, accepted, assembly, trouble, rcvars>>

\* The fragment in datagram i, or why it is refused.
Payload(i) ==
  Then(Then(DeconstructOuterPayload(Packets[i], SetupDecryptInnerPayload(input.decryptKey, NoKey)),
            DeconstructInnerPayload),
       LAMBDA inner : DeconstructPayload(inner, pinned))

\* push: the bucket with one more fragment.  A fragment that push itself finds
\* past the deadline is one that comes after Expire.
Pushed(p) ==
  LET others == {q \in bucket.frags : q.MessageSeq # p.MessageSeq}
      all    == others \union {p}
  IN  IF bucket = NoBucket \/ (~bucket.filled /\ bucket.maxSeq = p.MessageSeqMax)
      THEN [frags |-> all, maxSeq |-> p.MessageSeqMax,
            filled |-> Cardinality(all) = p.MessageSeqMax + 1]
      ELSE bucket

\* Mutant: only the future is refused.
TimelyOld(p) == p.Timestamp <= clock + FutureCutoff

Timely(p) == p.Timestamp <= clock + FutureCutoff /\ p.Timestamp >= clock - PastCutoff

Process(i) ==
  /\ inbox[i] > 0
  /\ inbox' = [inbox EXCEPT ![i] = @ - 1]
  /\ \E p \in {Payload(i)} :
       \/ /\ p.err # "none"
          /\ Happens("invalid")
          /\ UNCHANGED <<accepted, bucket>>
       \/ /\ p.err = "none" /\ ~Timely(p)
          /\ Happens("not timely")
          /\ UNCHANGED <<accepted, bucket>>
       \/ /\ p.err = "none" /\ Timely(p)
          /\ accepted' = [accepted EXCEPT ![i] = @ + 1]
          /\ bucket' = Pushed(p)
          /\ IF bucket' = bucket THEN Happens("late") ELSE UNCHANGED trouble
  /\ UNCHANGED <<wire, message, trust, lines, rcvars>>

(* The shard's watcher and the assembler *)

Expire ==
  /\ bucket # NoBucket /\ ~bucket.filled
  /\ bucket' = [bucket EXCEPT !.filled = TRUE]
  /\ Happens("expired")
  /\ UNCHANGED <<wire, message, inbox, trust, accepted, lines, rcvars>>

Assemble ==
  /\ bucket.filled
  /\ bucket' = NoBucket
  /\ \E whole \in {Defragment(bucket.frags)} :
       \/ /\ whole.err = "none"
          /\ lines' = Append(lines, [msg |-> whole, have |-> {p.MessageSeq : p \in bucket.frags}])
          /\ UNCHANGED trouble
       \/ /\ whole.err # "none"
          /\ Happens(whole.err)
          /\ UNCHANGED lines
  /\ UNCHANGED <<wire, message, inbox, trust, accepted, rcvars>>

Next ==
  \/ \E i \in Datagrams : Lose(i) \/ Copy(i) \/ Process(i)
  \/ \E l \in Listeners : DropReplayed(l) \/ Forward(l) \/ \E i \in Datagrams : Receive(l, i)
  \/ Background \/ NewPinnedSenders \/ Expire \/ Assemble

Spec == Init /\ [][Next]_tvars

(* Properties *)

\* The message is one of those considered; copies of it are counted.
WayTypeOK ==
  /\ input \in Inputs
  /\ net \in [Datagrams -> Nat]
  /\ inbox \in [Datagrams -> Nat]
  /\ accepted \in [Datagrams -> Nat]

TypeOK == CacheTypeOK /\ WayTypeOK

\* What becomes of a value on its way.
NormalValue(x) ==
  CASE x.kind = "nil" -> [kind |-> "string", v |-> <<"-">>]
    [] x.kind = "int" -> [kind |-> "int64", v |-> x.v]
    [] x.kind = "string" ->
         [kind |-> "string", v |-> IF cleanBytes(x.v) = <<>> THEN <<"-">> ELSE cleanBytes(x.v)]
    [] x.v = <<"-0">> -> [kind |-> x.kind, v |-> <<"0">>]
    [] OTHER -> x

WireKey(f) == cleanStringToBytes(f.key, MaxCtxKeyLen)

InputFields == {input.msg.Fields[i] : i \in DOMAIN input.msg.Fields}

\* Texts that arrive as the empty character although they have no bytes.
EmptyTexts ==
  (IF input.msg.Hostname = <<>> THEN 1 ELSE 0)
    + Cardinality({i \in DOMAIN input.msg.Fields : input.msg.Fields[i].key = <<>>})
    + Cardinality({i \in DOMAIN input.msg.Fields :
                     LET x == input.msg.Fields[i].x
                     IN  x.kind = "string" /\ cleanBytes(x.v) = <<>>})

\* No datagram is longer than the configured maximum, except when more than
\* three texts are empty: CalculateProtocolOverhead counts an empty text as no
\* byte and the datagram carries one, and only the three bytes of the context
\* section it counts twice make up for them (payload.go:351-389).
PacketsFit ==
  \A i \in Sent : Packets[i].len > input.maxPayloadSize => EmptyTexts > 3

\* The slices of the message, and what should stand in place of the missing.
Expected(have) ==
  LET slice == [i \in Sent |-> Packets[i].inner.fields.Data]
  IN  FlattenSeq([i \in Sent |-> IF i - 1 \in have THEN slice[i] ELSE <<0>>])

Wrapped == Cardinality(Sent) > SeqWidth

\* A message handed on has every fragment that came in its place and one
\* placeholder for each that did not, every field with the normal form of a
\* value that was sent under its key, and the hostname after its marker.  A
\* message of more fragments than the sequence fields can count is the
\* exception: it is handed on in parts (fragmentation.go:69-136, payload.go:38).
LineIsTrue ==
  \A n \in DOMAIN lines :
    LET msg == lines[n].msg
    IN  /\ ~Wrapped => msg.Data = Expected(lines[n].have)
        /\ DOMAIN msg.CustomFields = {WireKey(f) : f \in InputFields}
        /\ \A f \in InputFields : \E g \in InputFields :
             /\ WireKey(g) = WireKey(f)
             /\ msg.CustomFields[WireKey(f)] = NormalValue(g.x)
        /\ StripMarkers(msg.Hostname) = Host
        /\ msg.Timestamp = input.msg.Timestamp

\* A message handed on without a marker before its hostname was signed, over that
\* hostname, with a key that was pinned for it while the message was on its way: a
\* signature by any other key, and none, are refused or marked, also while keys
\* are replaced between two fragments (payload.go:233-259, signature.go:81).
VerifiedIsSigned ==
  \A n \in DOMAIN lines :
    lines[n].msg.Hostname = Host =>
      /\ input.sigID = 1
      /\ input.signKey \in everPinned
      /\ input.msg.Hostname = Host

\* A datagram is accepted twice only if its timestamp stays valid for TTL seconds
\* from the start: what the replay cache has forgotten, the validity window
\* refuses (replayprotection.go:45, processor/worker.go:110-122).
NotTwice ==
  \A i \in Datagrams :
    accepted[i] > 1 => input.msg.Timestamp + PastCutoff >= TTL

(* What a message must be like to arrive *)

ValueLen(x) ==
  CASE x.kind = "string" -> IF cleanBytes(x.v) = <<>> THEN 1 ELSE TextLen(cleanBytes(x.v))
    [] x.kind = "bytes"  -> 4 + TextLen(x.v)
    [] OTHER             -> FixedWidth[x.kind]

SoundField(f) ==
  /\ WireKey(f) # <<>>
  /\ f.x.kind \in DOMAIN FixedWidth \union {"string", "bytes"}
  /\ f.x.v \notin {<<"nan">>, <<"inf">>}
  /\ f.x.kind = "string" => ValidUTF8(f.x.v)
  /\ ValueLen(f.x) <= MaxCtxValLen

\* The SECLEN of the fields.
SectionLen == Sum(input.msg.Fields, LAMBDA f : 5 + Len(WireKey(f)) + ValueLen(f.x))

SoundFields == \A f \in InputFields : SoundField(f)

SoundContext ==
  SoundFields /\ (input.msg.Fields # <<>> => SectionLen \in 8 .. MaxCtxSectionLen)

SoundIdentity ==
  /\ Host # <<>>
  /\ input.hostID # 0 /\ input.msgID # 0
  /\ Host \in DOMAIN pinned => input.sigID = 1 /\ input.signKey = pinned[Host]

Sound ==
  /\ input.msg.Data # <<>>
  /\ input.encryptKey = input.decryptKey /\ input.encryptKey # NoKey
  /\ SoundIdentity
  /\ SoundContext

\* Messages about which the code and the repository's own words disagree.
\*   A context of eight or nine bytes is refused (payload.go:156); Protocol.md:195
\*   discards "a SECLEN value of 7 or less".
\*   An empty key arrives as "-" (text.go:6); Protocol.md:207: "Empty keys MUST not
\*   be permitted."
\*   A nil field panics (payload.go:375); payload.go:116: "no value, use placeholder".
\*   A pinned hostname that cleaning changes is refused, for it is signed as it was
\*   (wrapper.go:31); Protocol.md:307: tags are removed "prior to signature
\*   signing/validation".
\*   A byte slice in a message of several fragments panics (fragmentation.go:160);
\*   Protocol.md:227 lists the type.
\*   More fragments than 16 bits count arrive in parts (payload.go:38);
\*   Protocol.md:317 numbers them "up by 1 each packet".
Divergent ==
  \/ input.msg.Fields # <<>> /\ SoundFields /\ SectionLen \in {8, 9}
  \/ \E f \in InputFields :
       f.key = <<>> \/ f.x.kind = "nil" \/ (f.x.kind = "bytes" /\ Cardinality(Sent) > 1)
  \/ Host \in DOMAIN pinned /\ input.sigID = 1 /\ input.msg.Hostname # Host
  \/ Wrapped

\* The configured size of a datagram leaves room for data, and no more room
\* than the length of the data can count.
Roomy == created.err \notin {"no room", "data too long"}

Settled ==
  /\ \A i \in Datagrams : net[i] = 0 /\ inbox[i] = 0
  /\ \A l \in Listeners : ~call[l].busy
  /\ bucket = NoBucket

Undisturbed ==
  /\ reloads = 0
  /\ trouble \intersect {"lost", "queue full", "not timely", "expired"} = {}

\* When no datagram is lost, late or pushed out, no bucket expires and no key is
\* reloaded, a message is handed on whole if and only if Protocol.md lets it: it
\* has data, identifiers, a hostname and fields of the listed types and lengths,
\* the two sides have the same key, and a pinned host signed with the pinned key
\* (Create, the three Deconstruct functions, Defragment).  Nothing is said of the
\* messages of Divergent, about which code and document disagree.
DeliveredWhole ==
  Settled /\ Undisturbed /\ ~Divergent =>
    LET whole == \E n \in DOMAIN lines : lines[n].msg.Data = input.msg.Data
    IN  /\ Sound /\ Roomy => whole
        /\ whole => Sound

=============================================================================
