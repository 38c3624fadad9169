------------------------------ MODULE Protocol ------------------------------
(***************************************************************************)
(* The message format of pkg/protocol, as functions: how a message becomes *)
(* datagrams (Create) and how a datagram becomes a fragment again (the     *)
(* three Deconstruct functions) and fragments a message (Defragment).      *)
(*                                                                         *)
(* A text is a sequence of characters: printable ones, "nul", "wide" (not  *)
(* ASCII, two bytes), "bad" (a byte that is not UTF-8) and, in hostnames,  *)
(* the two trust markers as one character each.  A value of a field is     *)
(* [kind, v] with its Go type and its content.  Data is a sequence of      *)
(* positions, so that a byte out of place shows; 0 is the placeholder of   *)
(* a missing fragment.  The wire keeps the values and counts the bytes.    *)
(* Results carry err, "none" or the reason.                                *)
(***************************************************************************)
EXTENDS Integers, Sequences, FiniteSets, SequencesExt

CONSTANTS MaxHostnameLen,   \* 255 in the code; the limits are scaled down so
          MaxCtxKeyLen,     \* 32   that small inputs reach them
          MaxCtxValLen,     \* 255
          MaxCtxSectionLen, \* 65535
          MaxDataLen,       \* 65535
          MinPaddingLen,    \* 10
          MaxPaddingLen,    \* 60
          SeqWidth,         \* 2^16, the width of the two sequence fields
          SigLen,           \* 64, the length of an ed25519 signature
          MaxFragments      \* bound on the fragments of a message

Fail(reason) == [err |-> reason]

\* An error is returned at once.
Then(r, Op(_)) == IF r.err # "none" THEN r ELSE Op(r)

\* A loop returns at the first error, or all its results.
Loop(results) ==
  LET bad == {i \in DOMAIN results : results[i].err # "none"}
  IN  IF bad # {} THEN Fail(results[CHOOSE i \in bad : \A j \in bad : i <= j].err)
      ELSE [err |-> "none", all |-> results]

Sum(s, Op(_)) == FoldLeft(LAMBDA n, x : n + Op(x), 0, s)

(* Lengths *)

\* Fixed parts of the inner payload: ids, sequence fields, timestamp, and the
\* length, terminator and signature bytes.
MinInnerPayloadLenFixedOnly == (4 + 4 + 2 + 2 + 8) + (2 + 1) + (1 + 1) + (1 + 1) + 2

\* Mutant: ... and the most padding.
MinInnerPayloadLenMost == MinInnerPayloadLenFixedOnly + 1 + 1 + MaxPaddingLen

\* ... with a hostname and data of one byte and the least padding.
MinInnerPayloadLen == MinInnerPayloadLenFixedOnly + 1 + 1 + MinPaddingLen

CtxFieldOverhead == 1 + 1 + 1 + 1 + 1

\* Counts the section's own length and terminator, which no field includes.
MinCtxSecLenWithData == 2 + CtxFieldOverhead + 1 + 1 + 1

\* Suite 1, x25519 with chacha20poly1305.
Suite == [KeySize |-> 32, NonceSize |-> 12, CipherOverhead |-> 16]

\* The length of a signature, by signature suite.
SignatureLen == [id \in {0, 1} |-> IF id = 0 THEN 0 ELSE SigLen]

(* Text *)

HostPrefixUnkSig     == "[UNKNOWN]"
HostPrefixUnverified == "[UNVERIFIED]"

Printable == {"a", "b", "c", "d", "-"}

CharLen(c) == CASE c = HostPrefixUnkSig     -> 9
                [] c = HostPrefixUnverified -> 12
                [] c = "wide"               -> 2
                [] OTHER                    -> 1

TextLen(t) == Sum(t, CharLen)

ValidUTF8(t) == \A i \in DOMAIN t : t[i] # "bad"

StripMarkers(t) ==
  SelectSeq(t, LAMBDA c : c \notin {HostPrefixUnkSig, HostPrefixUnverified})

cleanStringToBytes(t, maxLength) ==
  LET clean == SelectSeq(IF t = <<>> THEN <<"-">> ELSE t, LAMBDA c : c \in Printable)
  IN  IF Len(clean) > maxLength THEN SubSeq(clean, 1, maxLength) ELSE clean

cleanBytes(t) == SelectSeq(t, LAMBDA c : c # "nul")

isPrintableASCII(t) == \A i \in DOMAIN t : t[i] \in Printable

(* Values of fields *)

FixedWidth == [bool  |-> 1, int8    |-> 1, int16   |-> 2, int32 |-> 4, int64 |-> 8,
               int   |-> 8, float32 |-> 4, float64 |-> 8]

Serialized(type, value, len) ==
  [err |-> "none", type |-> type, value |-> value, len |-> len]

\* reflect has no type for nil and the call panics; unsigned numbers, and
\* whatever else is not listed, are unsupported.
serializeAnyValue(x) ==
  CASE x.kind \in DOMAIN FixedWidth ->
         Serialized(IF x.kind = "int" THEN "int64" ELSE x.kind, x.v, FixedWidth[x.kind])
    [] x.kind = "bytes"  -> Serialized("bytes", x.v, 4 + TextLen(x.v))
    [] x.kind = "string" -> Serialized("string", cleanBytes(x.v), TextLen(cleanBytes(x.v)))
    [] x.kind = "nil"    -> Fail("panic")
    [] OTHER             -> Fail("unsupported type")

Value(kind, v) == [err |-> "none", kind |-> kind, v |-> v]

deserializeAnyValue(type, value, len) ==
  CASE type = "bytes" -> IF len = 4 + TextLen(value) THEN Value(type, value)
                         ELSE Fail("slice length")
    [] type = "string" -> IF ValidUTF8(value) THEN Value(type, value) ELSE Fail("not UTF-8")
    [] type \in DOMAIN FixedWidth ->
         IF len # FixedWidth[type] THEN Fail("length of value")
         ELSE IF value \in {<<"nan">>, <<"inf">>} THEN Fail("not a number")
         ELSE Value(type, IF value = <<"-0">> THEN <<"0">> ELSE value)
    [] OTHER -> Fail("unsupported type")

(* Creation *)

\* One wire field from a clean key and a serialized value, or why there is none.
WireFormat(cleanKey, s) ==
  IF cleanKey = <<>> THEN Fail("empty key")
  ELSE IF s.err # "none" THEN s
  ELSE IF s.len > MaxCtxValLen THEN Fail("value too long")
  ELSE IF s.type = "string" /\ ~ValidUTF8(s.value) THEN Fail("not UTF-8")
  ELSE [err |-> "none", key |-> cleanKey, type |-> s.type,
        value |-> IF s.len = 0 THEN <<"-">> ELSE s.value,
        len   |-> IF s.len = 0 THEN 1 ELSE s.len]

ContextField(key, x) ==
  WireFormat(cleanStringToBytes(key, MaxCtxKeyLen),
             IF x.kind = "nil" THEN Serialized("string", <<"-">>, 1) ELSE serializeAnyValue(x))

ContextLen(fields) == Sum(fields, LAMBDA f : CtxFieldOverhead + Len(f.key) + f.len)

ContextSection(wire) ==
  IF wire = <<>> THEN [err |-> "none", fields |-> wire]
  ELSE IF ContextLen(wire) < MinCtxSecLenWithData THEN Fail("context too short")
  ELSE IF ContextLen(wire) > MaxCtxSectionLen THEN Fail("context too long")
  ELSE [err |-> "none", fields |-> wire]

\* The fields of a message come in the order sort.Strings gives their keys.
ConstructContext(fields) ==
  Then(Loop([i \in DOMAIN fields |-> ContextField(fields[i].key, fields[i].x)]),
       LAMBDA r : ContextSection(r.all))

\* What is signed.
SerializeSignature(hostname, hostID, timestamp) == <<hostname, hostID, timestamp>>

NoSignature == <<>>

\* A signature tells the pair of keys it was made with and what it was made over.
CreateSignature(privateKey, data, sigID) ==
  IF sigID = 0 THEN NoSignature ELSE [key |-> privateKey, data |-> data]

SigBytes(sig) == IF sig = NoSignature THEN 0 ELSE SigLen

SeqField(n) == n % SeqWidth

ConstructPayload(p, sigID) ==
  LET hostname == cleanStringToBytes(StripMarkers(p.Hostname), MaxHostnameLen)
      context  == ConstructContext(p.CustomFields)
  IN  IF p.HostID = 0 THEN Fail("host ID")
      ELSE IF p.MsgID = 0 THEN Fail("message ID")
      ELSE IF p.MessageSeq > p.MessageSeqMax THEN Fail("sequence")
      ELSE IF sigID > 0 /\ SigBytes(p.Signature) # SignatureLen[sigID] THEN Fail("signature")
      ELSE IF context.err # "none" THEN Fail(context.err)
      ELSE IF p.PaddingLen \notin MinPaddingLen .. MaxPaddingLen THEN Fail("padding")
      ELSE [err           |-> "none",
            HostID        |-> p.HostID,
            MsgID         |-> p.MsgID,
            MessageSeq    |-> SeqField(p.MessageSeq),
            MessageSeqMax |-> SeqField(p.MessageSeqMax),
            Timestamp     |-> p.Timestamp,
            Hostname      |-> hostname,
            SignatureID   |-> sigID,
            Signature     |-> IF sigID > 0 THEN p.Signature ELSE NoSignature,
            ContextFields |-> context.fields,
            Data          |-> p.Data,
            PaddingLen    |-> p.PaddingLen]

\* The bytes of an inner payload before its trailer.
InnerLen(f) ==
  MinInnerPayloadLenFixedOnly + Len(f.Hostname) + SigBytes(f.Signature)
    + ContextLen(f.ContextFields) + Len(f.Data)

\* The length of the padding is not written: the receiver takes what is left.
ConstructInnerPayload(f) ==
  IF f.Hostname = <<>> THEN Fail("empty hostname")
  ELSE IF ContextLen(f.ContextFields) > MaxCtxSectionLen THEN Fail("context too long")
  ELSE IF f.Data = <<>> THEN Fail("empty data")
  ELSE IF Len(f.Data) > MaxDataLen THEN Fail("data too long")
  ELSE [err |-> "none", fields |-> [f EXCEPT !.PaddingLen = 0], len |-> InnerLen(f) + f.PaddingLen]

(* Fragmentation *)

\* Mutant: lengths, type and terminators are forgotten.
FieldOverheadShort(f) == TextLen(f.key)

FieldOverhead(f) == CtxFieldOverhead + TextLen(f.key)

\* Padding is left out: it differs per fragment.  The two bytes and the
\* terminator of the context section are counted twice.
CalculateProtocolOverhead(p) ==
  LET data == [i \in DOMAIN p.CustomFields |-> serializeAnyValue(p.CustomFields[i].x)]
      bad  == {i \in DOMAIN data : data[i].err # "none"}
  IN  IF bad # {} THEN Fail(data[CHOOSE i \in bad : TRUE].err)
      ELSE [err |-> "none",
            len |-> (1 + Suite.KeySize + Suite.NonceSize + Suite.CipherOverhead)
                      + MinInnerPayloadLenFixedOnly
                      + TextLen(p.Hostname) + SigBytes(p.Signature)
                      + Sum(p.CustomFields, FieldOverhead)
                      + Sum(data, LAMBDA d : d.len)
                      + (2 + 1)]

\* pad[i] is the random padding of fragment i.
Fragment(p, maxPayloadSize, fixedProtocolSize, pad) ==
  LET maxMessageSize(i) == maxPayloadSize - fixedProtocolSize - pad[i]
      start[i \in 0 .. MaxFragments] ==
        IF i = 0 THEN 0 ELSE start[i - 1] + maxMessageSize(i - 1)
      Reached(i) == \A j \in 0 .. i : start[j] < Len(p.Data)
      count == Cardinality({i \in 0 .. MaxFragments - 1 : Reached(i)})
      End(i) == IF start[i + 1] < Len(p.Data) THEN start[i + 1] ELSE Len(p.Data)
  IN  IF maxPayloadSize <= 0 \/ fixedProtocolSize <= 0 THEN Fail("size")
      ELSE IF \E i \in 0 .. MaxFragments - 1 : Reached(i) /\ maxMessageSize(i) <= 0
      THEN Fail("no room")
      ELSE [err |-> "none",
            fragments |-> [n \in 1 .. count |->
              [p EXCEPT !.MessageSeq    = n - 1,
                        !.MessageSeqMax = count - 1,
                        !.PaddingLen    = pad[n - 1],
                        !.Data          = SubSeq(p.Data, start[n - 1] + 1, End(n - 1))]]]

(* Encryption: a function that fails until a key is set *)

NoKey == "no key"

SetupEncryptInnerPayload(key, old) == IF key = NoKey THEN old ELSE key
SetupDecryptInnerPayload(key, old) == IF key = NoKey THEN old ELSE key

\* pub is the ephemeral public key, a new one for every datagram.
ConstructOuterPayload(inner, encrypt, pub) ==
  IF encrypt = NoKey THEN Fail("not initialized")
  ELSE [err   |-> "none",
        pub   |-> pub,
        key   |-> encrypt,
        inner |-> inner,
        len   |-> 1 + Suite.KeySize + Suite.NonceSize + inner.len + Suite.CipherOverhead]

\* The ciphertext opens with the key it was made for.
DeconstructOuterPayload(packet, decrypt) ==
  IF packet.len < 1 + Suite.KeySize + Suite.NonceSize THEN Fail("too small")
  ELSE IF packet.len - (1 + Suite.KeySize + Suite.NonceSize)
            < MinInnerPayloadLen + Suite.CipherOverhead THEN Fail("too small")
  ELSE IF decrypt = NoKey THEN Fail("not initialized")
  ELSE IF decrypt # packet.key THEN Fail("decryption")
  ELSE packet.inner

\* One datagram of a message.
CreatePacket(fragment, sigID, encrypt, pub) ==
  Then(Then(ConstructPayload(fragment, sigID), ConstructInnerPayload),
       LAMBDA inner : ConstructOuterPayload(inner, encrypt, pub))

\* The signature is made over the hostname as the message has it; the datagrams
\* carry it cleaned.
Create(msg, hostID, msgID, maxPayloadSize, sigID, signKey, encrypt, pad) ==
  LET p == [HostID        |-> hostID,
            MsgID         |-> msgID,
            Timestamp     |-> msg.Timestamp,
            Hostname      |-> msg.Hostname,
            CustomFields  |-> msg.Fields,
            Data          |-> msg.Data,
            Signature     |-> CreateSignature(signKey,
                                SerializeSignature(msg.Hostname, hostID, msg.Timestamp), sigID),
            MessageSeq    |-> 0,
            MessageSeqMax |-> 0,
            PaddingLen    |-> 0]
      Cut(overhead) == Fragment(p, maxPayloadSize, overhead.len, pad)
      Wrap(split) == Loop([n \in DOMAIN split.fragments |->
                             CreatePacket(split.fragments[n], sigID, encrypt, n)])
  IN  Then(Then(Then(CalculateProtocolOverhead(p), Cut), Wrap),
           LAMBDA r : [err |-> "none", packets |-> r.all])

(* Extraction *)

DeconstructInnerPayload(w) ==
  LET f == w.fields
      sigLen == SigBytes(f.Signature)
  IN  IF w.len < MinInnerPayloadLen THEN Fail("too small")
      ELSE IF f.Hostname = <<>> THEN Fail("empty hostname")
      ELSE IF f.SignatureID \notin DOMAIN SignatureLen THEN Fail("unknown signature suite")
      ELSE IF sigLen # SignatureLen[f.SignatureID] THEN Fail("signature length")
      ELSE IF f.Data = <<>> THEN Fail("empty data")
      ELSE IF Len(f.Data) > w.len - (InnerLen(f) - Len(f.Data)) THEN Fail("data length")
      ELSE [f EXCEPT !.PaddingLen = w.len - InnerLen(f)]

\* The values of the wire fields; of two fields with one key the later stays.
DeconstructContext(fields) ==
  LET values == [i \in DOMAIN fields |->
                   deserializeAnyValue(fields[i].type, fields[i].value, fields[i].len)]
      bad  == {i \in DOMAIN fields :
                 \/ Len(fields[i].key) \notin 1 .. MaxCtxKeyLen
                 \/ ~isPrintableASCII(fields[i].key)
                 \/ fields[i].len \notin 1 .. MaxCtxValLen
                 \/ values[i].err # "none"}
      Latest(key) == CHOOSE i \in DOMAIN fields :
                     /\ fields[i].key = key
                     /\ \A j \in DOMAIN fields : fields[j].key = key => j <= i
  IN  IF bad # {} THEN Fail("field")
      ELSE [err    |-> "none",
            fields |-> [key \in {fields[i].key : i \in DOMAIN fields} |->
                          [kind |-> values[Latest(key)].kind, v |-> values[Latest(key)].v]]]

\* pinned gives hostnames their public keys.
LookupPinnedSender(hostname, pinned) == hostname \in DOMAIN pinned

\* Mutant: whoever signed it.
VerifySignatureAnyKey(publicKey, data, signature) == signature.data = data

\* Holds for what was signed with the other key of the pair, and nothing else.
VerifySignature(publicKey, data, signature) ==
  signature.key = publicKey /\ signature.data = data

\* The verdict on who sent it, as the prefix of the hostname.
Identity(hostname, f, pinned) ==
  IF LookupPinnedSender(hostname, pinned)
  THEN IF f.SignatureID = 0 THEN Fail("pinned but not signed")
       ELSE IF ~VerifySignature(pinned[hostname],
                                SerializeSignature(hostname, f.HostID, f.Timestamp), f.Signature)
       THEN Fail("invalid signature")
       ELSE [err |-> "none", prefix |-> <<>>]
  ELSE [err |-> "none",
        prefix |-> <<IF f.SignatureID = 0 THEN HostPrefixUnverified ELSE HostPrefixUnkSig>>]

DeconstructPayload(f, pinned) ==
  LET hostname == StripMarkers(f.Hostname)
      identity == Identity(hostname, f, pinned)
      context  == DeconstructContext(f.ContextFields)
  IN  IF f.HostID = 0 \/ f.MsgID = 0 THEN Fail("empty ID")
      ELSE IF f.MessageSeq > f.MessageSeqMax THEN Fail("sequence")
      ELSE IF Len(f.Hostname) \notin 1 .. MaxHostnameLen \/ ~isPrintableASCII(f.Hostname)
      THEN Fail("hostname")
      ELSE IF identity.err # "none" THEN identity
      ELSE IF context.err # "none" THEN context
      ELSE IF f.Data = <<>> THEN Fail("empty data")
      ELSE IF f.PaddingLen \notin MinPaddingLen .. MaxPaddingLen THEN Fail("padding")
      ELSE [err           |-> "none",
            HostID        |-> f.HostID,
            MsgID         |-> f.MsgID,
            MessageSeq    |-> f.MessageSeq,
            MessageSeqMax |-> f.MessageSeqMax,
            Timestamp     |-> f.Timestamp,
            Hostname      |-> identity.prefix \o hostname,
            CustomFields  |-> context.fields,
            Data          |-> f.Data]

\* Two values of interface type that hold byte slices cannot be compared.
Incomparable(p, q) ==
  \E key \in DOMAIN p.CustomFields \intersect DOMAIN q.CustomFields :
    p.CustomFields[key].kind = "bytes" /\ q.CustomFields[key].kind = "bytes"

EqualTo(p, q) ==
  /\ p.CustomFields = q.CustomFields
  /\ p.HostID = q.HostID /\ p.MsgID = q.MsgID
  /\ p.Timestamp = q.Timestamp
  /\ p.Hostname = q.Hostname

Missing(n) == [i \in 1 .. n |-> 0]

\* Mutant: one placeholder too many.
GapWide(prev, seq) == IF prev = -1 THEN <<>> ELSE Missing(seq - prev)

\* What is missing between two fragments; before the first it is written already.
Gap(prev, seq) == IF prev = -1 THEN <<>> ELSE Missing(seq - (prev + 1))

\* payloads is what a bucket holds: one fragment for each sequence number in it.
Defragment(payloads) ==
  LET sorted == SetToSortSeq(payloads, LAMBDA p, q : p.MessageSeq < q.MessageSeq)
      ref    == sorted[1]
      Write(buffer, p) ==
        [data |-> buffer.data \o Gap(buffer.prev, p.MessageSeq) \o p.Data,
         prev |-> p.MessageSeq]
      written == FoldLeft(Write, [data |-> Missing(ref.MessageSeq), prev |-> -1], sorted)
      whole   == written.data \o Missing(ref.MessageSeqMax - written.prev)
  IN  IF payloads = {} THEN Fail("no payloads")
      ELSE IF \E p \in payloads : p # ref /\ Incomparable(ref, p) THEN Fail("panic")
      ELSE IF \E p \in payloads : ~EqualTo(ref, p) THEN Fail("fields differ")
      ELSE [err          |-> "none",
            Hostname     |-> ref.Hostname,
            Timestamp    |-> ref.Timestamp,
            CustomFields |-> ref.CustomFields,
            Data         |-> whole]

=============================================================================
