---------------------------- MODULE MCTransport ----------------------------
(***************************************************************************)
(* Messages for Transport.  Those about the format are short and have no   *)
(* budget; those about the way have one.                                   *)
(***************************************************************************)
EXTENDS Transport, TLC

Symmetry == Permutations(Listeners)

ShardOfDatagram == [i \in 1 .. MaxFragments |-> 1 + (i % NumShards)]

Str(t) == [kind |-> "string", v |-> t]
Val(kind, c) == [kind |-> kind, v |-> <<c>>]
Fld(key, x) == [key |-> key, x |-> x]

ab == <<"a", "b">>

\* n bytes of data; room is what the maximum leaves for data and padding.
In(hostname, fields, n, room) ==
  LET msg == [Timestamp |-> 0, Hostname |-> hostname, Fields |-> fields,
              Data |-> [i \in 1 .. n |-> i]]
      overhead == CalculateProtocolOverhead([Hostname |-> hostname, Signature |-> NoSignature,
                                             CustomFields |-> fields])
  IN  [msg |-> msg, hostID |-> 1, msgID |-> 1, sigID |-> 0,
       maxPayloadSize |-> room + IF overhead.err = "none" THEN overhead.len ELSE 0,
       signKey |-> "k1", encryptKey |-> "key", decryptKey |-> "key", budget |-> 0]

\* The host's own key is k1.  Either key may be pinned for it, so a message signed
\* with k1 also stands for one that somebody else signed in its name.
Signed(in) == [in EXCEPT !.sigID = 1, !.maxPayloadSize = @ + SigLen]
Stamped(in, t) == [in EXCEPT !.msg.Timestamp = t]
Spending(in, n) == [in EXCEPT !.budget = n]

Hostnames == {<<>>, <<"a", "wide">>, <<"a", "[UNKNOWN]">>, <<"[UNVERIFIED]">>,
              <<"a", "b", "c", "d", "a">>, <<"wide">>, ab}

FieldLists ==
  {<<Fld(ab, x)>> : x \in
     {Str(<<"a", "b", "c">>), Str(<<"a">>), Str(<<"nul", "a", "b", "c">>), Str(<<"bad", "a", "b">>),
      Str([i \in 1 .. MaxCtxValLen + 1 |-> "a"]), Val("int", "1"), Val("int32", "1"),
      Val("uint", "1"), Val("float64", "nan"), Val("float64", "-0"), Val("bytes", "bad"),
      [kind |-> "nil", v |-> <<>>]}}
  \union
  {<<Fld(<<"a">>, Str(<<"a">>))>>,
   <<Fld(<<"wide">>, Val("int", "1"))>>,
   <<Fld(<<>>, Val("int", "1"))>>,
   <<Fld(<<"a", "b", "a">>, Val("int", "1")), Fld(<<"a", "b", "c">>, Val("bool", "true"))>>,
   [i \in 1 .. 4 |-> Fld(<<Append(<<"a", "b", "c">>, "d")[i]>>, Str(<<>>))],
   [i \in 1 .. 4 |-> Fld(<<Append(<<"a", "b", "c">>, "d")[i]>>, Val("int", "1"))]}

FormatInputs ==
  {Signed(In(h, <<>>, 1, 4)) : h \in Hostnames}
  \union {In(h, <<>>, 1, 4) : h \in Hostnames}
  \union {In(ab, fields, n, 4) : fields \in FieldLists, n \in 1 .. 3}
  \union {In(ab, <<>>, 0, 4), In(ab, <<>>, 2, 2), In(ab, <<>>, 5, 2), In(ab, <<>>, 5, 7),
          [In(ab, <<>>, 1, 4) EXCEPT !.hostID = 0],
          [In(ab, <<>>, 1, 4) EXCEPT !.msgID = 0],
          [In(ab, <<>>, 1, 4) EXCEPT !.encryptKey = NoKey],
          [In(ab, <<>>, 1, 4) EXCEPT !.decryptKey = NoKey],
          [In(ab, <<>>, 1, 4) EXCEPT !.decryptKey = "other key"]}

WayInputs ==
  {Spending(In(ab, <<>>, 3, 3), 1),
   Spending(Stamped(In(ab, <<>>, 1, 3), -1), 3),
   Spending(Stamped(In(ab, <<>>, 1, 3), 2), 3),
   Spending(Signed(In(ab, <<>>, 2, 3)), 3)}

AllInputs == FormatInputs \union WayInputs

=============================================================================
