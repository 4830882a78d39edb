-------------------------- MODULE PayloadCodecProofs --------------------------
(***************************************************************************)
(* Theorems about PayloadCodec, for messages of any types and any bytes.   *)
(***************************************************************************)
EXTENDS PayloadCodec, TLAPS

\* What SerializeToString leaves is bytes, within the serializer's limit.
LEMMA SerializedFacts ==
    ASSUME NEW m \in Messages
    PROVE  /\ SerializeToString(m) \in Seq(Bytes)
           /\ Len(SerializeToString(m)) <= MaxSerialized
           /\ Len(m.data) <= MaxSerialized => SerializeToString(m) = m.data
  BY CodecAssumption DEF SerializeToString, Messages

\* Where the parts of a payload are.
LEMMA PayloadFacts ==
    ASSUME NEW type \in TypeNames, NEW data \in Seq(Bytes),
           NEW p, p = createProtoPayload(type, data)
    PROVE  /\ p \in Payloads
           /\ Len(p) = Len(data) + 2
           /\ p[1] = type /\ p[2] = Colon
           /\ \A i \in 1 .. Len(data) : p[i + 2] = data[i]
  <1> DEFINE head == << type, Colon >>
  <1>1. head \in Payloads /\ Len(head) = 2 /\ head[1] = type /\ head[2] = Colon
    BY CodecAssumption DEF Payloads
  <1>2. data \in Payloads
    BY DEF Payloads
  <1>3. p = head \o data
    BY DEF createProtoPayload
  <1> HIDE DEF head
  <1>4. ASSUME NEW S, NEW a \in Seq(S), NEW b \in Seq(S)
        PROVE  /\ a \o b \in Seq(S)
               /\ Len(a \o b) = Len(a) + Len(b)
               /\ \A i \in 1 .. Len(a) : (a \o b)[i] = a[i]
               /\ \A i \in 1 .. Len(b) : (a \o b)[i + Len(a)] = b[i]
    OBVIOUS
  <1>5. /\ p \in Payloads
        /\ Len(p) = 2 + Len(data)
        /\ \A i \in 1 .. 2 : p[i] = head[i]
        /\ \A i \in 1 .. Len(data) : p[i + 2] = data[i]
    <2>1. head \in Seq(TypeNames \cup Bytes) /\ data \in Seq(TypeNames \cup Bytes)
      BY <1>1, <1>2 DEF Payloads
    <2>2. /\ head \o data \in Seq(TypeNames \cup Bytes)
          /\ Len(head \o data) = Len(head) + Len(data)
          /\ \A i \in 1 .. Len(head) : (head \o data)[i] = head[i]
          /\ \A i \in 1 .. Len(data) : (head \o data)[i + Len(head)] = data[i]
      BY <2>1, <1>4
    <2>3. /\ Len(head \o data) = 2 + Len(data)
          /\ \A i \in 1 .. 2 : (head \o data)[i] = head[i]
          /\ \A i \in 1 .. Len(data) : (head \o data)[i + 2] = data[i]
      <3>1. Len(head) = 2
        BY <1>1
      <3>2. QED
        BY <2>2, <3>1, Zenon
    <2>4. head \o data \in Payloads
      BY <2>2, Zenon DEF Payloads
    <2>5. QED
      BY <1>3, <2>3, <2>4, Zenon
  <1>6. QED
    BY <1>1, <1>5

\* The first colon is the one behind the name, whatever the bytes are.
LEMMA DelimiterFacts ==
    ASSUME NEW type \in TypeNames, NEW data \in Seq(Bytes),
           NEW p, p = createProtoPayload(type, data)
    PROVE  Delimiters(p) # {} /\ Delimiter(p) = 2
  <1>1. p \in Payloads /\ Len(p) = Len(data) + 2 /\ p[1] = type /\ p[2] = Colon
    BY PayloadFacts
  <1>2. type # Colon
    BY CodecAssumption
  <1>3. DOMAIN p = 1 .. Len(p) /\ Len(data) \in Nat
    BY <1>1 DEF Payloads
  <1>4. 2 \in Delimiters(p) /\ \A i \in Delimiters(p) : 2 <= i /\ i \in Nat
    BY <1>1, <1>2, <1>3 DEF Delimiters
  <1>5. QED
    BY <1>4 DEF Delimiter

\* Splitting a payload gives back what it was put together from.
LEMMA SplitFacts ==
    ASSUME NEW type \in TypeNames, NEW data \in Seq(Bytes),
           NEW p, p = createProtoPayload(type, data)
    PROVE  TypeName(p) = << type >> /\ Data(p) = data /\ Parses(Data(p))
  <1>1. /\ p \in Payloads /\ Len(p) = Len(data) + 2 /\ p[1] = type
        /\ \A i \in 1 .. Len(data) : p[i + 2] = data[i]
    BY PayloadFacts
  <1>2. Delimiter(p) = 2
    BY DelimiterFacts
  <1>3. TypeName(p) = << type >>
    <2>1. TypeName(p) = SubSeq(p, 1, 1)
      BY <1>2 DEF TypeName
    <2>2. /\ SubSeq(p, 1, 1) \in Payloads
          /\ Len(SubSeq(p, 1, 1)) = 1
          /\ SubSeq(p, 1, 1)[1] = type
      BY <1>1 DEF Payloads
    <2>3. << type >> \in Payloads /\ Len(<< type >>) = 1 /\ << type >>[1] = type
      BY DEF Payloads
    <2>4. ASSUME NEW S, NEW a \in Seq(S), NEW b \in Seq(S), Len(a) = 1, Len(b) = 1, a[1] = b[1]
          PROVE  a = b
      BY <2>4
    <2>5. SubSeq(p, 1, 1) = << type >>
      BY <2>2, <2>3, <2>4 DEF Payloads
    <2>6. QED
      BY <2>1, <2>5
  <1>4. Data(p) = SubSeq(p, 3, Len(p))
    BY <1>2 DEF Data
  <1>5. Len(Data(p)) = Len(data) /\ \A i \in 1 .. Len(data) : Data(p)[i] = data[i]
    BY <1>1, <1>4 DEF Payloads
  <1>6. Data(p) \in Payloads
    BY <1>1, <1>4 DEF Payloads
  <1>7. Data(p) = data
    BY <1>5, <1>6 DEF Payloads
  <1>8. QED
    BY <1>3, <1>7 DEF Parses

\* What a name says is one type only.
LEMMA NameFacts == \A s, t : << s >> = << t >> => s = t
  OBVIOUS

(***************************************************************************)
(* The server's side: acceptMessage parses the message that sendRequest    *)
(* was given, whatever its bytes; one that is too large arrives as an      *)
(* empty one of its type, without an error.                                *)
(***************************************************************************)
THEOREM RequestRoundTrip ==
    ASSUME NEW m \in Messages
    PROVE  makeBaseProtoFromPayload(makePayloadFromProto(m))
               = Message(m.type, SerializeToString(m))
  <1> DEFINE p == makePayloadFromProto(m)
             data == SerializeToString(m)
  <1>1. m.type \in TypeNames /\ data \in Seq(Bytes)
    BY SerializedFacts DEF Messages
  <1>2. p = createProtoPayload(m.type, data)
    BY DEF makePayloadFromProto
  <1> HIDE DEF p, data
  <1>3. Delimiters(p) # {}
    BY <1>1, <1>2, DelimiterFacts
  <1>4. TypeName(p) = << m.type >> /\ Data(p) = data /\ Parses(Data(p))
    BY <1>1, <1>2, SplitFacts
  <1>5. (CHOOSE type \in TypeNames : TypeName(p) = << type >>) = m.type
    BY <1>1, <1>4, NameFacts
  <1>6. makeBaseProtoFromPayload(p) = Message(m.type, data)
    BY <1>1, <1>3, <1>4, <1>5 DEF makeBaseProtoFromPayload
  <1>7. QED
    BY <1>6 DEF p, data

(***************************************************************************)
(* The client's side: makeProtoFromPayload takes a reply exactly if it is  *)
(* of the type that the call expects.                                      *)
(***************************************************************************)
THEOREM ReplyRoundTrip ==
    ASSUME NEW m \in Messages, NEW type \in TypeNames
    PROVE  makeProtoFromPayload(type, makePayloadFromProto(m)) =
               IF type = m.type THEN Message(type, SerializeToString(m))
                                ELSE Error("TypeMismatch")
  <1> DEFINE p == makePayloadFromProto(m)
             data == SerializeToString(m)
  <1>1. m.type \in TypeNames /\ data \in Seq(Bytes)
    BY SerializedFacts DEF Messages
  <1>2. p = createProtoPayload(m.type, data)
    BY DEF makePayloadFromProto
  <1> HIDE DEF p, data
  <1>3. Delimiters(p) # {}
    BY <1>1, <1>2, DelimiterFacts
  <1>4. TypeName(p) = << m.type >> /\ Data(p) = data /\ Parses(Data(p))
    BY <1>1, <1>2, SplitFacts
  <1>5. TypeName(p) = << type >> <=> type = m.type
    BY <1>4, NameFacts
  <1>6. makeProtoFromPayload(type, p) =
            IF type = m.type THEN Message(type, data) ELSE Error("TypeMismatch")
    BY <1>3, <1>4, <1>5 DEF makeProtoFromPayload
  <1>7. QED
    BY <1>6 DEF p, data

(***************************************************************************)
(* Neither end checks that a length fits the header, and it does: the      *)
(* serializer's own limit is below it.                                     *)
(***************************************************************************)
THEOREM HeaderIsExact ==
    ASSUME NEW m \in Messages
    PROVE  HeaderLength(makePayloadFromProto(m)) = Len(makePayloadFromProto(m))
  <1> DEFINE p == makePayloadFromProto(m)
             data == SerializeToString(m)
  <1>1. m.type \in TypeNames /\ data \in Seq(Bytes) /\ Len(data) <= MaxSerialized
    BY SerializedFacts DEF Messages
  <1>2. p = createProtoPayload(m.type, data)
    BY DEF makePayloadFromProto
  <1> HIDE DEF p, data
  <1>3. Len(p) = Len(data) + 2
    BY <1>1, <1>2, PayloadFacts
  <1>4. Len(p) \in Nat /\ Len(p) < LengthModulus /\ LengthModulus \in Nat
    BY <1>1, <1>3, CodecAssumption
  <1>5. HeaderLength(p) = Len(p)
    BY <1>4 DEF HeaderLength
  <1>6. QED
    BY <1>5 DEF p
=============================================================================
