----------------------------- MODULE PayloadCodec -----------------------------
(***************************************************************************)
(* The payload of a frame: a message's type name, a colon, and the bytes   *)
(* that protobuf makes of it.  A payload is a sequence of symbols: a type  *)
(* name is one symbol, and a colon may also be among the bytes.            *)
(***************************************************************************)
EXTENDS Integers, Sequences

CONSTANTS
    TypeNames,      \* full names of the message types that are linked in
    Bytes,          \* what else payloads are made of, the colon included
    Colon,
    MaxSerialized,  \* protobuf serializes no message that is larger: INT_MAX
    LengthModulus   \* the header holds a length modulo this: 2^32

ASSUME CodecAssumption ==
    /\ Colon \in Bytes
    /\ TypeNames \cap Bytes = {}
    /\ MaxSerialized \in Nat
    /\ LengthModulus \in Nat
    /\ MaxSerialized + 2 < LengthModulus

Payloads == Seq(TypeNames \cup Bytes)

\* A message: its type, and the bytes that stand for its content.
Message(type, data) == [type |-> type, data |-> data]
Messages == [type : TypeNames, data : Seq(Bytes)]

-----------------------------------------------------------------------------
\* SerializeToString clears its output first, and leaves it so if it fails.
SerializeToString(message) ==
    IF Len(message.data) <= MaxSerialized THEN message.data ELSE << >>

createProtoPayload(type, data) == << type, Colon >> \o data

\* Fault: a serializer without a limit.
makePayloadFromProto_Unlimited(message) ==
    createProtoPayload(message.type, message.data)

\* Whether SerializeToString succeeded is not asked.
makePayloadFromProto(message) ==
    createProtoPayload(message.type, SerializeToString(message))

-----------------------------------------------------------------------------
Delimiters(payload) == {i \in DOMAIN payload : payload[i] = Colon}

\* Fault: rfind instead of find.
Delimiter_Last(payload) ==
    CHOOSE i \in Delimiters(payload) : \A j \in Delimiters(payload) : j <= i

\* payload.find(':')
Delimiter(payload) ==
    CHOOSE i \in Delimiters(payload) : \A j \in Delimiters(payload) : i <= j

TypeName(payload) == SubSeq(payload, 1, Delimiter(payload) - 1)
Data(payload) == SubSeq(payload, Delimiter(payload) + 1, Len(payload))

\* Does protobuf parse it?  Not if a type name is among the bytes.
Parses(data) == \A i \in DOMAIN data : data[i] \in Bytes

Error(kind) == [error |-> kind]

\* The server's side: the type is looked up by its name.
makeBaseProtoFromPayload(payload) ==
    IF Delimiters(payload) = {} THEN Error("InvalidFormat")
    ELSE IF \A type \in TypeNames : TypeName(payload) # << type >>
        THEN Error("DeserializationFailed")
    ELSE IF ~Parses(Data(payload)) THEN Error("DeserializationFailed")
    ELSE Message(CHOOSE type \in TypeNames : TypeName(payload) = << type >>, Data(payload))

\* The client's side: the type is the one that the caller expects.
makeProtoFromPayload(type, payload) ==
    IF Delimiters(payload) = {} THEN Error("InvalidFormat")
    ELSE IF TypeName(payload) # << type >> THEN Error("TypeMismatch")
    ELSE IF ~Parses(Data(payload)) THEN Error("DeserializationFailed")
    ELSE Message(type, Data(payload))

IsError(result) == "error" \in DOMAIN result

\* The length that a frame's header says, when it has four bytes for it.
HeaderLength(payload) == Len(payload) % LengthModulus
=============================================================================
