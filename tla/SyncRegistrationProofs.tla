------------------------ MODULE SyncRegistrationProofs ------------------------
(***************************************************************************)
(* Theorems about SyncRegistration: for every set of types, of clients and *)
(* of strategies, whatever the messages hold, and however many handlers    *)
(* are registered.                                                         *)
(***************************************************************************)
EXTENDS SyncRegistration, PayloadCodecProofs

-----------------------------------------------------------------------------
(* Maps.                                                                    *)

\* A map is a function on some of the keys with its values in the set.
LEMMA MapsFacts ==
    ASSUME NEW K, NEW V, NEW f
    PROVE  f \in Maps(K, V) <=> /\ f = [x \in DOMAIN f |-> f[x]]
                                /\ DOMAIN f \subseteq K
                                /\ \A x \in DOMAIN f : f[x] \in V
  <1>1. ASSUME NEW D \in SUBSET K, f \in [D -> V]
        PROVE  DOMAIN f = D /\ f = [x \in DOMAIN f |-> f[x]] /\ \A x \in DOMAIN f : f[x] \in V
    BY <1>1
  <1>2. ASSUME f \in Maps(K, V) PROVE \E D \in SUBSET K : f \in [D -> V]
    BY <1>2 DEF Maps
  <1>3. ASSUME f = [x \in DOMAIN f |-> f[x]], DOMAIN f \subseteq K, \A x \in DOMAIN f : f[x] \in V
        PROVE  f \in Maps(K, V)
    <2>1. f \in [DOMAIN f -> V]
      BY <1>3
    <2>2. QED
      BY <1>3, <2>1 DEF Maps
  <1>4. QED
    BY <1>1, <1>2, <1>3

\* Where two maps are merged the new one wins.
LEMMA OverFacts ==
    ASSUME NEW new, NEW old
    PROVE  /\ DOMAIN Over(new, old) = DOMAIN new \cup DOMAIN old
           /\ \A x \in DOMAIN new \cup DOMAIN old :
                  Over(new, old)[x] = IF x \in DOMAIN new THEN new[x] ELSE old[x]
  BY DEF Over

\* Putting a pair in a map overrides what the key had.
LEMMA PutFacts ==
    ASSUME NEW map, NEW t, NEW value
    PROVE  /\ DOMAIN Put(map, t, value) = {t} \cup DOMAIN map
           /\ \A x \in {t} \cup DOMAIN map :
                  Put(map, t, value)[x] = IF x = t THEN value ELSE map[x]
  BY DEF Put, Over

\* The map with no key is a map over any keys and values.
LEMMA EmptyMapFacts == DOMAIN EmptyMap = {} /\ \A K, V : EmptyMap \in Maps(K, V)
  <1>1. DOMAIN EmptyMap = {} /\ EmptyMap = [x \in DOMAIN EmptyMap |-> EmptyMap[x]]
    BY DEF EmptyMap
  <1>2. QED
    BY <1>1, MapsFacts

\* Merging maps gives a map.
LEMMA OverType ==
    ASSUME NEW K, NEW V, NEW new \in Maps(K, V), NEW old \in Maps(K, V)
    PROVE  Over(new, old) \in Maps(K, V)
  <1>1. /\ DOMAIN new \subseteq K /\ \A x \in DOMAIN new : new[x] \in V
        /\ DOMAIN old \subseteq K /\ \A x \in DOMAIN old : old[x] \in V
    BY MapsFacts
  <1> DEFINE f == Over(new, old)
  <1>2. f = [x \in DOMAIN f |-> f[x]]
    BY DEF Over
  <1>3. DOMAIN f \subseteq K /\ \A x \in DOMAIN f : f[x] \in V
    BY <1>1 DEF Over
  <1> HIDE DEF f
  <1>4. f \in Maps(K, V)
    BY <1>2, <1>3, MapsFacts
  <1>5. QED
    BY <1>4 DEF f

\* Putting a pair of the right types in a map gives a map.
LEMMA PutType ==
    ASSUME NEW K, NEW V, NEW map \in Maps(K, V), NEW t \in K, NEW value \in V
    PROVE  Put(map, t, value) \in Maps(K, V)
  <1>1. DOMAIN map \subseteq K /\ \A x \in DOMAIN map : map[x] \in V
    BY MapsFacts
  <1> DEFINE f == Put(map, t, value)
  <1>2. f = [x \in DOMAIN f |-> f[x]]
    BY DEF Put, Over
  <1>3. DOMAIN f \subseteq K /\ \A x \in DOMAIN f : f[x] \in V
    BY <1>1 DEF Put, Over
  <1> HIDE DEF f
  <1>4. f \in Maps(K, V)
    BY <1>2, <1>3, MapsFacts
  <1>5. QED
    BY <1>4 DEF f

\* A map is also one into a larger set of values.
LEMMA MapsGrow ==
    ASSUME NEW K, NEW V, NEW W, V \subseteq W, NEW map \in Maps(K, V)
    PROVE  map \in Maps(K, W)
  <1>1. /\ map = [x \in DOMAIN map |-> map[x]]
        /\ DOMAIN map \subseteq K /\ \A x \in DOMAIN map : map[x] \in V
    BY MapsFacts
  <1>2. QED
    BY <1>1, MapsFacts
-----------------------------------------------------------------------------
(* The inductive invariant.                                                 *)

Registration == [request : Requests, response : Responses, early : BOOLEAN,
                 answer : {"true", "false", "threw"}]

\* The types, and that registerHandler's calls are a sequence.
Types ==
    /\ TypeOK
    /\ registered \in Seq(Registration)

\* The server's own handler is there first and for good.
Builtin ==
    /\ 1 \in DOMAIN registered
    /\ registered[1].early /\ registered[1].answer = "true"
    /\ \A i \in DOMAIN registered : registered[i].request = MappingRequest <=> i = 1
    /\ MappingRequest \in DOMAIN handlers /\ handlers[MappingRequest] = 1
    /\ MappingRequest \in DOMAIN pairs /\ pairs[MappingRequest] = MappingResponse

\* Every call of registerHandler left its type with a handler, and with the
\* one that the strategy says.
InForce ==
    /\ \A i \in DOMAIN registered : registered[i].request \in DOMAIN handlers
    /\ \A t \in DOMAIN handlers :
           /\ handlers[t] \in Attempts(t)
           /\ \A i \in Attempts(t) :
                  IF strategy = "SilentOverride" THEN i <= handlers[t] ELSE handlers[t] <= i

HandlersInv == Builtin /\ InForce /\ MapsAgree /\ AnswerTellsTruth

\* Where a client and its connection can stand at the same time.
Connections ==
    /\ \A c \in Clients : client[c] \in {"new", "ready", "failed"} => wire[c] = "quiet"
    /\ \A c \in Clients : client[c] = "new" <=> link[c] = "none"
    /\ \A c \in Clients : wire[c] = "handling" => link[c] = "served"
    /\ \A c \in Clients : link[c] = "served" => serverState = "running"
    /\ \A c \in Clients :
           wire[c] = "reply" \/ (Reflects(c) /\ client[c] \in {"ready", "calling"})
               => serverState # "configuring"
    /\ \A c \in Clients : client[c] \in {"new", "connecting"} => outcome[c] = "none"
    /\ \A c \in Clients : client[c] = "connecting" =>
           Reflects(c) /\ call[c].request = MappingRequest

\* What the server's handler for a type replies, but for one that was
\* replaced since.
Answers(t, response) ==
    /\ t \in DOMAIN pairs
    /\ pairs[t] = response \/ Overridden(t)

\* While a handler runs, it is the one for the request that was sent.
Handling ==
    \A c \in Clients : wire[c] = "handling" =>
        /\ executing \in DOMAIN registered
        /\ registered[executing].request = call[c].request
        /\ Answers(call[c].request, registered[executing].response)
        /\ argument = Message(call[c].request, SerializeToString(Sent(c)))

\* A map as reflection may report it.
Faithful(map) == \A t \in DOMAIN map : Answers(t, map[t])
Complete(map) ==
    \A i \in DOMAIN registered : registered[i].early => registered[i].request \in DOMAIN map

Replies ==
    \A c \in Clients : wire[c] = "reply" =>
        /\ Answers(call[c].request, reply[c].type)
        /\ client[c] = "connecting" => Faithful(reply[c].mappings) /\ Complete(reply[c].mappings)

\* What a client that reflects has in its map, and does with it.  Until its
\* reflection is over it has but the pair for that, besides its own; afterwards
\* what the server answers.
ReflectedMap(c) ==
    /\ \A t \in DOMAIN clientPairs[c] \ own[c] :
           /\ t \in DOMAIN pairs
           /\ client[c] \in {"new", "connecting"} =>
                  t = MappingRequest /\ clientPairs[c][t] = MappingResponse
           /\ client[c] \in {"ready", "calling"} => Answers(t, clientPairs[c][t])
    /\ client[c] \in {"ready", "calling"} => Complete(clientPairs[c])
    /\ client[c] = "calling" => /\ call[c].request \in DOMAIN clientPairs[c]
                                /\ clientPairs[c][call[c].request] = call[c].response
    /\ wire[c] = "request" => call[c].request \in own[c] \cup DOMAIN pairs
    /\ client[c] = "ready" /\ outcome[c] = "mismatch" =>
           call[c].request \in own[c] \/ Overridden(call[c].request)

Reflection == \A c \in Clients : Reflects(c) => ReflectedMap(c)

\* Once a request without a handler has ended the server, nothing of it changes.
Culprit ==
    culprit # NoOne =>
        /\ serverState = "stopped"
        /\ link[culprit] = "closed"
        /\ call[culprit].request \notin DOMAIN handlers
        /\ Reflects(culprit) => call[culprit].request \in own[culprit]

Inv == Types /\ HandlersInv /\ Connections /\ Handling /\ Replies /\ Reflection /\ Culprit
-----------------------------------------------------------------------------
(* What single steps do.                                                    *)

\* A request is parsed as the message that it was, or as the empty one.
LEMMA RequestFacts ==
    ASSUME Types, NEW c \in Clients
    PROVE  /\ makeBaseProtoFromPayload(Payload(c))
                  = Message(call[c].request, SerializeToString(Sent(c)))
           /\ ~IsError(makeBaseProtoFromPayload(Payload(c)))
           /\ Len(call[c].body) <= MaxSerialized =>
                  Message(call[c].request, SerializeToString(Sent(c))) = Sent(c)
           /\ call[c].request \in Requests
           /\ SerializeToString(Sent(c)) \in Bodies \cup {<< >>}
           /\ HeaderLength(Payload(c)) = Len(Payload(c))
  <1>1. call[c] \in Call
    BY DEF Types, TypeOK
  <1>2. call[c].request \in Requests /\ call[c].body \in Bodies \cup {<< >>}
    BY <1>1 DEF Call
  <1>3. call[c].request \in TypeNames /\ call[c].body \in Seq(Bytes)
    <2>1. << >> \in Seq(Bytes)
      OBVIOUS
    <2>2. Bodies \subseteq Seq(Bytes) /\ Requests \subseteq TypeNames
      BY RegistrationAssumption
    <2>3. QED
      BY <1>2, <2>1, <2>2
  <1>4. Sent(c) \in Messages
    BY <1>3 DEF Sent, Message, Messages
  <1>5. Sent(c).type = call[c].request /\ Sent(c).data = call[c].body
    BY DEF Sent, Message
  <1>6. makeBaseProtoFromPayload(Payload(c)) = Message(call[c].request, SerializeToString(Sent(c)))
    BY <1>4, <1>5, RequestRoundTrip DEF Payload
  <1>7. ~IsError(Message(call[c].request, SerializeToString(Sent(c))))
    BY DEF IsError, Message
  <1>8. SerializeToString(Sent(c)) \in Bodies \cup {<< >>}
    BY <1>2, <1>5 DEF SerializeToString
  <1>9. Len(call[c].body) <= MaxSerialized =>
            Message(call[c].request, SerializeToString(Sent(c))) = Sent(c)
    BY <1>4, <1>5, SerializedFacts DEF Sent
  <1>10. HeaderLength(Payload(c)) = Len(Payload(c))
    BY <1>4, HeaderIsExact DEF Payload
  <1>11. QED
    BY <1>2, <1>6, <1>7, <1>8, <1>9, <1>10

\* A reply is refused exactly if its type is not the one expected.
LEMMA ReplyFacts ==
    ASSUME NEW type \in Responses, NEW expected \in Responses
    PROVE  IsError(makeProtoFromPayload(expected, makePayloadFromProto(Message(type, << >>))))
               <=> type # expected
  <1>1. type \in TypeNames /\ expected \in TypeNames
    BY RegistrationAssumption
  <1>2. Message(type, << >>) \in Messages /\ Message(type, << >>).type = type
    BY <1>1 DEF Message, Messages
  <1>3. makeProtoFromPayload(expected, makePayloadFromProto(Message(type, << >>))) =
            IF expected = type
               THEN Message(expected, SerializeToString(Message(type, << >>)))
               ELSE Error("TypeMismatch")
    BY <1>1, <1>2, ReplyRoundTrip
  <1>4. IsError(Error("TypeMismatch"))
    BY DEF IsError, Error
  <1>5. ~IsError(Message(expected, SerializeToString(Message(type, << >>))))
    BY DEF IsError, Message
  <1>6. QED
    BY <1>3, <1>4, <1>5

\* The registrations, as every step but registerHandler leaves them.
registrationVars == << strategy, registered, handlers, pairs >>

\* What registerHandler does to the history and the maps.
Registers(request, response) ==
    LET entry == [request |-> request, response |-> response,
                  early |-> serverState = "configuring",
                  answer |-> IF request \in DOMAIN handlers THEN AnswerToDuplicate ELSE "true"]
    IN  /\ registered' = Append(registered, entry)
        /\ \/ /\ request \notin DOMAIN handlers \/ Replaces
              /\ handlers' = Put(handlers, request, Len(registered) + 1)
              /\ pairs' = Put(pairs, request, response)
           \/ /\ request \in DOMAIN handlers /\ ~Replaces
              /\ UNCHANGED << handlers, pairs >>
        /\ UNCHANGED << strategy, serverState, executing, argument, culprit, clientVars >>

\* What registering a handler does to the server's attempts and maps.
LEMMA RegisterHandlerFacts ==
    ASSUME Types, NEW request \in RequestTypes, NEW response \in ResponseTypes,
           RegisterHandler(request, response)
    PROVE  /\ Registers(request, response)
           /\ serverState = "configuring" \/ executing > 1
           /\ request \in Requests /\ request # MappingRequest /\ response \in Responses
           /\ registered' \in Seq(Registration)
           /\ Len(registered) \in Nat /\ Len(registered') = Len(registered) + 1
           /\ DOMAIN registered = 1 .. Len(registered)
           /\ DOMAIN registered' = 1 .. Len(registered) + 1
           /\ \A i \in 1 .. Len(registered) : registered'[i] = registered[i]
           /\ registered'[Len(registered) + 1] =
                  [request |-> request, response |-> response,
                   early |-> serverState = "configuring",
                   answer |-> IF request \in DOMAIN handlers THEN AnswerToDuplicate ELSE "true"]
           /\ registered'[Len(registered) + 1].request = request
           /\ registered'[Len(registered) + 1].early <=> serverState = "configuring"
  <1> DEFINE entry == [request |-> request, response |-> response,
                       early |-> serverState = "configuring",
                       answer |-> IF request \in DOMAIN handlers THEN AnswerToDuplicate
                                                                 ELSE "true"]
  <1>1. request \in Requests /\ request # MappingRequest /\ response \in Responses
    BY RegistrationAssumption DEF Requests, Responses
  <1>2. strategy \in DuplicateStrategies
    BY RegistrationAssumption DEF Types, TypeOK
  <1>3. AnswerToDuplicate \in {"true", "false", "threw"}
    BY <1>2 DEF AnswerToDuplicate, DuplicateStrategies
  <1>4. entry \in Registration
    BY <1>1, <1>3 DEF Registration
  <1>5. registered \in Seq(Registration)
    BY DEF Types
  <1>6. registered' = Append(registered, entry)
    BY DEF RegisterHandler
  <1>7. entry.request = request /\ (entry.early <=> serverState = "configuring")
    OBVIOUS
  <1> HIDE DEF entry
  <1>8. /\ registered' \in Seq(Registration)
        /\ Len(registered) \in Nat /\ Len(registered') = Len(registered) + 1
        /\ DOMAIN registered = 1 .. Len(registered)
        /\ DOMAIN registered' = 1 .. Len(registered) + 1
        /\ \A i \in 1 .. Len(registered) : registered'[i] = registered[i]
        /\ registered'[Len(registered) + 1] = entry
    BY <1>4, <1>5, <1>6
  <1>9. serverState = "configuring" \/ executing > 1
    BY DEF RegisterHandler
  <1>10. Registers(request, response)
    BY <1>6, <1>8 DEF RegisterHandler, Registers, SetHandler, entry
  <1>11. QED
    BY <1>1, <1>7, <1>8, <1>9, <1>10 DEF entry

\* No other step touches the registrations.
LEMMA OthersRegisterNothing ==
    ASSUME [Next]_vars
    PROVE  \/ \E request \in RequestTypes, response \in ResponseTypes :
                 RegisterHandler(request, response)
           \/ UNCHANGED registrationVars
  BY DEF Next, vars, serverVars, registrationVars, RegisterPair, SendRequest, Start, Accept,
         Dispatch, Reject, HandlerReturns, HandlerThrows, SessionEnds, Stop, Connect,
         FinishReflection, ReceiveReply, ReceiveFails, Leave
-----------------------------------------------------------------------------
(* The server's maps.                                                       *)

\* An upper bound that belongs to the set is its maximum.
LEMMA MaxFacts ==
    ASSUME NEW S \in SUBSET Int, NEW n \in S, \A i \in S : i <= n
    PROVE  Max(S) = n
  <1>1. \E x \in S : \A y \in S : x >= y
    OBVIOUS
  <1> DEFINE m == Max(S)
  <1>2. m \in S /\ \A y \in S : m >= y
    BY <1>1, Zenon DEF Max
  <1> HIDE DEF m
  <1>3. m = n
    BY <1>2
  <1>4. QED
    BY <1>3 DEF m

\* A lower bound that belongs to the set is its minimum.
LEMMA MinFacts ==
    ASSUME NEW S \in SUBSET Int, NEW n \in S, \A i \in S : n <= i
    PROVE  Min(S) = n
  <1>1. \E x \in S : \A y \in S : x =< y
    OBVIOUS
  <1> DEFINE m == Min(S)
  <1>2. m \in S /\ \A y \in S : m =< y
    BY <1>1, Zenon DEF Min
  <1> HIDE DEF m
  <1>3. m = n
    BY <1>2
  <1>4. QED
    BY <1>3 DEF m

\* The inductive form, with bounds, gives the one with Min and Max.
LEMMA InForceIsFirstOrLast == Types /\ InForce => FirstOrLastInForce
  <1> SUFFICES ASSUME Types, InForce, NEW t \in DOMAIN handlers
               PROVE  handlers[t] = IF strategy = "SilentOverride" THEN Max(Attempts(t))
                                                                   ELSE Min(Attempts(t))
    BY DEF FirstOrLastInForce
  <1>1. Attempts(t) \in SUBSET Int
    BY DEF Attempts, Types
  <1>2. handlers[t] \in Attempts(t)
    BY DEF InForce
  <1>3. CASE strategy = "SilentOverride"
    <2>1. \A i \in Attempts(t) : i <= handlers[t]
      BY <1>3 DEF InForce
    <2>2. QED
      BY <1>1, <1>2, <1>3, <2>1, MaxFacts
  <1>4. CASE strategy # "SilentOverride"
    <2>1. \A i \in Attempts(t) : handlers[t] <= i
      BY <1>4 DEF InForce
    <2>2. QED
      BY <1>1, <1>2, <1>4, <2>1, MinFacts
  <1>5. QED
    BY <1>3, <1>4

\* The maps of the server agree with the attempts after every step.
LEMMA HandlersStep ==
    Types /\ HandlersInv /\ [Next]_vars => HandlersInv'
  <1> SUFFICES ASSUME Types, HandlersInv, [Next]_vars
               PROVE  HandlersInv'
    OBVIOUS
  <1>1. CASE UNCHANGED registrationVars
    <2>1. Builtin'
      BY <1>1 DEF HandlersInv, Builtin, registrationVars
    <2>2. InForce'
      BY <1>1 DEF HandlersInv, InForce, Attempts, registrationVars
    <2>3. MapsAgree' /\ AnswerTellsTruth'
      BY <1>1 DEF HandlersInv, MapsAgree, AnswerTellsTruth, registrationVars
    <2>4. QED
      BY <2>1, <2>2, <2>3 DEF HandlersInv
  <1>2. ASSUME NEW request \in RequestTypes, NEW response \in ResponseTypes,
               RegisterHandler(request, response)
        PROVE  HandlersInv'
    <2> DEFINE n == Len(registered)
    <2>1. /\ Registers(request, response)
          /\ request # MappingRequest
          /\ n \in Nat
          /\ DOMAIN registered = 1 .. n /\ DOMAIN registered' = 1 .. n + 1
          /\ \A i \in 1 .. n : registered'[i] = registered[i]
          /\ registered'[n + 1] =
                 [request |-> request, response |-> response,
                  early |-> serverState = "configuring",
                  answer |-> IF request \in DOMAIN handlers THEN AnswerToDuplicate ELSE "true"]
      BY <1>2, RegisterHandlerFacts
    <2> HIDE DEF n
    <2>2. strategy' = strategy
      BY <2>1 DEF Registers
    <2>3. strategy \in DuplicateStrategies
      BY RegistrationAssumption DEF Types, TypeOK
    <2>4. \A t \in DOMAIN handlers : handlers[t] \in 1 .. n
      BY <2>1 DEF HandlersInv, InForce, Attempts
    <2>5. \A t : Attempts(t)' = IF t = request THEN Attempts(t) \cup {n + 1} ELSE Attempts(t)
      BY <2>1 DEF Attempts
    <2>6. CASE request \notin DOMAIN handlers \/ Replaces
      <3>1. /\ handlers' = Put(handlers, request, n + 1)
            /\ pairs' = Put(pairs, request, response)
        BY <2>1, <2>6 DEF Registers, n
      <3>2. /\ DOMAIN handlers' = {request} \cup DOMAIN handlers
            /\ \A t \in DOMAIN handlers' : handlers'[t] = IF t = request THEN n + 1 ELSE handlers[t]
        BY <3>1 DEF Put, Over
      <3>3. /\ DOMAIN pairs' = {request} \cup DOMAIN pairs
            /\ \A t \in DOMAIN pairs' : pairs'[t] = IF t = request THEN response ELSE pairs[t]
        BY <3>1 DEF Put, Over
      <3>4. Builtin'
        BY <2>1, <3>2, <3>3 DEF HandlersInv, Builtin
      <3>5. InForce'
        <4>1. \A i \in DOMAIN registered' : registered'[i].request \in DOMAIN handlers'
          BY <2>1, <3>2 DEF HandlersInv, InForce
        <4>2. ASSUME NEW t \in DOMAIN handlers', t # request
              PROVE  /\ handlers'[t] \in Attempts(t)'
                     /\ \A i \in Attempts(t)' :
                            IF strategy' = "SilentOverride" THEN i <= handlers'[t]
                                                           ELSE handlers'[t] <= i
          BY <2>2, <2>5, <3>2, <4>2 DEF HandlersInv, InForce
        <4>3. request \notin DOMAIN handlers => Attempts(request) = {}
          BY DEF Attempts, HandlersInv, InForce
        <4>4. Attempts(request) \subseteq 1 .. n
          BY <2>1 DEF Attempts
        <4>5. /\ handlers'[request] \in Attempts(request)'
              /\ \A i \in Attempts(request)' :
                     IF strategy' = "SilentOverride" THEN i <= handlers'[request]
                                                    ELSE handlers'[request] <= i
          BY <2>1, <2>2, <2>5, <2>6, <3>2, <4>3, <4>4 DEF Replaces
        <4>6. QED
          BY <4>1, <4>2, <4>5 DEF InForce
      <3>6. MapsAgree'
        BY <2>1, <2>4, <3>2, <3>3 DEF HandlersInv, MapsAgree
      <3>7. AnswerTellsTruth'
        <4>1. CASE Replaces
          BY <2>2, <4>1 DEF AnswerTellsTruth, Replaces
        <4>2. CASE request \notin DOMAIN handlers
          <5>1. \A i \in 1 .. n : registered[i].request # request
            BY <2>1, <4>2 DEF HandlersInv, InForce
          <5>2. \A i \in 1 .. n : registered[i].request \in DOMAIN handlers
            BY <2>1 DEF HandlersInv, InForce
          <5>3. registered'[n + 1].answer = "true" /\ registered'[n + 1].request = request
            BY <2>1, <4>2
          <5>4. QED
            BY <2>1, <2>2, <3>2, <5>1, <5>2, <5>3 DEF HandlersInv, AnswerTellsTruth
        <4>3. QED
          BY <2>6, <4>1, <4>2
      <3>8. QED
        BY <3>4, <3>5, <3>6, <3>7 DEF HandlersInv
    <2>7. CASE request \in DOMAIN handlers /\ ~Replaces
      <3>1. handlers' = handlers /\ pairs' = pairs
        BY <2>1, <2>7 DEF Registers
      <3>2. Builtin'
        BY <2>1, <3>1 DEF HandlersInv, Builtin
      <3>3. InForce'
        <4>1. \A i \in DOMAIN registered' : registered'[i].request \in DOMAIN handlers'
          BY <2>1, <2>7, <3>1 DEF HandlersInv, InForce
        <4>2. ASSUME NEW t \in DOMAIN handlers'
              PROVE  /\ handlers'[t] \in Attempts(t)'
                     /\ \A i \in Attempts(t)' :
                            IF strategy' = "SilentOverride" THEN i <= handlers'[t]
                                                           ELSE handlers'[t] <= i
          BY <2>1, <2>2, <2>4, <2>5, <2>7, <3>1 DEF HandlersInv, InForce, Replaces
        <4>3. QED
          BY <4>1, <4>2 DEF InForce
      <3>4. MapsAgree'
        BY <2>1, <2>4, <3>1 DEF HandlersInv, MapsAgree
      <3>5. AnswerTellsTruth'
        <4>1. ASSUME strategy \in {"IndicateIgnore", "Throw"}
              PROVE  registered'[n + 1].answer # "true" /\ registered'[n + 1].request = request
          BY <2>1, <2>7, <4>1 DEF AnswerToDuplicate
        <4>2. handlers[request] # n + 1
          BY <2>1, <2>4, <2>7
        <4>3. QED
          BY <2>1, <2>2, <3>1, <4>1, <4>2 DEF HandlersInv, AnswerTellsTruth
      <3>6. QED
        BY <3>2, <3>3, <3>4, <3>5 DEF HandlersInv
    <2>8. QED
      BY <2>6, <2>7
  <1>3. QED
    BY <1>1, <1>2, OthersRegisterNothing
-----------------------------------------------------------------------------
(* Types.                                                                   *)

\* Stopping the server keeps the types.
LEMMA StopTypes ==
    ASSUME Types, Stop, culprit' \in Clients \cup {NoOne}
    PROVE  Types'
  <1>1. registrationVars' = registrationVars
    BY DEF Stop, registrationVars
  <1>2. /\ link' \in [Clients -> {"none", "queued", "served", "closed"}]
        /\ \A c \in Clients : link'[c] # "served"
    BY DEF Stop
  <1>3. /\ wire' \in [Clients -> {"quiet", "request", "handling", "reply"}]
        /\ \A c \in Clients : wire'[c] # "handling"
    BY DEF Stop
  <1>4. QED
    BY <1>1, <1>2, <1>3 DEF Stop, Types, TypeOK, registrationVars

\* A step of a client only.
ClientStep(c) ==
    \/ \E request \in RequestTypes, response \in ResponseTypes :
          \/ RegisterPair(c, request, response)
          \/ \E body \in Bodies : SendRequest(c, request, response, body)
    \/ Connect(c)
    \/ FinishReflection(c)
    \/ ReceiveReply(c)
    \/ ReceiveFails(c)
    \/ Leave(c)

\* Giving a client another map keeps the types of the clients' maps.
LEMMA ClientPairsType ==
    ASSUME Types, NEW c \in Clients, NEW map \in Maps(Requests, Responses)
    PROVE  [clientPairs EXCEPT ![c] = map] \in [Clients -> Maps(Requests, Responses)]
  BY DEF Types, TypeOK

\* A client's step keeps the types.
LEMMA ClientTypes ==
    ASSUME Types, Connections, NEW c \in Clients, ClientStep(c)
    PROVE  Types'
  <1>1. /\ clientPairs[c] \in Maps(Requests, Responses)
        /\ MappingRequest \in Requests /\ MappingResponse \in Responses
        /\ RequestTypes \subseteq Requests /\ ResponseTypes \subseteq Responses
    BY DEF Types, TypeOK, Requests, Responses
  <1>2. UNCHANGED serverVars
    BY DEF ClientStep, RegisterPair, SendRequest, Connect, FinishReflection, ReceiveReply,
           ReceiveFails, Leave
  <1>3. options' = options
    BY DEF ClientStep, RegisterPair, SendRequest, Connect, FinishReflection, ReceiveReply,
           ReceiveFails, Leave
  <1>4. clientPairs' \in [Clients -> Maps(Requests, Responses)]
    <2>1. ASSUME NEW request \in RequestTypes, NEW response \in ResponseTypes,
                 RegisterPair(c, request, response)
          PROVE  clientPairs' \in [Clients -> Maps(Requests, Responses)]
      <3> DEFINE map == Put(clientPairs[c], request, response)
      <3>1. clientPairs' = [clientPairs EXCEPT ![c] = map]
        BY <2>1 DEF RegisterPair
      <3>2. request \in Requests /\ response \in Responses
        BY <1>1
      <3>3. map \in Maps(Requests, Responses)
        BY <1>1, <3>2, PutType, Zenon
      <3> HIDE DEF map
      <3>4. QED
        BY <3>1, <3>3, ClientPairsType
    <2>2. CASE Connect(c)
      <3> DEFINE map == Put(clientPairs[c], MappingRequest, MappingResponse)
      <3>1. clientPairs' \in {clientPairs, [clientPairs EXCEPT ![c] = map]}
        BY <2>2 DEF Connect
      <3>2. map \in Maps(Requests, Responses)
        BY <1>1, PutType, Zenon
      <3> HIDE DEF map
      <3>3. QED
        BY <3>1, <3>2, ClientPairsType DEF Types, TypeOK
    <2>3. CASE FinishReflection(c)
      <3> DEFINE map == Over(reply[c].mappings, clientPairs[c])
      <3>1. clientPairs' = [clientPairs EXCEPT ![c] = map]
        BY <2>3 DEF FinishReflection, Types, TypeOK
      <3>2. reply[c].mappings \in Maps(Requests, Responses)
        BY DEF Types, TypeOK, Reply
      <3>3. map \in Maps(Requests, Responses)
        BY <1>1, <3>2, OverType, Zenon
      <3> HIDE DEF map
      <3>4. QED
        BY <3>1, <3>3, ClientPairsType
    <2>4. CASE clientPairs' = clientPairs
      BY <2>4 DEF Types, TypeOK
    <2>5. QED
      BY <2>1, <2>2, <2>3, <2>4 DEF ClientStep, SendRequest, ReceiveReply, ReceiveFails, Leave
  <1>5. own' \in [Clients -> SUBSET RequestTypes]
    BY DEF ClientStep, RegisterPair, SendRequest, Connect, FinishReflection, ReceiveReply,
           ReceiveFails, Leave, Types, TypeOK
  <1>6. client' \in [Clients -> {"new", "ready", "failed", "left"} \cup Busy]
    BY DEF ClientStep, RegisterPair, SendRequest, Connect, FinishReflection, ReceiveReply,
           ReceiveFails, Leave, Types, TypeOK, Busy
  <1>7. call' \in [Clients -> Call]
    <2>1. ASSUME NEW request \in Requests, NEW response \in Responses,
                 NEW body \in Bodies \cup {<< >>}, Issue(c, request, response, body)
          PROVE  call' \in [Clients -> Call]
      <3>1. [request |-> request, response |-> response, body |-> body] \in Call
        BY DEF Call
      <3>2. QED
        BY <2>1, <3>1 DEF Issue, Types, TypeOK
    <2>2. \A body \in Bodies : body \in Bodies \cup {<< >>}
      OBVIOUS
    <2>3. << >> \in Bodies \cup {<< >>}
      OBVIOUS
    <2>4. CASE Connect(c)
      <3>1. call' = call \/ Issue(c, MappingRequest, MappingResponse, << >>)
        BY <2>4 DEF Connect
      <3>2. QED
        BY <1>1, <2>1, <2>3, <3>1 DEF Types, TypeOK
    <2>5. ASSUME NEW request \in RequestTypes, NEW response \in ResponseTypes, NEW body \in Bodies,
                 SendRequest(c, request, response, body)
          PROVE  call' \in [Clients -> Call]
      <3>1. Issue(c, request, response, body)
        BY <2>5 DEF SendRequest
      <3>2. request \in Requests /\ response \in Responses /\ body \in Bodies \cup {<< >>}
        BY <1>1
      <3>3. QED
        BY <2>1, <3>1, <3>2
    <2>6. CASE call' = call
      BY <2>6 DEF Types, TypeOK
    <2>7. QED
      BY <2>4, <2>5, <2>6 DEF ClientStep, RegisterPair, FinishReflection, ReceiveReply,
             ReceiveFails, Leave
  <1>8. /\ link' \in [Clients -> {"none", "queued", "served", "closed"}]
        /\ \A d, e \in Clients : link'[d] = "served" /\ link'[e] = "served" => d = e
    BY DEF ClientStep, RegisterPair, SendRequest, Connect, FinishReflection, ReceiveReply,
           ReceiveFails, Leave, Types, TypeOK
  <1>9. /\ wire' \in [Clients -> {"quiet", "request", "handling", "reply"}]
        /\ \A d \in Clients : wire'[d] = "handling" <=> wire[d] = "handling"
    BY DEF ClientStep, RegisterPair, SendRequest, Connect, FinishReflection, ReceiveReply,
           ReceiveFails, Leave, Issue, Taken, Types, TypeOK, Connections
  <1>10. reply' \in [Clients -> Reply]
    <2>1. NoReply \in Reply
      BY <1>1, EmptyMapFacts DEF NoReply, Reply
    <2>2. QED
      BY <2>1 DEF ClientStep, RegisterPair, SendRequest, Connect, FinishReflection, ReceiveReply,
             ReceiveFails, Leave, Issue, Taken, Types, TypeOK
  <1>11. outcome' \in [Clients -> {"none", "ok", "mismatch", "lost"}]
    BY DEF ClientStep, RegisterPair, SendRequest, Connect, FinishReflection, ReceiveReply,
           ReceiveFails, Leave, Types, TypeOK
  <1>12. QED
    BY <1>2, <1>3, <1>4, <1>5, <1>6, <1>7, <1>8, <1>9, <1>10, <1>11
       DEF Types, TypeOK, serverVars

\* Every step keeps the types.
LEMMA TypesStep ==
    Types /\ HandlersInv /\ Connections /\ [Next]_vars => Types'
  <1> SUFFICES ASSUME Types, HandlersInv, Connections, [Next]_vars
               PROVE  Types'
    OBVIOUS
  <1>1. ASSUME NEW request \in RequestTypes, NEW response \in ResponseTypes,
               RegisterHandler(request, response)
        PROVE  Types'
    <2>1. /\ Registers(request, response)
          /\ request \in Requests /\ response \in Responses
          /\ registered' \in Seq(Registration)
          /\ Len(registered) \in Nat
          /\ DOMAIN registered = 1 .. Len(registered)
          /\ DOMAIN registered' = 1 .. Len(registered) + 1
      BY <1>1, RegisterHandlerFacts
    <2>2. handlers \in Maps(Requests, DOMAIN registered')
      BY <2>1, MapsGrow DEF Types, TypeOK
    <2>3. handlers' \in Maps(Requests, DOMAIN registered')
      <3>1. Put(handlers, request, Len(registered) + 1) \in Maps(Requests, DOMAIN registered')
        <4>1. Len(registered) + 1 \in DOMAIN registered'
          BY <2>1
        <4>2. QED
          BY <2>1, <2>2, <4>1, PutType, Zenon
      <3>2. QED
        BY <2>1, <2>2, <3>1, Zenon DEF Registers
    <2>4. pairs' \in Maps(Requests, Responses)
      <3>1. pairs \in Maps(Requests, Responses)
        BY DEF Types, TypeOK
      <3>2. Put(pairs, request, response) \in Maps(Requests, Responses)
        BY <2>1, <3>1, PutType, Zenon
      <3>3. QED
        BY <2>1, <3>1, <3>2, Zenon DEF Registers
    <2>5. \A i \in DOMAIN registered' :
              registered'[i] \in [request : Requests, response : Responses,
                                  early : BOOLEAN, answer : {"true", "false", "threw"}]
      <3>1. \A q \in Seq(Registration) : \A i \in DOMAIN q : q[i] \in Registration
        OBVIOUS
      <3>2. QED
        BY <2>1, <3>1 DEF Registration
    <2>6. UNCHANGED << strategy, serverState, executing, argument, culprit, clientVars >>
      BY <2>1 DEF Registers
    <2>7. executing' \in DOMAIN registered' \cup {0}
      BY <2>1, <2>6 DEF Types, TypeOK
    <2>8. QED
      BY <2>1, <2>3, <2>4, <2>5, <2>6, <2>7 DEF Types, TypeOK, clientVars
  <1>2. CASE Start
    BY <1>2 DEF Start, Types, TypeOK, clientVars
  <1>3. ASSUME NEW c \in Clients, Accept(c) PROVE Types'
    BY <1>3 DEF Accept, Types, TypeOK, serverVars
  <1>4. ASSUME NEW c \in Clients, Dispatch(c) PROVE Types'
    <2>1. PICK m : m = Message(call[c].request, SerializeToString(Sent(c)))
      OBVIOUS
    <2>2. makeBaseProtoFromPayload(Payload(c)) = m
      BY <2>1, RequestFacts, Zenon
    <2>3. m.type \in Requests /\ m.data \in Bodies \cup {<< >>}
      BY <2>1, RequestFacts DEF Message
    <2>4. /\ m.type \in DOMAIN handlers /\ executing' = handlers[m.type] /\ argument' = m
          /\ wire' = [wire EXCEPT ![c] = "handling"]
          /\ UNCHANGED << strategy, registered, handlers, pairs, serverState, culprit, options,
                    clientPairs, own, client, call, link, reply, outcome >>
      BY <1>4, <2>2 DEF Dispatch
    <2>5. executing' \in DOMAIN registered
      BY <2>4 DEF HandlersInv, InForce, Attempts
    <2>6. executing' # 0
      BY <2>5 DEF Types
    <2>7. wire'[c] = "handling"
      BY <2>4 DEF Types, TypeOK
    <2>8. QED
      BY <2>3, <2>4, <2>5, <2>6, <2>7 DEF Types, TypeOK
  <1>5. ASSUME NEW c \in Clients, Reject(c) PROVE Types'
    BY <1>5, StopTypes DEF Reject
  <1>6. ASSUME NEW c \in Clients, HandlerReturns(c) PROVE Types'
    <2>1. CASE client[c] = "left"
      <3>1. Stop /\ culprit' = culprit
        BY <1>6, <2>1 DEF HandlerReturns
      <3>2. QED
        BY <3>1, StopTypes DEF Types, TypeOK
    <2>2. CASE client[c] # "left"
      <3> DEFINE answer == [type |-> registered[executing].response, mappings |-> Mappings]
      <3>1. /\ wire[c] = "handling" /\ executing' = 0
            /\ reply' = [reply EXCEPT ![c] = answer]
            /\ wire' = [wire EXCEPT ![c] = "reply"]
            /\ UNCHANGED << strategy, registered, handlers, pairs, serverState, argument, culprit,
                    options, clientPairs, own, client, call, link, outcome >>
        BY <1>6, <2>2 DEF HandlerReturns
      <3>2. Mappings \in Maps(Requests, Responses)
        BY EmptyMapFacts DEF Mappings, Types, TypeOK
      <3>3. executing \in DOMAIN registered
        BY <3>1 DEF Types, TypeOK
      <3>4. registered[executing].response \in Responses
        BY <3>3 DEF Types, TypeOK
      <3>5. answer \in Reply
        BY <3>2, <3>4 DEF Reply
      <3> HIDE DEF answer
      <3>6. \A d \in Clients : wire'[d] # "handling"
        BY <3>1 DEF Types, TypeOK, Connections
      <3>7. QED
        BY <3>1, <3>5, <3>6 DEF Types, TypeOK
    <2>3. QED
      BY <2>1, <2>2
  <1>7. ASSUME NEW c \in Clients, HandlerThrows(c) PROVE Types'
    BY <1>7, StopTypes DEF HandlerThrows, Types, TypeOK
  <1>8. ASSUME NEW c \in Clients, SessionEnds(c) PROVE Types'
    <2>1. CASE Stop /\ culprit' = culprit
      BY <2>1, StopTypes DEF Types, TypeOK
    <2>2. CASE /\ link' = [link EXCEPT ![c] = "closed"]
               /\ UNCHANGED << serverVars, options, clientPairs, own, client, call, wire,
                               reply, outcome >>
      BY <2>2 DEF Types, TypeOK, serverVars
    <2>3. QED
      BY <1>8, <2>1, <2>2 DEF SessionEnds
  <1>9. ASSUME NEW c \in Clients, ClientStep(c) PROVE Types'
    BY <1>9, ClientTypes
  <1>10. CASE UNCHANGED vars
    BY <1>10 DEF Types, TypeOK, vars, serverVars, clientVars
  <1>11. QED
    BY <1>1, <1>2, <1>3, <1>4, <1>5, <1>6, <1>7, <1>8, <1>9, <1>10 DEF Next, ClientStep
-----------------------------------------------------------------------------
(* Connections.                                                             *)

\* Stopping the server keeps the clients, links and wires in agreement.
LEMMA StopConnections ==
    ASSUME Types, Connections, Stop
    PROVE  Connections'
  BY DEF Stop, Connections, Types, TypeOK, Reflects

\* Every step keeps the clients, links and wires in agreement.
LEMMA ConnectionsStep ==
    Types /\ HandlersInv /\ Connections /\ [Next]_vars => Connections'
  <1> SUFFICES ASSUME Types, HandlersInv, Connections, [Next]_vars
               PROVE  Connections'
    OBVIOUS
  <1>1. ASSUME UNCHANGED << serverState, clientVars >> PROVE Connections'
    BY <1>1 DEF Connections, clientVars, Reflects
  <1>2. ASSUME NEW request \in RequestTypes, NEW response \in ResponseTypes,
               RegisterHandler(request, response)
        PROVE  Connections'
    BY <1>1, <1>2 DEF RegisterHandler
  <1>3. CASE Start
    BY <1>3 DEF Start, Connections, clientVars, Reflects
  <1>4. ASSUME NEW c \in Clients, Accept(c) PROVE Connections'
    BY <1>4 DEF Accept, Connections, serverVars, Reflects, Types, TypeOK
  <1>5. ASSUME NEW c \in Clients, Dispatch(c) PROVE Connections'
    <2>1. /\ HasRequest(c)
          /\ wire' = [wire EXCEPT ![c] = "handling"]
          /\ UNCHANGED << serverState, options, clientPairs, own, client, call, link, reply,
                          outcome >>
      BY <1>5 DEF Dispatch
    <2>2. QED
      BY <2>1 DEF HasRequest, Connections, Reflects, Types, TypeOK
  <1>6. ASSUME NEW c \in Clients, Reject(c) PROVE Connections'
    BY <1>6, StopConnections DEF Reject
  <1>7. ASSUME NEW c \in Clients, HandlerReturns(c) PROVE Connections'
    <2>1. CASE client[c] = "left"
      BY <1>7, <2>1, StopConnections DEF HandlerReturns
    <2>2. CASE client[c] # "left"
      <3>1. /\ wire[c] = "handling"
            /\ wire' = [wire EXCEPT ![c] = "reply"]
            /\ UNCHANGED << serverState, options, clientPairs, own, client, call, link, outcome >>
        BY <1>7, <2>2 DEF HandlerReturns
      <3>2. QED
        BY <3>1 DEF Connections, Reflects, Types, TypeOK
    <2>3. QED
      BY <2>1, <2>2
  <1>8. ASSUME NEW c \in Clients, HandlerThrows(c) PROVE Connections'
    BY <1>8, StopConnections DEF HandlerThrows
  <1>9. ASSUME NEW c \in Clients, SessionEnds(c) PROVE Connections'
    <2>1. CASE Stop
      BY <2>1, StopConnections
    <2>2. CASE /\ link[c] = "served" /\ wire[c] \in {"quiet", "reply"}
               /\ link' = [link EXCEPT ![c] = "closed"]
               /\ UNCHANGED << serverVars, options, clientPairs, own, client, call, wire,
                               reply, outcome >>
      BY <2>2 DEF Connections, serverVars, Reflects, Types, TypeOK
    <2>3. QED
      BY <1>9, <2>1, <2>2 DEF SessionEnds
  <1>10. ASSUME NEW c \in Clients, NEW request \in RequestTypes, NEW response \in ResponseTypes,
                RegisterPair(c, request, response)
         PROVE  Connections'
    BY <1>10 DEF RegisterPair, Connections, serverVars, Reflects
  <1>11. ASSUME NEW c \in Clients, NEW request \in RequestTypes, NEW response \in ResponseTypes,
                NEW body \in Bodies, SendRequest(c, request, response, body)
         PROVE  Connections'
    BY <1>11 DEF SendRequest, Issue, Connections, serverVars, Reflects, Types, TypeOK
  <1>12. ASSUME NEW c \in Clients, Connect(c) PROVE Connections'
    BY <1>12 DEF Connect, Issue, Connections, serverVars, Reflects, Types, TypeOK
  <1>13. ASSUME NEW c \in Clients, FinishReflection(c) PROVE Connections'
    BY <1>13 DEF FinishReflection, Taken, Connections, serverVars, Reflects, Types, TypeOK
  <1>14. ASSUME NEW c \in Clients, ReceiveReply(c) PROVE Connections'
    <2>1. /\ client[c] = "calling" /\ client' = [client EXCEPT ![c] = "ready"]
          /\ Taken(c)
          /\ \A d \in Clients \ {c} : outcome'[d] = outcome[d]
          /\ UNCHANGED << serverVars, options, clientPairs, own, call, link >>
      BY <1>14 DEF ReceiveReply, Types, TypeOK
    <2>2. QED
      BY <2>1 DEF Taken, Connections, serverVars, Reflects, Types, TypeOK
  <1>15. ASSUME NEW c \in Clients, ReceiveFails(c) PROVE Connections'
    BY <1>15 DEF ReceiveFails, Taken, Busy, Connections, serverVars, Reflects, Types, TypeOK
  <1>16. ASSUME NEW c \in Clients, Leave(c) PROVE Connections'
    BY <1>16 DEF Leave, Connections, serverVars, Reflects, Types, TypeOK
  <1>17. CASE UNCHANGED vars
    BY <1>1, <1>17 DEF vars, serverVars
  <1>18. QED
    BY <1>2, <1>3, <1>4, <1>5, <1>6, <1>7, <1>8, <1>9, <1>10, <1>11, <1>12, <1>13, <1>14,
       <1>15, <1>16, <1>17 DEF Next
-----------------------------------------------------------------------------
(* Requests and replies.                                                    *)

\* Overridden and Answers in the next state, of values of this one.
OverriddenNext(t) ==
    /\ strategy' = "SilentOverride"
    /\ \E i \in DOMAIN registered' : registered'[i].request = t /\ ~registered'[i].early

AnswersNext(t, response) == t \in DOMAIN pairs' /\ (pairs'[t] = response \/ OverriddenNext(t))

\* What the server answers stays true of it: a handler that takes the place
\* of another while the server runs counts as overridden.
LEMMA AnswersKept ==
    ASSUME Types, HandlersInv, [Next]_vars, serverState # "configuring"
    PROVE  \A t, response : Answers(t, response) => AnswersNext(t, response)
  <1> SUFFICES ASSUME NEW t, NEW response, Answers(t, response)
               PROVE  AnswersNext(t, response)
    OBVIOUS
  <1>1. CASE UNCHANGED registrationVars
    BY <1>1 DEF registrationVars, Answers, AnswersNext, Overridden, OverriddenNext, Attempts
  <1>2. ASSUME NEW q \in RequestTypes, NEW p \in ResponseTypes, RegisterHandler(q, p)
        PROVE  AnswersNext(t, response)
    <2> DEFINE n == Len(registered)
    <2>1. /\ Registers(q, p)
          /\ n \in Nat
          /\ DOMAIN registered = 1 .. n /\ DOMAIN registered' = 1 .. n + 1
          /\ \A i \in 1 .. n : registered'[i] = registered[i]
          /\ registered'[n + 1].request = q
          /\ ~registered'[n + 1].early
      BY <1>2, RegisterHandlerFacts
    <2> HIDE DEF n
    <2>2. strategy' = strategy
      BY <2>1 DEF Registers
    <2>3. Overridden(t) => OverriddenNext(t)
      BY <2>1, <2>2 DEF Overridden, OverriddenNext, Attempts
    <2>4. CASE pairs' = pairs
      BY <2>3, <2>4 DEF Answers, AnswersNext
    <2>5. CASE (q \notin DOMAIN handlers \/ Replaces) /\ pairs' = Put(pairs, q, p)
      <3>1. /\ DOMAIN pairs' = {q} \cup DOMAIN pairs
            /\ \A x \in DOMAIN pairs : x # q => pairs'[x] = pairs[x]
        BY <2>5 DEF Put, Over
      <3>2. CASE t # q
        BY <2>3, <3>1, <3>2 DEF Answers, AnswersNext
      <3>3. CASE t = q
        <4>1. q \in DOMAIN handlers
          BY <3>3 DEF Answers, HandlersInv, MapsAgree
        <4>2. strategy' = "SilentOverride"
          BY <2>2, <2>5, <4>1 DEF Replaces
        <4>3. \E i \in DOMAIN registered' : registered'[i].request = t /\ ~registered'[i].early
          BY <2>1, <3>3
        <4>4. QED
          BY <3>1, <3>3, <4>2, <4>3 DEF AnswersNext, OverriddenNext
      <3>4. QED
        BY <3>2, <3>3
    <2>6. QED
      BY <2>1, <2>4, <2>5 DEF Registers
  <1>3. QED
    BY <1>1, <1>2, OthersRegisterNothing

\* No registration changes, no type becomes an early one after start, and none
\* loses its pair.
LEMMA RegisteredKept ==
    ASSUME Types, [Next]_vars
    PROVE  /\ \A t : Overridden(t) => OverriddenNext(t)
           /\ DOMAIN pairs \subseteq DOMAIN pairs'
           /\ \A i \in DOMAIN registered : i \in DOMAIN registered' /\ registered'[i] = registered[i]
           /\ serverState # "configuring" =>
                  \A i \in DOMAIN registered' : i \in DOMAIN registered \/ ~registered'[i].early
  <1>1. CASE UNCHANGED registrationVars
    BY <1>1 DEF registrationVars, Overridden, OverriddenNext, Attempts
  <1>2. ASSUME NEW q \in RequestTypes, NEW p \in ResponseTypes, RegisterHandler(q, p)
        PROVE  /\ \A t : Overridden(t) => OverriddenNext(t)
               /\ DOMAIN pairs \subseteq DOMAIN pairs'
               /\ \A i \in DOMAIN registered :
                      i \in DOMAIN registered' /\ registered'[i] = registered[i]
               /\ serverState # "configuring" =>
                      \A i \in DOMAIN registered' : i \in DOMAIN registered \/ ~registered'[i].early
    <2>1. /\ Len(registered) \in Nat
          /\ DOMAIN registered = 1 .. Len(registered)
          /\ DOMAIN registered' = 1 .. Len(registered) + 1
          /\ \A i \in 1 .. Len(registered) : registered'[i] = registered[i]
          /\ registered'[Len(registered) + 1].early <=> serverState = "configuring"
      BY <1>2, RegisterHandlerFacts
    <2>2. Registers(q, p)
      BY <1>2, RegisterHandlerFacts
    <2>3. \A t : Overridden(t) => OverriddenNext(t)
      BY <2>1, <2>2 DEF Registers, Overridden, OverriddenNext, Attempts
    <2>4. DOMAIN pairs \subseteq DOMAIN pairs'
      BY <2>2 DEF Registers, Put, Over
    <2>5. QED
      BY <2>1, <2>3, <2>4
  <1>3. QED
    BY <1>1, <1>2, OthersRegisterNothing

\* A request in a handler was just dispatched, or was there before and is as it was.
LEMMA StillHandling ==
    ASSUME Types, Connections, [Next]_vars, NEW c \in Clients, wire'[c] = "handling"
    PROVE  \/ Dispatch(c)
           \/ /\ wire[c] = "handling"
              /\ executing' = executing /\ argument' = argument
              /\ call'[c] = call[c]
  <1> DEFINE Same == /\ wire[c] = "handling"
                     /\ executing' = executing /\ argument' = argument
                     /\ call'[c] = call[c]
  <1>1. \A d, e \in Clients : link[d] = "served" /\ link[e] = "served" => d = e
    BY DEF Types, TypeOK
  <1>2. \A d \in Clients : wire[d] = "handling" => link[d] = "served"
    BY DEF Connections
  <1>3. ~Stop
    BY DEF Stop
  <1>4. ASSUME NEW d \in Clients, HandlerReturns(d) PROVE FALSE
    BY <1>1, <1>2, <1>3, <1>4 DEF HandlerReturns, Types, TypeOK
  <1>5. ASSUME NEW d \in Clients, Dispatch(d) PROVE d = c
    BY <1>1, <1>2, <1>5 DEF Dispatch, HasRequest, Types, TypeOK
  <1>6. ASSUME NEW d \in Clients, ClientStep(d) PROVE Same
    BY <1>6 DEF ClientStep, RegisterPair, SendRequest, Connect, FinishReflection, ReceiveReply,
           ReceiveFails, Leave, Issue, Taken, serverVars, Types, TypeOK
  <1>7. ASSUME NEW d \in Clients, Accept(d) \/ SessionEnds(d) PROVE Same
    BY <1>3, <1>7 DEF Accept, SessionEnds, serverVars
  <1>8. CASE Start \/ UNCHANGED vars
    BY <1>8 DEF Start, vars, serverVars, clientVars
  <1>9. ASSUME NEW q \in RequestTypes, NEW p \in ResponseTypes, RegisterHandler(q, p) PROVE Same
    BY <1>9 DEF RegisterHandler, clientVars
  <1>10. QED
    BY <1>3, <1>4, <1>5, <1>6, <1>7, <1>8, <1>9 DEF Next, ClientStep, Reject, HandlerThrows

\* The handler that runs stays the one registered for the request it has.
LEMMA HandlingStep ==
    Types /\ HandlersInv /\ Connections /\ Handling /\ [Next]_vars => Handling'
  <1> SUFFICES ASSUME Types, HandlersInv, Connections, Handling, [Next]_vars,
                      NEW c \in Clients, wire'[c] = "handling"
               PROVE  /\ executing' \in DOMAIN registered'
                      /\ registered'[executing'].request = call'[c].request
                      /\ AnswersNext(call'[c].request, registered'[executing'].response)
                      /\ argument' = Message(call'[c].request, SerializeToString(Sent(c))')
    BY DEF Handling, Answers, AnswersNext, Overridden, OverriddenNext, Attempts
  <1>1. CASE Dispatch(c)
    <2>1. PICK m : m = Message(call[c].request, SerializeToString(Sent(c)))
      OBVIOUS
    <2>2. makeBaseProtoFromPayload(Payload(c)) = m /\ m.type = call[c].request
      BY <2>1, RequestFacts, Zenon DEF Message
    <2>3. /\ m.type \in DOMAIN handlers /\ executing' = handlers[m.type] /\ argument' = m
          /\ UNCHANGED << registrationVars, call >>
      BY <1>1, <2>2 DEF Dispatch, registrationVars
    <2>4. /\ executing' \in DOMAIN registered'
          /\ registered'[executing'].request = call'[c].request
      BY <2>2, <2>3 DEF HandlersInv, InForce, Attempts, registrationVars
    <2>5. AnswersNext(call'[c].request, registered'[executing'].response)
      BY <2>2, <2>3 DEF HandlersInv, MapsAgree, AnswersNext, registrationVars
    <2>6. Sent(c)' = Sent(c)
      BY <2>3 DEF Sent
    <2>7. argument' = Message(call'[c].request, SerializeToString(Sent(c))')
      BY <2>1, <2>3, <2>6 DEF SerializeToString
    <2>8. QED
      BY <2>4, <2>5, <2>7
  <1>2. CASE /\ wire[c] = "handling"
             /\ executing' = executing /\ argument' = argument
             /\ call'[c] = call[c]
    <2>1. serverState # "configuring"
      BY <1>2 DEF Connections
    <2>2. /\ executing \in DOMAIN registered
          /\ registered[executing].request = call[c].request
          /\ Answers(call[c].request, registered[executing].response)
          /\ argument = Message(call[c].request, SerializeToString(Sent(c)))
      BY <1>2 DEF Handling
    <2>3. executing \in DOMAIN registered' /\ registered'[executing] = registered[executing]
      BY <2>2, RegisteredKept
    <2>4. AnswersNext(call[c].request, registered[executing].response)
      BY <2>1, <2>2, AnswersKept
    <2>5. Sent(c)' = Sent(c)
      BY <1>2 DEF Sent
    <2>6. argument' = Message(call'[c].request, SerializeToString(Sent(c))')
      BY <1>2, <2>2, <2>5 DEF SerializeToString
    <2>7. QED
      BY <1>2, <2>2, <2>3, <2>4, <2>6
  <1>3. QED
    BY <1>1, <1>2, StillHandling

\* A reply on the wire was just returned by the handler, or is as it was.
LEMMA StillReply ==
    ASSUME Types, Connections, [Next]_vars, NEW c \in Clients, wire'[c] = "reply"
    PROVE  \/ HandlerReturns(c) /\ client[c] # "left"
           \/ /\ wire[c] = "reply"
              /\ call'[c] = call[c] /\ reply'[c] = reply[c]
              /\ client'[c] = "connecting" => client[c] = "connecting"
  <1> DEFINE Same == /\ wire[c] = "reply"
                     /\ call'[c] = call[c] /\ reply'[c] = reply[c]
                     /\ client'[c] = "connecting" => client[c] = "connecting"
  <1>1. CASE Stop
    BY <1>1 DEF Stop
  <1>2. ASSUME NEW d \in Clients, HandlerReturns(d), ~Stop
        PROVE  Same \/ (HandlerReturns(c) /\ client[c] # "left")
    <2>1. /\ client[d] # "left"
          /\ wire' = [wire EXCEPT ![d] = "reply"]
          /\ \A e \in Clients \ {d} : reply'[e] = reply[e]
          /\ UNCHANGED << call, client >>
      BY <1>2 DEF HandlerReturns, Types, TypeOK
    <2>2. QED
      BY <1>2, <2>1 DEF Types, TypeOK
  <1>3. ASSUME NEW d \in Clients, ClientStep(d) PROVE Same
    BY <1>3 DEF ClientStep, RegisterPair, SendRequest, Connect, FinishReflection, ReceiveReply,
           ReceiveFails, Leave, Issue, Taken, serverVars, Types, TypeOK, Connections
  <1>4. ASSUME NEW d \in Clients, Accept(d) \/ SessionEnds(d), ~Stop PROVE Same
    BY <1>4 DEF Accept, SessionEnds, serverVars
  <1>5. ASSUME NEW d \in Clients, Dispatch(d) PROVE Same
    <2>1. wire' = [wire EXCEPT ![d] = "handling"] /\ UNCHANGED << call, reply, client >>
      BY <1>5 DEF Dispatch
    <2>2. QED
      BY <2>1 DEF Types, TypeOK
  <1>6. CASE Start \/ UNCHANGED vars
    BY <1>6 DEF Start, vars, serverVars, clientVars
  <1>7. ASSUME NEW q \in RequestTypes, NEW p \in ResponseTypes, RegisterHandler(q, p) PROVE Same
    BY <1>7 DEF RegisterHandler, clientVars
  <1>8. QED
    BY <1>1, <1>2, <1>3, <1>4, <1>5, <1>6, <1>7 DEF Next, ClientStep, Reject, HandlerThrows

\* What the built-in handler answers is the server's map.
LEMMA MappingsFacts ==
    ASSUME Types, HandlersInv
    PROVE  Faithful(pairs) /\ Complete(pairs)
  <1>1. Faithful(pairs)
    BY DEF Faithful, Answers
  <1>2. Complete(pairs)
    BY DEF Complete, HandlersInv, InForce, MapsAgree
  <1>3. QED
    BY <1>1, <1>2

\* A reply on the wire stays one that a handler of its request answers with.
LEMMA RepliesStep ==
    Types /\ HandlersInv /\ Connections /\ Handling /\ Replies /\ [Next]_vars => Replies'
  <1> SUFFICES ASSUME Types, HandlersInv, Connections, Handling, Replies, [Next]_vars,
                      NEW c \in Clients, wire'[c] = "reply"
               PROVE  /\ AnswersNext(call'[c].request, reply'[c].type)
                      /\ client'[c] = "connecting" =>
                            /\ \A t \in DOMAIN reply'[c].mappings :
                                   AnswersNext(t, reply'[c].mappings[t])
                            /\ \A i \in DOMAIN registered' : registered'[i].early =>
                                   registered'[i].request \in DOMAIN reply'[c].mappings
    BY DEF Replies, Faithful, Complete, Answers, AnswersNext, Overridden, OverriddenNext, Attempts
  <1>1. CASE HandlerReturns(c) /\ client[c] # "left"
    <2>1. /\ wire[c] = "handling"
          /\ reply'[c] = [type |-> registered[executing].response, mappings |-> Mappings]
          /\ UNCHANGED << registrationVars, call, client >>
      BY <1>1 DEF HandlerReturns, Types, TypeOK, registrationVars
    <2>2. /\ executing \in DOMAIN registered
          /\ registered[executing].request = call[c].request
          /\ Answers(call[c].request, registered[executing].response)
      BY <2>1 DEF Handling
    <2>3. \A t, response : Answers(t, response) => AnswersNext(t, response)
      BY <2>1 DEF registrationVars, Answers, AnswersNext, Overridden, OverriddenNext, Attempts
    <2>4. AnswersNext(call'[c].request, reply'[c].type)
      BY <2>1, <2>2, <2>3
    <2>5. ASSUME client'[c] = "connecting"
          PROVE  reply'[c].mappings = pairs
      <3>1. call[c].request = MappingRequest
        BY <2>1, <2>5 DEF Connections
      <3>2. executing = 1
        BY <2>2, <3>1 DEF HandlersInv, Builtin
      <3>3. QED
        BY <2>1, <3>2 DEF Mappings
    <2>6. /\ \A t \in DOMAIN pairs : AnswersNext(t, pairs[t])
          /\ \A i \in DOMAIN registered' : registered'[i].early =>
                 registered'[i].request \in DOMAIN pairs
      BY <2>1, <2>3, MappingsFacts DEF Faithful, Complete, registrationVars
    <2>7. QED
      BY <2>4, <2>5, <2>6
  <1>2. CASE /\ wire[c] = "reply"
             /\ call'[c] = call[c] /\ reply'[c] = reply[c]
             /\ client'[c] = "connecting" => client[c] = "connecting"
    <2>1. serverState # "configuring"
      BY <1>2 DEF Connections
    <2>2. AnswersNext(call'[c].request, reply'[c].type)
      BY <1>2, <2>1, AnswersKept DEF Replies
    <2>3. ASSUME client'[c] = "connecting"
          PROVE  /\ \A t \in DOMAIN reply'[c].mappings : AnswersNext(t, reply'[c].mappings[t])
                 /\ \A i \in DOMAIN registered' : registered'[i].early =>
                        registered'[i].request \in DOMAIN reply'[c].mappings
      <3>1. Faithful(reply[c].mappings) /\ Complete(reply[c].mappings)
        BY <1>2, <2>3 DEF Replies
      <3>2. \A t \in DOMAIN reply'[c].mappings : AnswersNext(t, reply'[c].mappings[t])
        BY <1>2, <2>1, <3>1, AnswersKept DEF Faithful
      <3>3. \A i \in DOMAIN registered' : registered'[i].early =>
                registered'[i].request \in DOMAIN reply'[c].mappings
        BY <1>2, <2>1, <3>1, RegisteredKept DEF Complete
      <3>4. QED
        BY <3>2, <3>3
    <2>4. QED
      BY <2>2, <2>3
  <1>3. QED
    BY <1>1, <1>2, StillReply
-----------------------------------------------------------------------------
(* The clients' maps.                                                       *)

\* The options of a client are fixed when it is made.
LEMMA OptionsKept == [Next]_vars => options' = options
  BY DEF Next, vars, clientVars, RegisterHandler, RegisterPair, SendRequest, Start, Accept,
         Dispatch, Reject, HandlerReturns, HandlerThrows, SessionEnds, Stop, Connect,
         FinishReflection, ReceiveReply, ReceiveFails, Leave

\* A step that is not the client's own leaves it as it is.
Apart(c) ==
    /\ clientPairs'[c] = clientPairs[c] /\ own'[c] = own[c]
    /\ client'[c] = client[c] /\ call'[c] = call[c] /\ outcome'[c] = outcome[c]
    /\ wire'[c] = "request" => wire[c] = "request"

\* Every step is one of the client's own or leaves its state alone.
LEMMA ClientOrApart ==
    ASSUME Types, [Next]_vars, NEW c \in Clients
    PROVE  ClientStep(c) \/ Apart(c)
  <1>1. CASE Stop
    BY <1>1 DEF Stop, Apart
  <1>2. ASSUME NEW d \in Clients, ClientStep(d), d # c PROVE Apart(c)
    BY <1>2 DEF ClientStep, RegisterPair, SendRequest, Connect, FinishReflection, ReceiveReply,
           ReceiveFails, Leave, Issue, Taken, serverVars, Types, TypeOK, Apart
  <1>3. ASSUME NEW d \in Clients, Accept(d) \/ SessionEnds(d), ~Stop PROVE Apart(c)
    BY <1>3 DEF Accept, SessionEnds, serverVars, Apart
  <1>4. ASSUME NEW d \in Clients, Dispatch(d) PROVE Apart(c)
    <2>1. /\ wire' = [wire EXCEPT ![d] = "handling"]
          /\ UNCHANGED << clientPairs, own, client, call, outcome >>
      BY <1>4 DEF Dispatch
    <2>2. QED
      BY <2>1 DEF Apart, Types, TypeOK
  <1>5. ASSUME NEW d \in Clients, HandlerReturns(d), ~Stop PROVE Apart(c)
    <2>1. /\ wire' = [wire EXCEPT ![d] = "reply"]
          /\ UNCHANGED << clientPairs, own, client, call, outcome >>
      BY <1>5 DEF HandlerReturns
    <2>2. QED
      BY <2>1 DEF Apart, Types, TypeOK
  <1>6. CASE Start \/ UNCHANGED vars
    BY <1>6 DEF Start, vars, clientVars, Apart
  <1>7. ASSUME NEW q \in RequestTypes, NEW p \in ResponseTypes, RegisterHandler(q, p)
        PROVE  Apart(c)
    BY <1>7 DEF RegisterHandler, clientVars, Apart
  <1>8. QED
    BY <1>1, <1>2, <1>3, <1>4, <1>5, <1>6, <1>7 DEF Next, ClientStep, Reject, HandlerThrows

\* A client's own steps, as they change its part of the state: the server's
\* is as it was, and so are its answers.
LEMMA ClientStepFacts ==
    ASSUME NEW c \in Clients, ClientStep(c)
    PROVE  /\ UNCHANGED << registrationVars, serverState, executing, argument, culprit >>
           /\ \A t, response : Answers(t, response) => AnswersNext(t, response)
           /\ \A t : Overridden(t) => OverriddenNext(t)
  <1>1. UNCHANGED serverVars
    BY DEF ClientStep, RegisterPair, SendRequest, Connect, FinishReflection, ReceiveReply,
           ReceiveFails, Leave
  <1>2. QED
    BY <1>1 DEF serverVars, registrationVars, Answers, AnswersNext, Overridden, OverriddenNext,
           Attempts

\* ReflectedMap(c)', for a client and a step.
ReflectedMapNext(c) ==
    /\ \A t \in DOMAIN clientPairs'[c] \ own'[c] :
           /\ t \in DOMAIN pairs'
           /\ client'[c] \in {"new", "connecting"} =>
                  t = MappingRequest /\ clientPairs'[c][t] = MappingResponse
           /\ client'[c] \in {"ready", "calling"} => AnswersNext(t, clientPairs'[c][t])
    /\ client'[c] \in {"ready", "calling"} =>
           \A i \in DOMAIN registered' :
               registered'[i].early => registered'[i].request \in DOMAIN clientPairs'[c]
    /\ client'[c] = "calling" => /\ call'[c].request \in DOMAIN clientPairs'[c]
                                 /\ clientPairs'[c][call'[c].request] = call'[c].response
    /\ wire'[c] = "request" => call'[c].request \in own'[c] \cup DOMAIN pairs'
    /\ client'[c] = "ready" /\ outcome'[c] = "mismatch" =>
           call'[c].request \in own'[c] \/ OverriddenNext(call'[c].request)

\* What a client took from reflection stays true of the server's handlers.
LEMMA ReflectionStep ==
    Types /\ HandlersInv /\ Connections /\ Replies /\ Reflection /\ [Next]_vars => Reflection'
  <1> SUFFICES ASSUME Types, HandlersInv, Connections, Replies, Reflection, [Next]_vars,
                      NEW c \in Clients, Reflects(c)'
               PROVE  ReflectedMapNext(c)
    BY DEF Reflection, ReflectedMap, ReflectedMapNext, Complete, Answers, AnswersNext, Overridden,
           OverriddenNext, Attempts
  <1>1. Reflects(c)
    BY OptionsKept DEF Reflects
  <1>2. ReflectedMap(c)
    BY <1>1 DEF Reflection
  <1>3. CASE Apart(c)
    <2>1. CASE client[c] \in {"ready", "calling"}
      <3>1. serverState # "configuring"
        BY <1>1, <2>1 DEF Connections
      <3>2. \A t \in DOMAIN clientPairs'[c] \ own'[c] :
                t \in DOMAIN pairs' /\ AnswersNext(t, clientPairs'[c][t])
        BY <1>2, <1>3, <2>1, <3>1, AnswersKept, RegisteredKept DEF ReflectedMap, Apart
      <3>3. \A i \in DOMAIN registered' :
                registered'[i].early => registered'[i].request \in DOMAIN clientPairs'[c]
        BY <1>2, <1>3, <2>1, <3>1, RegisteredKept DEF ReflectedMap, Complete, Apart
      <3>4. QED
        BY <1>2, <1>3, <2>1, <3>2, <3>3, RegisteredKept DEF ReflectedMap, ReflectedMapNext, Apart
    <2>2. CASE client[c] \notin {"ready", "calling"}
      BY <1>2, <1>3, <2>2, RegisteredKept DEF ReflectedMap, ReflectedMapNext, Apart
    <2>3. QED
      BY <2>1, <2>2
  <1>4. ASSUME NEW q \in RequestTypes, NEW p \in ResponseTypes, RegisterPair(c, q, p)
        PROVE  ReflectedMapNext(c)
    <2>1. ClientStep(c)
      BY <1>4 DEF ClientStep
    <2>2. /\ client[c] \in {"new", "ready", "failed"}
          /\ clientPairs'[c] = Put(clientPairs[c], q, p)
          /\ own'[c] = own[c] \cup {q}
          /\ UNCHANGED << registrationVars, client, call, wire, outcome >>
      BY <1>4 DEF RegisterPair, serverVars, registrationVars, Types, TypeOK
    <2>3. wire[c] = "quiet"
      BY <2>2 DEF Connections
    <2>4. /\ DOMAIN clientPairs'[c] = {q} \cup DOMAIN clientPairs[c]
          /\ \A t \in DOMAIN clientPairs[c] : t # q => clientPairs'[c][t] = clientPairs[c][t]
      BY <2>2 DEF Put, Over
    <2>5. \A t, response : Answers(t, response) => AnswersNext(t, response)
      BY <2>1, ClientStepFacts
    <2>6. QED
      BY <1>2, <2>1, <2>2, <2>3, <2>4, <2>5, ClientStepFacts
         DEF ReflectedMap, ReflectedMapNext, Complete, registrationVars
  <1>5. ASSUME NEW q \in RequestTypes, NEW p \in ResponseTypes, NEW body \in Bodies,
               SendRequest(c, q, p, body)
        PROVE  ReflectedMapNext(c)
    <2>1. ClientStep(c)
      BY <1>5 DEF ClientStep
    <2>2. /\ client[c] \in {"ready", "failed"} /\ Valid(c, q, p)
          /\ client'[c] = IF client[c] = "ready" THEN "calling" ELSE "persisting"
          /\ call'[c].request = q /\ call'[c].response = p
          /\ UNCHANGED << registrationVars, clientPairs, own >>
      BY <1>5 DEF SendRequest, Issue, serverVars, registrationVars, Types, TypeOK
    <2>3. q \in DOMAIN clientPairs[c] /\ clientPairs[c][q] = p
      BY <1>1, <2>2 DEF Valid, Reflects
    <2>4. q \in own[c] \cup DOMAIN pairs
      BY <1>2, <2>3 DEF ReflectedMap
    <2>5. QED
      BY <1>2, <2>1, <2>2, <2>3, <2>4, ClientStepFacts
         DEF ReflectedMap, ReflectedMapNext, Complete, registrationVars
  <1>6. CASE Connect(c)
    <2>1. ClientStep(c)
      BY <1>6 DEF ClientStep
    <2>2. /\ client[c] = "new" /\ client'[c] = "connecting"
          /\ clientPairs'[c] = Put(clientPairs[c], MappingRequest, MappingResponse)
          /\ call'[c].request = MappingRequest
          /\ UNCHANGED << registrationVars, own >>
      BY <1>1, <1>6 DEF Connect, Issue, serverVars, registrationVars, Types, TypeOK
    <2>3. /\ DOMAIN clientPairs'[c] = {MappingRequest} \cup DOMAIN clientPairs[c]
          /\ clientPairs'[c][MappingRequest] = MappingResponse
          /\ \A t \in DOMAIN clientPairs[c] :
                 t # MappingRequest => clientPairs'[c][t] = clientPairs[c][t]
      BY <2>2 DEF Put, Over
    <2>4. MappingRequest \in DOMAIN pairs
      BY DEF HandlersInv, Builtin
    <2>5. QED
      BY <1>2, <2>2, <2>3, <2>4 DEF ReflectedMap, ReflectedMapNext, registrationVars
  <1>7. CASE FinishReflection(c)
    <2>1. ClientStep(c)
      BY <1>7 DEF ClientStep
    <2> DEFINE map == reply[c].mappings
    <2>2. /\ client[c] = "connecting" /\ wire[c] = "reply"
          /\ clientPairs'[c] = Over(map, clientPairs[c])
          /\ own'[c] = own[c] \ DOMAIN map
          /\ client'[c] = "ready" /\ wire'[c] = "quiet"
          /\ outcome'[c] = "none"
          /\ UNCHANGED registrationVars
      BY <1>7 DEF FinishReflection, Taken, serverVars, registrationVars, Types, TypeOK, Connections
    <2>3. Faithful(map) /\ Complete(map)
      BY <2>2 DEF Replies
    <2>4. /\ DOMAIN clientPairs'[c] = DOMAIN map \cup DOMAIN clientPairs[c]
          /\ \A t \in DOMAIN clientPairs'[c] :
                 clientPairs'[c][t] = IF t \in DOMAIN map THEN map[t] ELSE clientPairs[c][t]
      BY <2>2 DEF Over
    <2> HIDE DEF map
    <2>5. Answers(MappingRequest, MappingResponse)
      BY DEF HandlersInv, Builtin, Answers
    <2>6. ASSUME NEW t \in DOMAIN clientPairs'[c] \ own'[c]
          PROVE  Answers(t, clientPairs'[c][t])
      <3>1. CASE t \in DOMAIN map
        BY <2>3, <2>4, <3>1 DEF Faithful
      <3>2. CASE t \notin DOMAIN map
        <4>1. t \in DOMAIN clientPairs[c] \ own[c] /\ clientPairs'[c][t] = clientPairs[c][t]
          BY <2>2, <2>4, <2>6, <3>2
        <4>2. t = MappingRequest /\ clientPairs[c][t] = MappingResponse
          BY <1>2, <2>2, <4>1 DEF ReflectedMap
        <4>3. QED
          BY <2>5, <4>1, <4>2
      <3>3. QED
        BY <3>1, <3>2
    <2>7. \A t \in DOMAIN clientPairs'[c] \ own'[c] : AnswersNext(t, clientPairs'[c][t])
      BY <2>1, <2>6, ClientStepFacts
    <2>8. QED
      BY <2>2, <2>3, <2>4, <2>7 DEF ReflectedMapNext, AnswersNext, Complete, registrationVars
  <1>8. CASE ReceiveReply(c)
    <2>1. ClientStep(c)
      BY <1>8 DEF ClientStep
    <2>2. /\ client[c] = "calling" /\ wire[c] = "reply"
          /\ client'[c] = "ready" /\ wire'[c] = "quiet"
          /\ outcome'[c] = IF IsError(makeProtoFromPayload(call[c].response,
                                          makePayloadFromProto(Message(reply[c].type, << >>))))
                              THEN "mismatch" ELSE "ok"
          /\ UNCHANGED << registrationVars, clientPairs, own, call >>
      BY <1>8 DEF ReceiveReply, Taken, serverVars, registrationVars, Types, TypeOK
    <2>3. reply[c].type \in Responses /\ call[c].response \in Responses
      BY DEF Types, TypeOK, Reply, Call
    <2>4. outcome'[c] = "mismatch" => reply[c].type # call[c].response
      BY <2>2, <2>3, ReplyFacts
    <2>5. Answers(call[c].request, reply[c].type)
      BY <2>2 DEF Replies
    <2>6. /\ call[c].request \in DOMAIN clientPairs[c]
          /\ clientPairs[c][call[c].request] = call[c].response
      BY <1>2, <2>2 DEF ReflectedMap
    <2>7. call[c].request \in own[c] \/ Answers(call[c].request, call[c].response)
      BY <1>2, <2>2, <2>6 DEF ReflectedMap
    <2>8. outcome'[c] = "mismatch" => call[c].request \in own[c] \/ Overridden(call[c].request)
      BY <2>4, <2>5, <2>7 DEF Answers
    <2>9. QED
      BY <1>2, <2>1, <2>2, <2>8, ClientStepFacts
         DEF ReflectedMap, ReflectedMapNext, Complete, registrationVars
  <1>9. CASE ReceiveFails(c) \/ Leave(c)
    <2>1. /\ client'[c] \in {"failed", "left"}
          /\ wire'[c] = "request" => wire[c] = "request"
          /\ UNCHANGED << registrationVars, clientPairs, own, call >>
      BY <1>9 DEF ReceiveFails, Leave, Taken, serverVars, registrationVars, Types, TypeOK
    <2>2. QED
      BY <1>2, <2>1 DEF ReflectedMap, ReflectedMapNext, registrationVars
  <1>10. QED
    BY <1>3, <1>4, <1>5, <1>6, <1>7, <1>8, <1>9, ClientOrApart DEF ClientStep
-----------------------------------------------------------------------------
(* A request without a handler.                                             *)

\* Only a rejected request names a culprit.
LEMMA RejectOrNot ==
    ASSUME [Next]_vars
    PROVE  (\E c \in Clients : Reject(c)) \/ culprit' = culprit
  BY DEF Next, vars, serverVars, RegisterHandler, RegisterPair, SendRequest, Start, Accept,
         Dispatch, HandlerReturns, HandlerThrows, SessionEnds, Stop, Connect,
         FinishReflection, ReceiveReply, ReceiveFails, Leave

\* Once stopped, the server and its connections stay as they are; a client
\* without a connection sends nothing, and drops none of its own pairs unless
\* its reflection is under way.
LEMMA StoppedFacts ==
    ASSUME Types, Connections, [Next]_vars, serverState = "stopped",
           NEW c \in Clients, link[c] = "closed"
    PROVE  /\ serverState' = "stopped" /\ link'[c] = "closed"
           /\ UNCHANGED registrationVars
           /\ call'[c] = call[c]
           /\ client[c] # "connecting" => own[c] \subseteq own'[c]
  <1> DEFINE Goal == /\ serverState' = "stopped" /\ link'[c] = "closed"
                     /\ UNCHANGED registrationVars
                     /\ call'[c] = call[c]
                     /\ client[c] # "connecting" => own[c] \subseteq own'[c]
  <1>1. /\ \A d \in Clients : link[d] # "served"
        /\ \A d \in Clients : wire[d] # "handling"
        /\ executing = 0
        /\ client[c] # "new"
    BY DEF Connections, Types, TypeOK
  <1>2. ASSUME NEW d \in Clients, ClientStep(d) PROVE Goal
    BY <1>1, <1>2 DEF ClientStep, RegisterPair, SendRequest, Connect, FinishReflection,
           ReceiveReply, ReceiveFails, Leave, Issue, serverVars, registrationVars, Types, TypeOK
  <1>3. ASSUME NEW d \in Clients,
               Accept(d) \/ Dispatch(d) \/ Reject(d) \/ HandlerReturns(d) \/ HandlerThrows(d)
                   \/ SessionEnds(d)
        PROVE  FALSE
    BY <1>1, <1>3 DEF Accept, Dispatch, Reject, HasRequest, HandlerReturns, HandlerThrows,
           SessionEnds
  <1>4. ASSUME NEW q \in RequestTypes, NEW p \in ResponseTypes, RegisterHandler(q, p)
        PROVE  FALSE
    BY <1>1, <1>4 DEF RegisterHandler
  <1>5. CASE Start
    BY <1>5 DEF Start
  <1>6. CASE UNCHANGED vars
    BY <1>6 DEF vars, serverVars, clientVars, registrationVars
  <1>7. QED
    BY <1>2, <1>3, <1>4, <1>5, <1>6 DEF Next, ClientStep

\* The client that stopped the server stays one that had sent what no handler takes.
LEMMA CulpritStep ==
    Types /\ HandlersInv /\ Connections /\ Reflection /\ Culprit /\ [Next]_vars => Culprit'
  <1> SUFFICES ASSUME Types, HandlersInv, Connections, Reflection, Culprit, [Next]_vars
               PROVE  Culprit'
    OBVIOUS
  <1>1. ASSUME NEW c \in Clients, Reject(c) PROVE Culprit'
    <2>1. /\ culprit' = c /\ Stop /\ link[c] = "served" /\ wire[c] = "request"
      BY <1>1 DEF Reject, HasRequest
    <2>2. PICK m : m = makeBaseProtoFromPayload(Payload(c))
      OBVIOUS
    <2>3. /\ ~IsError(m) /\ m.type = call[c].request
      <3>1. m = Message(call[c].request, SerializeToString(Sent(c)))
        BY <2>2, RequestFacts, Zenon
      <3>2. QED
        BY <3>1 DEF Message, IsError
    <2>4. call[c].request \notin DOMAIN handlers
      BY <1>1, <2>2, <2>3 DEF Reject
    <2>5. Reflects(c) => call[c].request \in own[c]
      BY <2>1, <2>4 DEF Reflection, ReflectedMap, HandlersInv, MapsAgree
    <2>6. serverState' = "stopped" /\ link'[c] = "closed"
      BY <2>1 DEF Stop
    <2>7. UNCHANGED << handlers, call, own, options >>
      BY <2>1 DEF Stop
    <2>8. QED
      BY <2>1, <2>4, <2>5, <2>6, <2>7 DEF Culprit, Reflects
  <1>2. CASE culprit' = culprit /\ culprit # NoOne
    <2>1. culprit \in Clients
      BY <1>2 DEF Types, TypeOK
    <2>2. /\ serverState = "stopped" /\ link[culprit] = "closed"
          /\ call[culprit].request \notin DOMAIN handlers
          /\ Reflects(culprit) => call[culprit].request \in own[culprit]
      BY <1>2 DEF Culprit
    <2>3. client[culprit] # "connecting"
      BY <2>1, <2>2 DEF Connections, HandlersInv, Builtin
    <2>4. /\ serverState' = "stopped" /\ link'[culprit] = "closed"
          /\ UNCHANGED registrationVars
          /\ call'[culprit] = call[culprit]
          /\ own[culprit] \subseteq own'[culprit]
      BY <2>1, <2>2, <2>3, StoppedFacts
    <2>5. QED
      BY <1>2, <2>1, <2>2, <2>4, OptionsKept DEF Culprit, Reflects, registrationVars
  <1>3. CASE culprit' = culprit /\ culprit = NoOne
    BY <1>3 DEF Culprit
  <1>4. QED
    BY <1>1, <1>2, <1>3, RejectOrNot
-----------------------------------------------------------------------------
(* The theorems.                                                            *)

\* The invariant holds at the start.
LEMMA InitInv == Init => Inv
  <1> SUFFICES ASSUME Init PROVE Inv
    OBVIOUS
  <1> DEFINE entry == [request |-> MappingRequest, response |-> MappingResponse,
                       early |-> TRUE, answer |-> "true"]
  <1>1. MappingRequest \in Requests /\ MappingResponse \in Responses
    BY DEF Requests, Responses
  <1>2. /\ registered = << entry >> /\ DOMAIN registered = {1} /\ registered[1] = entry
        /\ registered \in Seq(Registration)
    BY <1>1 DEF Init, Registration
  <1>3. /\ DOMAIN handlers = {MappingRequest} /\ handlers[MappingRequest] = 1
        /\ DOMAIN pairs = {MappingRequest} /\ pairs[MappingRequest] = MappingResponse
    BY DEF Init, Put, Over, EmptyMap
  <1>4. /\ handlers \in Maps(Requests, DOMAIN registered)
        /\ pairs \in Maps(Requests, Responses)
    <2>1. 1 \in DOMAIN registered
      BY <1>2
    <2>2. /\ Put(EmptyMap, MappingRequest, 1) \in Maps(Requests, DOMAIN registered)
          /\ Put(EmptyMap, MappingRequest, MappingResponse) \in Maps(Requests, Responses)
      BY <1>1, <2>1, EmptyMapFacts, PutType, Zenon
    <2>3. QED
      BY <2>2, Zenon DEF Init
  <1>5. NoCall \in Call /\ NoReply \in Reply
    BY <1>1, EmptyMapFacts DEF NoCall, NoReply, Call, Reply
  <1>6. clientPairs \in [Clients -> Maps(Requests, Responses)]
    BY EmptyMapFacts DEF Init
  <1>7. entry \in [request : Requests, response : Responses,
                   early : BOOLEAN, answer : {"true", "false", "threw"}]
    BY <1>1
  <1> HIDE DEF entry
  <1>8. Types
    BY <1>1, <1>2, <1>4, <1>5, <1>6, <1>7 DEF Init, Types, TypeOK, Message
  <1>9. HandlersInv
    <2>1. /\ entry.request = MappingRequest /\ entry.response = MappingResponse
          /\ entry.early /\ entry.answer = "true"
      BY DEF entry
    <2>2. QED
      BY <1>2, <1>3, <2>1 DEF HandlersInv, Builtin, InForce, Attempts, MapsAgree, AnswerTellsTruth
  <1>10. Connections /\ Handling /\ Replies
    BY DEF Init, Connections, Handling, Replies
  <1>11. Reflection
    BY EmptyMapFacts DEF Init, Reflection, ReflectedMap
  <1>12. Culprit
    BY DEF Init, Culprit
  <1>13. QED
    BY <1>8, <1>9, <1>10, <1>11, <1>12 DEF Inv

\* The invariant holds in every reachable state.
LEMMA Inductive == Spec => []Inv
  <1>1. Inv /\ [Next]_vars => Inv'
    BY TypesStep, HandlersStep, ConnectionsStep, HandlingStep, RepliesStep, ReflectionStep,
       CulpritStep DEF Inv
  <1>2. QED
    BY InitInv, <1>1, PTL DEF Spec

\* Every variable of the registrations, the calls and the clients keeps its
\* type; one request at most is in a handler.
THEOREM TypeCorrect == Spec => []TypeOK
  <1>1. Inv => TypeOK
    BY DEF Inv, Types
  <1>2. QED
    BY <1>1, Inductive, PTL

\* The pairs that the server reports are those of the handlers it calls.
THEOREM MapsAgreeCorrect == Spec => []MapsAgree
  <1>1. Inv => MapsAgree
    BY DEF Inv, HandlersInv
  <1>2. QED
    BY <1>1, Inductive, PTL

\* The handler in force is the last or the first one, as the strategy says.
THEOREM FirstOrLastInForceCorrect == Spec => []FirstOrLastInForce
  <1>1. Inv => FirstOrLastInForce
    BY InForceIsFirstOrLast DEF Inv, HandlersInv
  <1>2. QED
    BY <1>1, Inductive, PTL

\* registerHandler's answer is true for the handlers in force only.
THEOREM AnswerTellsTruthCorrect == Spec => []AnswerTellsTruth
  <1>1. Inv => AnswerTellsTruth
    BY DEF Inv, HandlersInv
  <1>2. QED
    BY <1>1, Inductive, PTL

\* A client that reflects has the server's pairs, besides its own.
THEOREM ReflectionSoundCorrect == Spec => []ReflectionSound
  <1>1. Inv => ReflectionSound
    BY DEF Inv, Reflection, ReflectedMap, Answers, ReflectionSound
  <1>2. QED
    BY <1>1, Inductive, PTL

\* It has all of those from before start.
THEOREM ReflectionCompleteCorrect == Spec => []ReflectionComplete
  <1>1. Inv => ReflectionComplete
    BY DEF Inv, Reflection, ReflectedMap, Complete, ReflectionComplete
  <1>2. QED
    BY <1>1, Inductive, PTL

\* A reply has the type that reflection said, unless a handler was replaced.
THEOREM ReflectedCallsAreTypedCorrect == Spec => []ReflectedCallsAreTyped
  <1>1. Inv => ReflectedCallsAreTyped
    BY DEF Inv, Reflection, ReflectedMap, ReflectedCallsAreTyped
  <1>2. QED
    BY <1>1, Inductive, PTL

\* A client that keeps to the pairs it reflected never ends the server.
THEOREM ReflectedCallsAreHandledCorrect == Spec => []ReflectedCallsAreHandled
  <1>1. Inv => ReflectedCallsAreHandled
    BY DEF Inv, Culprit, ReflectedCallsAreHandled
  <1>2. QED
    BY <1>1, Inductive, PTL

\* A message that can be serialized reaches its handler as it was sent,
\* whatever its bytes are.
THEOREM RequestArrivesIntactCorrect == Spec => []RequestArrivesIntact
  <1>1. ASSUME Inv, NEW c \in Clients, wire[c] = "handling", Len(call[c].body) <= MaxSerialized
        PROVE  argument = Sent(c)
    <2>1. argument = Message(call[c].request, SerializeToString(Sent(c)))
      BY <1>1 DEF Inv, Handling
    <2>2. Types
      BY <1>1 DEF Inv
    <2>3. Message(call[c].request, SerializeToString(Sent(c))) = Sent(c)
      BY <1>1, <2>2, RequestFacts, Zenon
    <2>4. QED
      BY <2>1, <2>3
  <1>2. Inv => (culprit # NoOne => call[culprit].request \notin DOMAIN handlers)
    BY DEF Inv, Culprit
  <1>3. Inv => RequestArrivesIntact
    BY <1>1, <1>2 DEF RequestArrivesIntact
  <1>4. QED
    BY <1>3, Inductive, PTL

\* The header of every request holds its length.
THEOREM HeaderHoldsLengthCorrect == Spec => []HeaderHoldsLength
  <1>1. ASSUME Inv, NEW c \in Clients PROVE HeaderLength(Payload(c)) = Len(Payload(c))
    <2>1. Types
      BY <1>1 DEF Inv
    <2>2. QED
      BY <2>1, RequestFacts, Zenon
  <1>2. Inv => HeaderHoldsLength
    BY <1>1 DEF HeaderHoldsLength
  <1>3. QED
    BY <1>2, Inductive, PTL
=============================================================================
