---------------------------- MODULE SyncRegistration ----------------------------
(***************************************************************************)
(* Which handler a request reaches, and which type its reply has: the      *)
(* registrations on a SyncServer and on its SyncClients, the reflection of *)
(* the server's pairs by connect, the check of a pair by sendRequest, the  *)
(* dispatch by acceptMessage and the check of the reply's type.            *)
(*                                                                         *)
(* One server object and its clients.  Requests are payloads as            *)
(* PayloadCodec makes them, a reply is its type and, for reflection, the   *)
(* pairs; connections are as in SyncServerLifecycle, without the order of  *)
(* the backlog.                                                            *)
(***************************************************************************)
EXTENDS PayloadCodec, FiniteSetsExt

CONSTANTS
    RequestTypes,       \* the application's message types that are requests
    ResponseTypes,      \* and those that are responses
    MappingRequest,     \* IPCInternal_GetRequestResponseMappingPairsRequest
    MappingResponse,    \* and ...Response
    Bodies,             \* what requests may hold
    Clients,
    NoOne,
    ServerStrategies,   \* duplicate_registration_strategy of the server
    ClientOptions,      \* the SyncClientOptions that the clients may have
    MaxRegistrations,   \* bound: calls of registerHandler
    LateRegistration    \* do handlers, while they run, register others?

DuplicateStrategies == {"SilentOverride", "SilentIgnore", "IndicateIgnore", "Throw"}

ValidateStrategies == {"NoValidation", "ManualRegistration", "ServerReflection"}

Requests  == RequestTypes \cup {MappingRequest}
Responses == ResponseTypes \cup {MappingResponse}

ASSUME RegistrationAssumption ==
    /\ MappingRequest \notin RequestTypes
    /\ MappingResponse \notin ResponseTypes
    /\ Requests \cup Responses \subseteq TypeNames
    /\ Bodies \subseteq Seq(Bytes) /\ << >> \notin Bodies
    /\ NoOne \notin Clients
    /\ ServerStrategies \subseteq DuplicateStrategies
    /\ ClientOptions \subseteq [validate : ValidateStrategies,
                                duplicate : DuplicateStrategies]
    /\ MaxRegistrations \in Nat \ {0}
    /\ LateRegistration \in BOOLEAN

VARIABLES
    strategy,       \* the server's duplicate_registration_strategy
    registered,     \* every call of registerHandler, and what it returned
    handlers,       \* m_handlers: which of these calls is in force for a type
    pairs,          \* the server's m_request_response_pairs
    serverState,    \* before, in and after start
    executing,      \* the handler that is running, 0 if none
    argument,       \* the message that it was called with
    culprit,        \* the client whose request had no handler
    options,        \* each client's SyncClientOptions
    clientPairs,    \* each client's m_request_response_pairs
    own,            \* those of them it has from its application
    client,         \* where each client stands
    call,           \* the types of its last call, and what it sends
    link,           \* where its connection stands
    wire,           \* what is on its connection, or in the server for it
    reply,          \* the reply that is on its connection
    outcome         \* how its last sendRequest ended

serverVars == << strategy, registered, handlers, pairs, serverState, executing, argument,
                 culprit >>
clientVars == << options, clientPairs, own, client, call, link, wire, reply, outcome >>
vars == << serverVars, clientVars >>

\* An unordered_map: a function on the keys it has.
EmptyMap == [t \in {} |-> NoOne]
Over(new, old) ==
    [t \in DOMAIN new \cup DOMAIN old |-> IF t \in DOMAIN new THEN new[t] ELSE old[t]]
Put(map, t, value) == Over([x \in {t} |-> value], map)

Maps(keys, values) == UNION {[some -> values] : some \in SUBSET keys}

Call  == [request : Requests, response : Responses, body : Bodies \cup {<< >>}]
Reply == [type : Responses, mappings : Maps(Requests, Responses)]

NoCall  == [request |-> MappingRequest, response |-> MappingResponse, body |-> << >>]
NoReply == [type |-> MappingResponse, mappings |-> EmptyMap]

\* What client c's call sends, as a message and as a payload.
Sent(c) == Message(call[c].request, call[c].body)
Payload(c) == makePayloadFromProto(Sent(c))

\* A client is waiting for a reply: in connect, or in sendRequest, which it
\* may also call when its connect has failed.
Busy == {"connecting", "calling", "persisting"}

TypeOK ==
    /\ strategy \in ServerStrategies
    /\ \A i \in DOMAIN registered :
           registered[i] \in [request : Requests, response : Responses,
                              early : BOOLEAN, answer : {"true", "false", "threw"}]
    /\ handlers \in Maps(Requests, DOMAIN registered)
    /\ pairs \in Maps(Requests, Responses)
    /\ serverState \in {"configuring", "running", "stopped"}
    /\ executing \in DOMAIN registered \cup {0}
    /\ argument.type \in Requests /\ argument.data \in Bodies \cup {<< >>}
    /\ culprit \in Clients \cup {NoOne}
    /\ options \in [Clients -> ClientOptions]
    /\ clientPairs \in [Clients -> Maps(Requests, Responses)]
    /\ own \in [Clients -> SUBSET RequestTypes]
    /\ client \in [Clients -> {"new", "ready", "failed", "left"} \cup Busy]
    /\ call \in [Clients -> Call]
    /\ link \in [Clients -> {"none", "queued", "served", "closed"}]
    /\ wire \in [Clients -> {"quiet", "request", "handling", "reply"}]
    /\ reply \in [Clients -> Reply]
    /\ outcome \in [Clients -> {"none", "ok", "mismatch", "lost"}]
    /\ \A c, d \in Clients : link[c] = "served" /\ link[d] = "served" => c = d
    /\ executing # 0 <=> \E c \in Clients : wire[c] = "handling"

\* The constructors; the server's registers the handler for reflection.
Init ==
    /\ strategy \in ServerStrategies
    /\ registered = << [request |-> MappingRequest, response |-> MappingResponse,
                        early |-> TRUE, answer |-> "true"] >>
    /\ handlers = Put(EmptyMap, MappingRequest, 1)
    /\ pairs = Put(EmptyMap, MappingRequest, MappingResponse)
    /\ serverState = "configuring"
    /\ executing = 0
    /\ argument = Message(MappingRequest, << >>)
    /\ culprit = NoOne
    /\ options \in [Clients -> ClientOptions]
    /\ clientPairs = [c \in Clients |-> EmptyMap]
    /\ own = [c \in Clients |-> {}]
    /\ client = [c \in Clients |-> "new"]
    /\ call = [c \in Clients |-> NoCall]
    /\ link = [c \in Clients |-> "none"]
    /\ wire = [c \in Clients |-> "quiet"]
    /\ reply = [c \in Clients |-> NoReply]
    /\ outcome = [c \in Clients |-> "none"]

Reflects(c) == options[c].validate = "ServerReflection"

-----------------------------------------------------------------------------
(* The server.                                                              *)

\* Fault: the pair is inserted, not assigned.
SetHandler_Inserts(request, response) ==
    /\ handlers' = Put(handlers, request, Len(registered'))
    /\ pairs' = Over(pairs, Put(EmptyMap, request, response))

\* registerValidatedRequestResponsePair: the two maps get their entry.
SetHandler(request, response) ==
    /\ handlers' = Put(handlers, request, Len(registered'))
    /\ pairs' = Put(pairs, request, response)

\* Fault: only Throw keeps the first handler.
Replaces_UnlessThrow == strategy # "Throw"

\* Does a duplicate take the place of the handler that is registered?
Replaces == strategy = "SilentOverride"

\* Fault: an ignored duplicate is a success.
AnswerToDuplicate_True == IF strategy = "Throw" THEN "threw" ELSE "true"

AnswerToDuplicate ==
    CASE strategy \in {"SilentOverride", "SilentIgnore"} -> "true"
      [] strategy = "IndicateIgnore" -> "false"
      [] strategy = "Throw" -> "threw"

(***************************************************************************)
(* registerHandler, before start or from a handler, which runs on the      *)
(* server's thread.  A handler that replaced itself would destroy the      *)
(* function it is in, which C++ leaves undefined.                          *)
(***************************************************************************)
RegisterHandler(request, response) ==
    /\ \/ serverState = "configuring"
       \/ /\ LateRegistration
          /\ executing > 1
          /\ ~(Replaces /\ registered[executing].request = request)
    /\ Len(registered) < MaxRegistrations
    /\ LET duplicate == request \in DOMAIN handlers
       IN  /\ registered' = Append(registered,
                 [request |-> request, response |-> response,
                  early |-> serverState = "configuring",
                  answer |-> IF duplicate THEN AnswerToDuplicate ELSE "true"])
           /\ IF ~duplicate \/ Replaces
                 THEN SetHandler(request, response)
                 ELSE UNCHANGED << handlers, pairs >>
    /\ UNCHANGED << strategy, serverState, executing, argument, culprit, clientVars >>

Start ==
    /\ serverState = "configuring"
    /\ serverState' = "running"
    /\ UNCHANGED << strategy, registered, handlers, pairs, executing, argument, culprit,
                    clientVars >>

Accept(c) ==
    /\ serverState = "running"
    /\ link[c] = "queued"
    /\ \A d \in Clients : link[d] # "served"
    /\ link' = [link EXCEPT ![c] = "served"]
    /\ UNCHANGED << serverVars, options, clientPairs, own, client, call, wire, reply, outcome >>

\* Fault: the handler that was running is not forgotten.
Stop_KeepsExecuting ==
    /\ serverState' = "stopped"
    /\ link' = [c \in Clients |-> IF link[c] = "none" THEN "none" ELSE "closed"]
    /\ wire' = [c \in Clients |-> IF wire[c] = "reply" THEN "reply" ELSE "quiet"]
    /\ UNCHANGED << strategy, registered, handlers, pairs, executing, argument, options,
                    clientPairs, own, client, call, reply, outcome >>

\* start is over, by an error or an exception, and the server object with
\* it: its connections close, and a reply that was written can still be read.
Stop ==
    /\ serverState' = "stopped"
    /\ executing' = 0
    /\ link' = [c \in Clients |-> IF link[c] = "none" THEN "none" ELSE "closed"]
    /\ wire' = [c \in Clients |-> IF wire[c] = "reply" THEN "reply" ELSE "quiet"]
    /\ UNCHANGED << strategy, registered, handlers, pairs, argument, options,
                    clientPairs, own, client, call, reply, outcome >>

HasRequest(c) == link[c] = "served" /\ wire[c] = "request"

\* acceptMessage parses the payload, finds the type's handler and calls it ...
Dispatch(c) ==
    /\ HasRequest(c)
    /\ LET message == makeBaseProtoFromPayload(Payload(c))
       IN  /\ ~IsError(message)
           /\ message.type \in DOMAIN handlers
           /\ executing' = handlers[message.type]
           /\ argument' = message
    /\ wire' = [wire EXCEPT ![c] = "handling"]
    /\ UNCHANGED << strategy, registered, handlers, pairs, serverState, culprit, options,
                    clientPairs, own, client, call, link, reply, outcome >>

\* ... or cannot, or finds none: its error is thrown, and leaves start.
Reject(c) ==
    /\ HasRequest(c)
    /\ LET message == makeBaseProtoFromPayload(Payload(c))
       IN  ~IsError(message) => message.type \notin DOMAIN handlers
    /\ culprit' = c
    /\ Stop

\* Fault: the pairs are captured when the server is constructed.
Mappings_Captured == Put(EmptyMap, MappingRequest, MappingResponse)

\* The server's own handler copies the map; the application's have none.
Mappings == IF executing = 1 THEN pairs ELSE EmptyMap

HandlerReturns(c) ==
    /\ wire[c] = "handling"
    /\ executing' = 0
    /\ IF client[c] = "left"
          THEN UNCHANGED culprit /\ Stop
          ELSE /\ reply' = [reply EXCEPT ![c] = [type |-> registered[executing].response,
                                                 mappings |-> Mappings]]
               /\ wire' = [wire EXCEPT ![c] = "reply"]
               /\ UNCHANGED << strategy, registered, handlers, pairs, serverState, argument,
                               culprit, options, clientPairs, own, client, call, link, outcome >>

HandlerThrows(c) ==
    /\ wire[c] = "handling"
    /\ executing > 1
    /\ UNCHANGED culprit
    /\ Stop

\* eof; a reply that was not read to its end may turn it into ECONNRESET.
SessionEnds(c) ==
    /\ link[c] = "served"
    /\ client[c] = "left"
    /\ \/ /\ wire[c] \in {"quiet", "reply"}
          /\ link' = [link EXCEPT ![c] = "closed"]
          /\ UNCHANGED << serverVars, options, clientPairs, own, client, call, wire,
                          reply, outcome >>
       \/ /\ wire[c] = "reply" \/ outcome[c] = "lost"
          /\ wire[c] \in {"quiet", "reply"}
          /\ UNCHANGED culprit
          /\ Stop

-----------------------------------------------------------------------------
(* The clients.                                                             *)

\* registerRequestResponsePair; where a duplicate is ignored nothing changes.
RegisterPair(c, request, response) ==
    /\ client[c] \in {"new", "ready", "failed"}
    /\ \/ request \notin DOMAIN clientPairs[c]
       \/ Reflects(c)
       \/ options[c].duplicate = "SilentOverride"
    /\ clientPairs' = [clientPairs EXCEPT ![c] = Put(@, request, response)]
    /\ own' = [own EXCEPT ![c] = @ \cup {request}]
    /\ UNCHANGED << serverVars, options, client, call, link, wire, reply, outcome >>

Issue(c, request, response, body) ==
    /\ call' = [call EXCEPT ![c] =
                   [request |-> request, response |-> response, body |-> body]]
    /\ wire' = [wire EXCEPT ![c] = "request"]

\* connect; with reflection it goes on with a request of its own.
Connect(c) ==
    /\ client[c] = "new"
    /\ serverState # "stopped"
    /\ link' = [link EXCEPT ![c] = "queued"]
    /\ IF Reflects(c)
          THEN /\ clientPairs' = [clientPairs EXCEPT ![c] =
                                     Put(@, MappingRequest, MappingResponse)]
               /\ Issue(c, MappingRequest, MappingResponse, << >>)
               /\ client' = [client EXCEPT ![c] = "connecting"]
          ELSE /\ client' = [client EXCEPT ![c] = "ready"]
               /\ UNCHANGED << clientPairs, call, wire >>
    /\ UNCHANGED << serverVars, options, own, reply, outcome >>

\* The call that is out is over, with its reply if it had one.
Taken(c) ==
    /\ wire' = [wire EXCEPT ![c] = "quiet"]
    /\ reply' = [reply EXCEPT ![c] = NoReply]

\* Fault: reflected pairs are inserted, not assigned.
FinishReflection_Inserts(c) ==
    /\ client[c] = "connecting"
    /\ wire[c] = "reply"
    /\ clientPairs' = [clientPairs EXCEPT ![c] = Over(@, reply[c].mappings)]
    /\ own' = [own EXCEPT ![c] = @ \ DOMAIN reply[c].mappings]
    /\ client' = [client EXCEPT ![c] = "ready"]
    /\ Taken(c)
    /\ UNCHANGED << serverVars, options, call, link, outcome >>

\* reflectRequestResponseMappingPairs: the server's pairs replace the client's.
FinishReflection(c) ==
    /\ client[c] = "connecting"
    /\ wire[c] = "reply"
    /\ clientPairs' = [clientPairs EXCEPT ![c] = Over(reply[c].mappings, @)]
    /\ own' = [own EXCEPT ![c] = @ \ DOMAIN reply[c].mappings]
    /\ client' = [client EXCEPT ![c] = "ready"]
    /\ Taken(c)
    /\ UNCHANGED << serverVars, options, call, link, outcome >>

\* Fault: a type that is not registered passes.
Valid_Unregistered(c, request, response) ==
    \/ options[c].validate = "NoValidation"
    \/ request \in DOMAIN clientPairs[c] => clientPairs[c][request] = response

\* Fault: the response's type is not looked at.
Valid_AnyResponse(c, request, response) ==
    \/ options[c].validate = "NoValidation"
    \/ request \in DOMAIN clientPairs[c]

Valid(c, request, response) ==
    \/ options[c].validate = "NoValidation"
    \/ request \in DOMAIN clientPairs[c] /\ clientPairs[c][request] = response

(***************************************************************************)
(* sendRequest on a connected client; a pair that is not valid sends       *)
(* nothing, and on a closed connection the write fails.  A client whose    *)
(* connect failed in its reflection is connected: a second connect returns *)
(* an error and changes nothing, but sendRequest goes out.                 *)
(***************************************************************************)
SendRequest(c, request, response, body) ==
    /\ client[c] \in {"ready", "failed"}
    /\ link[c] # "closed"
    /\ Valid(c, request, response)
    /\ Issue(c, request, response, body)
    /\ client' = [client EXCEPT ![c] = IF @ = "ready" THEN "calling" ELSE "persisting"]
    /\ UNCHANGED << serverVars, options, clientPairs, own, link, reply, outcome >>

\* makeProtoFromPayload compares the reply's type with what the call expects.
ReceiveReply(c) ==
    /\ client[c] = "calling"
    /\ wire[c] = "reply"
    /\ LET payload == makePayloadFromProto(Message(reply[c].type, << >>))
       IN  outcome' = [outcome EXCEPT ![c] =
               IF IsError(makeProtoFromPayload(call[c].response, payload))
                  THEN "mismatch" ELSE "ok"]
    /\ client' = [client EXCEPT ![c] = "ready"]
    /\ Taken(c)
    /\ UNCHANGED << serverVars, options, clientPairs, own, call, link >>

\* The connection is closed, or the reply was read in part (connect returns
\* UnableToReflectMappings then).  From here on the client is out of place in
\* its stream, and what its calls return is no matter of their types.
ReceiveFails(c) ==
    /\ client[c] \in Busy
    /\ wire[c] = "reply" \/ link[c] = "closed"
    /\ client' = [client EXCEPT ![c] = "failed"]
    /\ outcome' = [outcome EXCEPT ![c] = "lost"]
    /\ Taken(c)
    /\ UNCHANGED << serverVars, options, clientPairs, own, call, link >>

Leave(c) ==
    /\ client[c] \notin {"new", "left"}
    /\ client' = [client EXCEPT ![c] = "left"]
    /\ UNCHANGED << serverVars, options, clientPairs, own, call, link, wire, reply, outcome >>

-----------------------------------------------------------------------------
Next ==
    \/ \E request \in RequestTypes, response \in ResponseTypes :
          \/ RegisterHandler(request, response)
          \/ \E c \in Clients : RegisterPair(c, request, response)
          \/ \E c \in Clients, body \in Bodies : SendRequest(c, request, response, body)
    \/ Start
    \/ \E c \in Clients :
          \/ Accept(c)
          \/ Dispatch(c)
          \/ Reject(c)
          \/ HandlerReturns(c)
          \/ HandlerThrows(c)
          \/ SessionEnds(c)
          \/ Connect(c)
          \/ FinishReflection(c)
          \/ ReceiveReply(c)
          \/ ReceiveFails(c)
          \/ Leave(c)

Spec == Init /\ [][Next]_vars

-----------------------------------------------------------------------------
(* Safety.                                                                  *)

(***************************************************************************)
(* The server's two maps agree: what reflection tells the clients is what  *)
(* the handlers do.                                                        *)
(***************************************************************************)
MapsAgree ==
    /\ DOMAIN handlers = DOMAIN pairs
    /\ \A t \in DOMAIN handlers :
           /\ registered[handlers[t]].request = t
           /\ registered[handlers[t]].response = pairs[t]

\* The calls of registerHandler for a type.
Attempts(t) == {i \in DOMAIN registered : registered[i].request = t}

(***************************************************************************)
(* The handler in force is the last one registered for its type under      *)
(* SilentOverride, and the first one under every other strategy.           *)
(***************************************************************************)
FirstOrLastInForce ==
    \A t \in DOMAIN handlers :
        handlers[t] = IF strategy = "SilentOverride" THEN Max(Attempts(t))
                                                     ELSE Min(Attempts(t))

(***************************************************************************)
(* Under the two strategies that report, registerHandler returned true for *)
(* exactly the handlers that are in force.                                 *)
(***************************************************************************)
AnswerTellsTruth ==
    strategy \in {"IndicateIgnore", "Throw"} =>
        \A i \in DOMAIN registered :
            registered[i].answer = "true" <=> handlers[registered[i].request] = i

\* A handler has taken the place of another while the server was running.
Overridden(t) ==
    strategy = "SilentOverride" /\ \E i \in Attempts(t) : ~registered[i].early

(***************************************************************************)
(* Whatever its application registered before connect, a client that       *)
(* reflects has no pair but the server's and those its application         *)
(* registered for types the server had not, or after connect.              *)
(***************************************************************************)
ReflectionSound ==
    \A c \in Clients : Reflects(c) /\ client[c] \in {"ready", "calling"} =>
        \A t \in DOMAIN clientPairs[c] \ own[c] :
            /\ t \in DOMAIN pairs
            /\ clientPairs[c][t] = pairs[t] \/ Overridden(t)

(***************************************************************************)
(* It knows every type that was registered before start.                   *)
(***************************************************************************)
ReflectionComplete ==
    \A c \in Clients : Reflects(c) /\ client[c] \in {"ready", "calling"} =>
        \A i \in DOMAIN registered :
            registered[i].early => registered[i].request \in DOMAIN clientPairs[c]

(***************************************************************************)
(* A client that uses the pairs it reflected never gets a reply of another *)
(* type, unless the handler was replaced behind its back.                  *)
(***************************************************************************)
ReflectedCallsAreTyped ==
    \A c \in Clients : Reflects(c) /\ client[c] = "ready" /\ outcome[c] = "mismatch" =>
        call[c].request \in own[c] \/ Overridden(call[c].request)

(***************************************************************************)
(* Whatever bytes a message is made of, if protobuf can serialize it: its  *)
(* handler is called with the message that the client sent, and the server *)
(* ends over a request only because its type has no handler.               *)
(***************************************************************************)
RequestArrivesIntact ==
    /\ \A c \in Clients :
           wire[c] = "handling" /\ Len(call[c].body) <= MaxSerialized => argument = Sent(c)
    /\ culprit # NoOne => call[culprit].request \notin DOMAIN handlers

(***************************************************************************)
(* No call turns a message into another one: what cannot be sent is        *)
(* reported, as sendRequest says.                                          *)
(***************************************************************************)
NothingIsReplaced == \A c \in Clients : wire[c] = "handling" => argument = Sent(c)

(***************************************************************************)
(* The header of a request says its length: 32 bits are enough, though     *)
(* neither end checks.                                                     *)
(***************************************************************************)
HeaderHoldsLength ==
    \A c \in Clients : wire[c] = "request" => HeaderLength(Payload(c)) = Len(Payload(c))

(***************************************************************************)
(* A request without a handler ends the server; a client that uses the     *)
(* pairs it reflected never does this, nor one whose reflection failed.    *)
(***************************************************************************)
ReflectedCallsAreHandled ==
    culprit # NoOne /\ Reflects(culprit) => call[culprit].request \in own[culprit]
=============================================================================
