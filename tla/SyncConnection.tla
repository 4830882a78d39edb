--------------------------- MODULE SyncConnection ---------------------------
(***************************************************************************)
(* One SyncClient and the SyncUnixDomainSession that serves it, over one   *)
(* connected AF_UNIX socket.  The client thread runs sendRequest: it       *)
(* writes a frame with boost::asio::write and takes the reply with two     *)
(* read_some calls.  The server thread runs SyncUnixDomainSession::start:  *)
(* it reads a header and a body with boost::asio::read, calls the request  *)
(* handler, writes the response, and loops.  Each system call is a step,   *)
(* so the steps of the two threads interleave at every one of them, and    *)
(* either process can go away between any two.  The 100 ms sleeps of the   *)
(* server's loops are covered by the interleaving.                         *)
(***************************************************************************)
EXTENDS FrameStream

CONSTANTS
    RequestSizes,       \* payload sizes of the requests the application sends
    ResponseSizes,      \* payload sizes of the responses its handlers return
    MaxCalls,           \* bound: calls of sendRequest on this client
    ReuseAfterFailure   \* does the application call again after a failed
                        \* write or read?

ASSUME ConnectionAssumption ==
    /\ RequestSizes \subseteq Nat \ {0}
    /\ ResponseSizes \subseteq Nat \ {0}
    /\ MaxCalls \in Nat
    /\ ReuseAfterFailure \in BOOLEAN

VARIABLES
    request,        \* the stream from the client to the server
    response,       \* the stream from the server to the client
    clientState,    \* where the client thread stands in sendRequest
    replyLength,    \* message_length in receiveMessage
    results,        \* what each finished call returned: see Failed, Unparsed
    sessionState,   \* where the server thread stands in start
    need,           \* bytes the current boost::asio::read still waits for
    msgLength,      \* msg_length, what readHeader returned
    handled,        \* the request of each call of m_request_handler
    sessionResult,  \* what start returned, or how it ended
    reset           \* the kernel reports the client's close as ECONNRESET

clientVars  == << clientState, replyLength, results >>
sessionVars == << sessionState, need, msgLength, handled, sessionResult >>
vars == << request, response, clientVars, sessionVars, reset >>

\* A call returns the error of a write or a read, the error of the parser, or
\* the reply to request k; the latter is k.
Failed   == Garbage
Unparsed == -1
Outcome  == Nat \cup {Unparsed}

ClientBusy == {"sending", "awaitHeader", "awaitBody"}

SessionEnd == {"ok", "GeneralServerSessionError", "UnableToSendMessage",
               "exception", "killed"}

TypeOK ==
    /\ request \in Stream
    /\ response \in Stream
    /\ clientState \in ClientBusy \cup {"idle", "closed"}
    /\ replyLength \in Nat
    /\ results \in Seq(Outcome)
    /\ sessionState \in {"readHeader", "readBody", "writeResponse", "ended"}
    /\ need \in Nat
    /\ msgLength \in Nat
    /\ handled \in Seq(Nat)
    /\ sessionResult \in SessionEnd \cup {"running"}
    /\ reset \in BOOLEAN

Init ==
    /\ request = EmptyStream
    /\ response = EmptyStream
    /\ clientState = "idle"
    /\ replyLength = 0
    /\ results = << >>
    /\ sessionState = "readHeader"
    /\ need = HeaderSize
    /\ msgLength = 0
    /\ handled = << >>
    /\ sessionResult = "running"
    /\ reset = FALSE

ClientOpen  == clientState # "closed"
SessionOpen == sessionState # "ended"

Return(result) ==
    /\ results' = Append(results, result)
    /\ clientState' = "idle"

End(result) ==
    /\ sessionState' = "ended"
    /\ sessionResult' = result

-----------------------------------------------------------------------------
(* The client thread.                                                       *)

\* sendRequest up to the first write; a pair that fails validation sends
\* nothing and is not a call here.
Send(size) ==
    /\ clientState = "idle"
    /\ Len(results) < MaxCalls
    /\ ReuseAfterFailure \/ \A i \in DOMAIN results : results[i] # Failed
    /\ request' = BeginFrame(request, size)
    /\ clientState' = "sending"
    /\ UNCHANGED << response, replyLength, results, sessionVars, reset >>

ClientWrite ==
    /\ clientState = "sending"
    /\ SessionOpen
    /\ HasRoom(request)
    /\ request' = WriteSome(request)
    /\ clientState' = IF Unwritten(request') = 0 THEN "awaitHeader" ELSE "sending"
    /\ UNCHANGED << response, replyLength, results, sessionVars, reset >>

\* Fault: a writer that is blocked is not woken when the session ends.
ClientWriteFails_Unwoken ==
    /\ clientState = "sending"
    /\ ~SessionOpen
    /\ HasRoom(request)
    /\ Return(Failed)
    /\ UNCHANGED << request, response, replyLength, sessionVars, reset >>

\* EPIPE or ECONNRESET; the part of the frame that was written stays written.
ClientWriteFails ==
    /\ clientState = "sending"
    /\ ~SessionOpen
    /\ Return(Failed)
    /\ UNCHANGED << request, response, replyLength, sessionVars, reset >>

(***************************************************************************)
(* The first read_some of receiveMessage.  Fewer bytes than a header end   *)
(* the call; the bytes are gone.  A length that payload bytes decode to    *)
(* may also be more than resize can allocate.                              *)
(***************************************************************************)
ClientReadHeader ==
    /\ clientState = "awaitHeader"
    /\ Available(response) > 0
    /\ response' = ReadSome(response, HeaderSize)
    /\ \/ /\ Available(response) < HeaderSize
          /\ Return(Failed)
          /\ UNCHANGED replyLength
       \/ /\ Available(response) >= HeaderSize
          /\ replyLength' \in DecodedLengths(response')
          /\ clientState' = "awaitBody"
          /\ UNCHANGED results
       \/ /\ Available(response) >= HeaderSize
          /\ HeaderReadBy(response') = {}
          /\ Return(Failed)
          /\ UNCHANGED replyLength
    /\ UNCHANGED << request, sessionVars, reset >>

(***************************************************************************)
(* The second read_some of receiveMessage, and the parsing of what it took *)
(* in sendRequest.  Bytes that are not one whole payload do not begin with *)
(* the response's type name, so the parser rejects them; and it may reject *)
(* a whole reply, when it is of another type than the caller asked for or  *)
(* its bytes are no message of that type.  The session goes on.            *)
(***************************************************************************)
ClientReadBody ==
    /\ clientState = "awaitBody"
    /\ Available(response) > 0 \/ replyLength = 0
    /\ response' = ReadSome(response, replyLength)
    /\ \/ /\ Available(response) < replyLength
          /\ Return(Failed)
       \/ /\ Available(response) >= replyLength
          /\ \E k \in PayloadReadBy(response', replyLength) :
                 \/ Return(Unparsed)
                 \/ k # Garbage /\ Return(handled[k])
    /\ UNCHANGED << request, replyLength, sessionVars, reset >>

\* Fault: a receive that gives up before the session is over.
ClientReceiveFails_TimesOut ==
    /\ clientState \in {"awaitHeader", "awaitBody"}
    /\ Available(response) = 0
    /\ Return(Failed)
    /\ UNCHANGED << request, response, replyLength, sessionVars, reset >>

\* Fault: the end of file is noticed only inside a frame.
ClientReceiveFails_InBodyOnly ==
    /\ clientState = "awaitBody" /\ replyLength > 0
    /\ Available(response) = 0
    /\ ~SessionOpen
    /\ Return(Failed)
    /\ UNCHANGED << request, response, replyLength, sessionVars, reset >>

\* End of file or ECONNRESET, once the kernel has nothing more to deliver.
ClientReceiveFails ==
    /\ \/ clientState = "awaitHeader"
       \/ clientState = "awaitBody" /\ replyLength > 0
    /\ Available(response) = 0
    /\ ~SessionOpen
    /\ Return(Failed)
    /\ UNCHANGED << request, response, replyLength, sessionVars, reset >>

(***************************************************************************)
(* ~SyncClient, or the end of the client's process at any point of a call. *)
(* Closing a socket that has unread data resets the connection on Linux    *)
(* and not on macOS.                                                       *)
(***************************************************************************)
Close ==
    /\ ClientOpen
    /\ clientState' = "closed"
    /\ reset' \in BOOLEAN
    /\ reset' => Available(response) > 0
    /\ UNCHANGED << request, response, replyLength, results, sessionVars >>

-----------------------------------------------------------------------------
(* The server thread.                                                       *)

\* Fault: one read_some is taken for the whole of what was asked.
SessionRead_Once ==
    /\ sessionState \in {"readHeader", "readBody"}
    /\ need > 0
    /\ Available(request) > 0
    /\ request' = ReadSome(request, need)
    /\ need' = 0
    /\ UNCHANGED << response, clientVars, sessionState, msgLength, handled,
                    sessionResult, reset >>

\* Fault: everything that has arrived is taken, not just what was asked.
SessionRead_Greedy ==
    /\ sessionState \in {"readHeader", "readBody"}
    /\ need > 0
    /\ Available(request) > 0
    /\ request' = ReadSome(request, Available(request))
    /\ need' = need - Available(request)
    /\ UNCHANGED << response, clientVars, sessionState, msgLength, handled,
                    sessionResult, reset >>

\* One read_some of boost::asio::read, which repeats it until need is 0.
SessionRead ==
    /\ sessionState \in {"readHeader", "readBody"}
    /\ need > 0
    /\ Available(request) > 0
    /\ request' = ReadSome(request, need)
    /\ need' = need - Lesser(need, Available(request))
    /\ UNCHANGED << response, clientVars, sessionState, msgLength, handled,
                    sessionResult, reset >>

DecodeHeader ==
    /\ sessionState = "readHeader"
    /\ need = 0
    /\ msgLength' \in DecodedLengths(request)
    /\ need' = msgLength'
    /\ sessionState' = "readBody"
    /\ UNCHANGED << request, response, clientVars, handled, sessionResult, reset >>

HandleRequest ==
    /\ sessionState = "readBody"
    /\ need = 0
    /\ \E k \in PayloadReadBy(request, msgLength) : handled' = Append(handled, k)

\* m_request_handler returns a response, which is framed.
Dispatch(size) ==
    /\ HandleRequest
    /\ response' = BeginFrame(response, size)
    /\ sessionState' = "writeResponse"
    /\ UNCHANGED << request, clientVars, need, msgLength, sessionResult, reset >>

\* m_request_handler throws: start catches only boost's system_error.
DispatchThrows ==
    /\ HandleRequest
    /\ End("exception")
    /\ UNCHANGED << request, response, clientVars, need, msgLength, reset >>

\* Fault: the end of file is acted on before what precedes it was read.
SessionReadFails_Early ==
    /\ sessionState \in {"readHeader", "readBody"}
    /\ need > 0
    /\ ~ClientOpen
    /\ End(IF reset THEN "GeneralServerSessionError" ELSE "ok")
    /\ UNCHANGED << request, response, clientVars, need, msgLength, handled, reset >>

\* Fault: eof is not told from the other errors.
SessionReadFails_EofIsError ==
    /\ sessionState \in {"readHeader", "readBody"}
    /\ need > 0
    /\ Available(request) = 0
    /\ ~ClientOpen
    /\ End("GeneralServerSessionError")
    /\ UNCHANGED << request, response, clientVars, need, msgLength, handled, reset >>

\* Fault: eof is looked for between frames only.
SessionReadFails_BetweenFrames ==
    /\ sessionState = "readHeader"
    /\ need > 0
    /\ Available(request) = 0
    /\ ~ClientOpen
    /\ End(IF reset THEN "GeneralServerSessionError" ELSE "ok")
    /\ UNCHANGED << request, response, clientVars, need, msgLength, handled, reset >>

\* read throws: eof ends the session normally, even inside a frame.
SessionReadFails ==
    /\ sessionState \in {"readHeader", "readBody"}
    /\ need > 0
    /\ Available(request) = 0
    /\ ~ClientOpen
    /\ End(IF reset THEN "GeneralServerSessionError" ELSE "ok")
    /\ UNCHANGED << request, response, clientVars, need, msgLength, handled, reset >>

\* Fault: after a partial write the request is handled over again.
SessionWrite_Again ==
    /\ sessionState = "writeResponse"
    /\ ClientOpen
    /\ HasRoom(response)
    /\ response' = WriteSome(response)
    /\ IF Unwritten(response') = 0
          THEN sessionState' = "readHeader" /\ need' = HeaderSize
          ELSE sessionState' = "readBody" /\ need' = 0
    /\ UNCHANGED << request, clientVars, msgLength, handled, sessionResult, reset >>

SessionWrite ==
    /\ sessionState = "writeResponse"
    /\ ClientOpen
    /\ HasRoom(response)
    /\ response' = WriteSome(response)
    /\ IF Unwritten(response') = 0
          THEN sessionState' = "readHeader" /\ need' = HeaderSize
          ELSE UNCHANGED << sessionState, need >>
    /\ UNCHANGED << request, clientVars, msgLength, handled, sessionResult, reset >>

\* Fault: a writer that is blocked is not woken when the client leaves.
SessionWriteFails_Unwoken ==
    /\ sessionState = "writeResponse"
    /\ ~ClientOpen
    /\ HasRoom(response)
    /\ End("UnableToSendMessage")
    /\ UNCHANGED << request, response, clientVars, need, msgLength, handled, reset >>

\* EPIPE: writeResponse reports it, and so does start.
SessionWriteFails ==
    /\ sessionState = "writeResponse"
    /\ ~ClientOpen
    /\ End("UnableToSendMessage")
    /\ UNCHANGED << request, response, clientVars, need, msgLength, handled, reset >>

\* The server's process ends at any point.
SessionKilled ==
    /\ SessionOpen
    /\ End("killed")
    /\ UNCHANGED << request, response, clientVars, need, msgLength, handled, reset >>

-----------------------------------------------------------------------------
ClientStep ==
    \/ ClientWrite
    \/ ClientWriteFails
    \/ ClientReadHeader
    \/ ClientReadBody
    \/ ClientReceiveFails

HandlerReturns ==
    \/ \E size \in ResponseSizes : Dispatch(size)
    \/ DispatchThrows

SessionStep ==
    \/ SessionRead
    \/ DecodeHeader
    \/ HandlerReturns
    \/ SessionReadFails
    \/ SessionWrite
    \/ SessionWriteFails

Next ==
    \/ \E size \in RequestSizes : Send(size)
    \/ ClientStep
    \/ Close
    \/ SessionStep
    \/ SessionKilled

\* A thread whose system call can complete is scheduled, and a handler
\* returns or throws.  Nothing is promised of Send, Close or SessionKilled.
Fairness == WF_vars(ClientStep) /\ WF_vars(SessionStep)

SafetySpec == Init /\ [][Next]_vars
Spec == SafetySpec /\ Fairness
-----------------------------------------------------------------------------
(* Safety.                                                                  *)

(***************************************************************************)
(* The handler is given each request once, in the order of the calls, and  *)
(* only when all of it has arrived: the server, whose reads are exact,     *)
(* never loses its place in the stream, whatever the client does.          *)
(***************************************************************************)
HandledInOrder ==
    /\ Len(handled) <= Len(request.frames)
    /\ \A k \in DOMAIN handled :
           /\ handled[k] = k
           /\ FrameEnd(request.frames[k]) <= request.written

(***************************************************************************)
(* sendRequest never returns the reply to another call: only an error or   *)
(* its own.                                                                *)
(***************************************************************************)
ReplyMatches == \A i \in DOMAIN results : results[i] \in {Failed, Unparsed, i}

(***************************************************************************)
(* A write or a read of sendRequest fails only if the server's session is  *)
(* over: a client that is told UnableToSendMessage or                      *)
(* UnableToReceiveMessage has lost its connection, never just its place.   *)
(* (UnableToParseReturnedProto is also returned on a living session.)      *)
(***************************************************************************)
FailureMeansServerGone ==
    SessionOpen => \A i \in DOMAIN results : results[i] # Failed

(***************************************************************************)
(* When start returns without an error, no request that the client wrote   *)
(* in full was dropped: the end of file is seen only behind the last one.  *)
(***************************************************************************)
CleanEndLosesNothing ==
    sessionResult = "ok" =>
        \A k \in DOMAIN request.frames :
            FrameEnd(request.frames[k]) <= request.written => k <= Len(handled)

(***************************************************************************)
(* A client that leaves between two calls, none of which failed to write   *)
(* or read, does not make start return an error, whether or not it could   *)
(* parse the replies.  (run would stop the server for it.)                 *)
(***************************************************************************)
PoliteDepartureIsClean ==
    /\ ~ClientOpen
    /\ Len(results) = Len(request.frames)
    /\ \A i \in DOMAIN results : results[i] # Failed
    => sessionResult \notin {"GeneralServerSessionError", "UnableToSendMessage"}

-----------------------------------------------------------------------------
(* Liveness.                                                                *)

(***************************************************************************)
(* Every call of sendRequest returns, unless its process ends first.       *)
(***************************************************************************)
CallReturns == clientState \in ClientBusy ~> clientState \in {"idle", "closed"}

(***************************************************************************)
(* When the client is gone the session ends, wherever it stood: the server *)
(* has one thread, and serves nobody else until then.                      *)
(***************************************************************************)
DepartureEndsSession == ~ClientOpen ~> ~SessionOpen

-----------------------------------------------------------------------------
\* The promise of sendRequest, stated without streams.
Promise == INSTANCE SyncCall WITH
               issued <- Len(request.frames),
               handled <- Len(handled),
               results <- results

(***************************************************************************)
(* A connection implements SyncCall.                                       *)
(***************************************************************************)
ImplementsSyncCall == Promise!Spec
=============================================================================
