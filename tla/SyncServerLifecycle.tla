------------------------- MODULE SyncServerLifecycle -------------------------
(***************************************************************************)
(* The life of the SyncServer objects that share one socket path, and of   *)
(* the clients that connect to it.  A server is one thread: it accepts a   *)
(* connection, serves it until it ends, and only then accepts the next;    *)
(* the other clients wait in the backlog of the listening socket, where    *)
(* they can already connect and send.  What ends a session decides whether *)
(* the server goes on, returns an error from start or leaves start by an   *)
(* exception, and whether the socket file stays behind.  A handler may     *)
(* itself use a SyncClient of the path: it then waits on its own server.   *)
(*                                                                         *)
(* A message is whole or in part here; SyncConnection has its bytes.  What *)
(* does not fit the socket blocks its writer, and a client that reads a    *)
(* reply in part has lost its place in the stream for good.                *)
(***************************************************************************)
EXTENDS Integers, Sequences, SequencesExt

CONSTANTS
    Servers,        \* SyncServer objects, in any number of processes
    Clients,        \* SyncClient objects
    NoOne,          \* neither of them
    MaxBacklog,     \* connections the kernel queues for accept
    MaxStarts,      \* bound: calls of start on one server
    MaxAhead        \* bound: requests of one client that no server has read

ASSUME LifecycleAssumption ==
    /\ NoOne \notin Servers \cup Clients
    /\ MaxBacklog \in Nat \ {0}
    /\ MaxStarts \in Nat
    /\ MaxAhead \in Nat \ {0}

VARIABLES
    path,       \* the server whose socket the file at socket_addr names
    server,     \* where each server stands
    starts,     \* how often its start was called
    outcome,    \* how its last start ended
    backlog,    \* connections it has not accepted, in order
    session,    \* the client it is serving
    inner,      \* the client that its running handler waits with
    client,     \* where each client stands
    requests,   \* how many whole requests of it no server has read
    unread,     \* what it has not read of its replies: a whole one, a part
    astray,     \* has it read a reply in part, and lost its place?
    reset       \* was its close reported to the server as ECONNRESET?

serverVars == << server, starts, outcome >>
linkVars   == << backlog, session, inner >>
clientVars == << client, requests, unread, astray, reset >>
vars == << path, serverVars, linkVars, clientVars >>

\* A response is being made, or is being written: with room, or without.
Answering(s) == server[s] \in {"responding", "writing", "blocked"}
Serving(s)   == server[s] = "reading" \/ Answering(s)
Running(s)   == server[s] = "accepting" \/ Serving(s)
Listening(s) == server[s] \notin {"unborn", "gone"}

TypeOK ==
    /\ path \in Servers \cup {NoOne}
    /\ server \in [Servers -> {"unborn", "stopped", "accepting", "reading",
                               "responding", "writing", "blocked", "gone"}]
    /\ starts \in [Servers -> 0 .. MaxStarts]
    /\ outcome \in [Servers -> {"none", "serverError", "sessionError", "exception"}]
    /\ backlog \in [Servers -> Seq(Clients)]
    /\ session \in [Servers -> Clients \cup {NoOne}]
    /\ inner \in [Servers -> Clients \cup {NoOne}]
    /\ \A s \in Servers : inner[s] # NoOne => server[s] = "responding"
    /\ \A s \in Servers : session[s] # NoOne <=> Serving(s)
    /\ client \in [Clients -> {"new", "idle", "blocked", "waiting", "left", "abandoned"}]
    /\ requests \in [Clients -> 0 .. MaxAhead]
    /\ unread \in [Clients -> {"nothing", "part", "whole"}]
    /\ astray \in [Clients -> BOOLEAN]
    /\ reset \in [Clients -> BOOLEAN]

Init ==
    /\ path = NoOne
    /\ server = [s \in Servers |-> "unborn"]
    /\ starts = [s \in Servers |-> 0]
    /\ outcome = [s \in Servers |-> "none"]
    /\ backlog = [s \in Servers |-> << >>]
    /\ session = [s \in Servers |-> NoOne]
    /\ inner = [s \in Servers |-> NoOne]
    /\ client = [c \in Clients |-> "new"]
    /\ requests = [c \in Clients |-> 0]
    /\ unread = [c \in Clients |-> "nothing"]
    /\ astray = [c \in Clients |-> FALSE]
    /\ reset = [c \in Clients |-> FALSE]

Departed(c)  == client[c] \in {"left", "abandoned"}
Calling(c)   == client[c] \in {"blocked", "waiting"}
Connected(c) == \E s \in Servers : session[s] = c \/ Contains(backlog[s], c)

\* A client of a running handler does only what the handler does with it.
Free(c) == \A s \in Servers : inner[s] # c

\* The handler has nothing more to wait for.
HandlerDone(s) == inner[s] # NoOne => client[inner[s]] = "idle"

\* Closing a socket that has unread data resets the connection on Linux and
\* not on macOS.
Close(c, how) ==
    /\ client' = [client EXCEPT ![c] = how]
    /\ \E r \in {FALSE, unread[c] # "nothing"} : reset' = [reset EXCEPT ![c] = r]

\* The handler's frame goes, and with it the handler's client, if it has one.
Dismiss(s) ==
    /\ inner' = [inner EXCEPT ![s] = NoOne]
    /\ IF inner[s] = NoOne THEN UNCHANGED << client, reset >>
       ELSE Close(inner[s], IF Calling(inner[s]) THEN "abandoned" ELSE "left")

-----------------------------------------------------------------------------
(* The servers.                                                             *)

\* Fault: a file that stands in the way is removed first.
Construct_Replaces(s) ==
    /\ server[s] = "unborn"
    /\ path' = s
    /\ server' = [server EXCEPT ![s] = "stopped"]
    /\ UNCHANGED << starts, outcome, linkVars, clientVars >>

\* The acceptor's constructor binds and listens; it throws, and there is no
\* server, while a file stands at the path, whether or not anyone listens.
Construct(s) ==
    /\ server[s] = "unborn"
    /\ path = NoOne
    /\ path' = s
    /\ server' = [server EXCEPT ![s] = "stopped"]
    /\ UNCHANGED << starts, outcome, linkVars, clientVars >>

\* start does not bind: listen changes nothing on a listening socket.
Start(s) ==
    /\ server[s] = "stopped"
    /\ starts[s] < MaxStarts
    /\ starts' = [starts EXCEPT ![s] = @ + 1]
    /\ server' = [server EXCEPT ![s] = "accepting"]
    /\ UNCHANGED << path, outcome, linkVars, clientVars >>

\* Fault: the file is left behind.
ReturnError_KeepsFile(s, kind) ==
    /\ server' = [server EXCEPT ![s] = "stopped"]
    /\ outcome' = [outcome EXCEPT ![s] = kind]
    /\ session' = [session EXCEPT ![s] = NoOne]
    /\ Dismiss(s)
    /\ UNCHANGED << path, starts, backlog >>

\* Fault: the session outlives the error.
ReturnError_KeepsSession(s, kind) ==
    /\ path' = NoOne
    /\ server' = [server EXCEPT ![s] = "stopped"]
    /\ outcome' = [outcome EXCEPT ![s] = kind]
    /\ UNCHANGED << starts, linkVars, client, reset >>

\* start returns an error: the file at the path is removed, by its name; the
\* session's socket is closed, and the listening socket stays open.
ReturnError(s, kind) ==
    /\ path' = NoOne
    /\ server' = [server EXCEPT ![s] = "stopped"]
    /\ outcome' = [outcome EXCEPT ![s] = kind]
    /\ session' = [session EXCEPT ![s] = NoOne]
    /\ Dismiss(s)
    /\ UNCHANGED << starts, backlog >>

Accept(s) ==
    /\ server[s] = "accepting"
    /\ backlog[s] # << >>
    /\ session' = [session EXCEPT ![s] = Head(backlog[s])]
    /\ backlog' = [backlog EXCEPT ![s] = Tail(@)]
    /\ server' = [server EXCEPT ![s] = "reading"]
    /\ UNCHANGED << path, starts, outcome, inner, clientVars >>

\* accept throws a system_error: too many open files, say.
AcceptFails(s) ==
    /\ server[s] = "accepting"
    /\ ReturnError(s, "serverError")
    /\ UNCHANGED << requests, unread, astray >>

\* The session reads a request, and the handler begins.
HandleRequest(s) ==
    /\ server[s] = "reading"
    /\ requests[session[s]] > 0
    /\ requests' = [requests EXCEPT ![session[s]] = @ - 1]
    /\ server' = [server EXCEPT ![s] = "responding"]
    /\ UNCHANGED << path, starts, outcome, linkVars, client, unread, astray, reset >>

(***************************************************************************)
(* A handler makes a SyncClient of the path, connects it, which the kernel *)
(* does without the server's thread, and sends: it waits for the reply, or *)
(* for room to write.  If connect or the write fails, the handler goes on  *)
(* with the error.                                                         *)
(***************************************************************************)
HandlerCalls(s, c) ==
    /\ server[s] = "responding"
    /\ inner[s] = NoOne
    /\ client[c] = "new"
    /\ \E t \in Servers :
          /\ path = t
          /\ Listening(t)
          /\ Len(backlog[t]) < MaxBacklog
          /\ backlog' = [backlog EXCEPT ![t] = Append(@, c)]
    /\ inner' = [inner EXCEPT ![s] = c]
    /\ \/ /\ client' = [client EXCEPT ![c] = "waiting"]
          /\ requests' = [requests EXCEPT ![c] = 1]
       \/ /\ client' = [client EXCEPT ![c] = "blocked"]
          /\ UNCHANGED requests
    /\ UNCHANGED << path, serverVars, session, unread, astray, reset >>

\* Fault: the exception is caught, and no response is written.
HandlerThrows_Swallowed(s) ==
    /\ server[s] = "reading"
    /\ requests[session[s]] > 0
    /\ requests' = [requests EXCEPT ![session[s]] = @ - 1]
    /\ UNCHANGED << path, serverVars, linkVars, client, unread, astray, reset >>

(***************************************************************************)
(* A handler throws, or acceptMessage finds no handler or cannot parse the *)
(* request: the exception is none that the session or run catches, so it   *)
(* leaves start, closing the session, and the file stays.                  *)
(***************************************************************************)
HandlerThrows(s) ==
    /\ \/ server[s] = "reading" /\ requests[session[s]] > 0
       \/ server[s] = "responding" /\ HandlerDone(s)
    /\ server' = [server EXCEPT ![s] = "stopped"]
    /\ outcome' = [outcome EXCEPT ![s] = "exception"]
    /\ session' = [session EXCEPT ![s] = NoOne]
    /\ Dismiss(s)
    /\ UNCHANGED << path, starts, backlog, requests, unread, astray >>

\* boost::asio::write has written all of the response.
WriteResponse(s) ==
    /\ server[s] \in {"responding", "writing"}
    /\ HandlerDone(s)
    /\ ~Departed(session[s])
    /\ unread' = [unread EXCEPT ![session[s]] =
                      IF astray[session[s]] THEN "part" ELSE "whole"]
    /\ server' = [server EXCEPT ![s] = "reading"]
    /\ Dismiss(s)
    /\ UNCHANGED << path, starts, outcome, backlog, session, requests, astray >>

\* It has written a part, and the socket has room for more, or is full.
WritePart(s) ==
    /\ server[s] \in {"responding", "writing"}
    /\ HandlerDone(s)
    /\ ~Departed(session[s])
    /\ unread' = [unread EXCEPT ![session[s]] = "part"]
    /\ \E state \in {"writing", "blocked"} : server' = [server EXCEPT ![s] = state]
    /\ Dismiss(s)
    /\ UNCHANGED << path, starts, outcome, backlog, session, requests, astray >>

\* EPIPE, which also wakes a writer that is blocked.
WriteFails(s) ==
    /\ Answering(s)
    /\ HandlerDone(s)
    /\ Departed(session[s])
    /\ ReturnError(s, "sessionError")
    /\ UNCHANGED << requests, unread, astray >>

\* Fault: eof is not told from the other errors.
SessionEnds_EofIsError(s) ==
    /\ server[s] = "reading"
    /\ Departed(session[s])
    /\ requests[session[s]] = 0
    /\ ReturnError(s, "sessionError")
    /\ UNCHANGED << requests, unread, astray >>

\* eof behind the last whole request ends the session, ECONNRESET the server.
SessionEnds(s) ==
    /\ server[s] = "reading"
    /\ Departed(session[s])
    /\ requests[session[s]] = 0
    /\ IF reset[session[s]]
          THEN ReturnError(s, "sessionError")
          ELSE /\ server' = [server EXCEPT ![s] = "accepting"]
               /\ session' = [session EXCEPT ![s] = NoOne]
               /\ UNCHANGED << path, starts, outcome, backlog, inner, client, reset >>
    /\ UNCHANGED << requests, unread, astray >>

\* Fault: another process still holds the listening socket.
Vanish_KeepsBacklog(s) ==
    /\ server' = [server EXCEPT ![s] = "gone"]
    /\ session' = [session EXCEPT ![s] = NoOne]
    /\ Dismiss(s)
    /\ UNCHANGED << path, starts, outcome, backlog, requests, unread, astray >>

\* The sockets close; nothing removes the file.
Vanish(s) ==
    /\ server' = [server EXCEPT ![s] = "gone"]
    /\ backlog' = [backlog EXCEPT ![s] = << >>]
    /\ session' = [session EXCEPT ![s] = NoOne]
    /\ Dismiss(s)
    /\ UNCHANGED << path, starts, outcome, requests, unread, astray >>

\* ~SyncServer, or the end of its process while start is not running.
Destroy(s) == server[s] = "stopped" /\ Vanish(s)

\* The process ends inside start.
Crash(s) == Running(s) /\ Vanish(s)

-----------------------------------------------------------------------------
(* The clients.                                                             *)

\* The kernel completes a connect without the server.  One that fails leaves
\* the client as it was.
Connect(c) ==
    /\ client[c] = "new"
    /\ \E s \in Servers :
          /\ path = s
          /\ Listening(s)
          /\ Len(backlog[s]) < MaxBacklog
          /\ backlog' = [backlog EXCEPT ![s] = Append(@, c)]
    /\ client' = [client EXCEPT ![c] = "idle"]
    /\ UNCHANGED << path, serverVars, session, inner, requests, unread, astray, reset >>

\* sendMessage writes a request while the server's end is open, accepted or
\* not; if it fails at once the call is over and nothing has changed.
Request(c) ==
    /\ client[c] = "idle"
    /\ Free(c)
    /\ Connected(c)
    /\ requests[c] < MaxAhead
    /\ client' = [client EXCEPT ![c] = "waiting"]
    /\ requests' = [requests EXCEPT ![c] = @ + 1]
    /\ UNCHANGED << path, serverVars, linkVars, unread, astray, reset >>

\* The request does not fit the socket: boost::asio::write is blocked.
RequestBlocks(c) ==
    /\ client[c] = "idle"
    /\ Free(c)
    /\ Connected(c)
    /\ client' = [client EXCEPT ![c] = "blocked"]
    /\ UNCHANGED << path, serverVars, linkVars, requests, unread, astray, reset >>

\* The server reads this very request, and makes room.  (A write for which
\* the reading of an earlier request makes room is Request, in one step.)
RequestRest(c) ==
    /\ client[c] = "blocked"
    /\ \E s \in Servers : session[s] = c /\ server[s] = "reading"
    /\ requests[c] = 0
    /\ client' = [client EXCEPT ![c] = "waiting"]
    /\ requests' = [requests EXCEPT ![c] = 1]
    /\ UNCHANGED << path, serverVars, linkVars, unread, astray, reset >>

\* EPIPE or ECONNRESET wakes a writer that is blocked.
RequestFails(c) ==
    /\ client[c] = "blocked"
    /\ ~Connected(c)
    /\ client' = [client EXCEPT ![c] = "idle"]
    /\ UNCHANGED << path, serverVars, linkVars, requests, unread, astray, reset >>

ReceiveReply(c) ==
    /\ client[c] = "waiting"
    /\ unread[c] = "whole"
    /\ unread' = [unread EXCEPT ![c] = "nothing"]
    /\ client' = [client EXCEPT ![c] = "idle"]
    /\ UNCHANGED << path, serverVars, linkVars, requests, astray, reset >>

(***************************************************************************)
(* The two read_some calls take a part of a reply: NotEnoughBytesReceived, *)
(* on a connection that lives; or, in a call after that, whatever lies in  *)
(* their way.  The call is over, and the rest stays unread.  The server,   *)
(* if it was blocked, may find room; it does if nothing stays.             *)
(***************************************************************************)
ReceivePart(c) ==
    /\ client[c] = "waiting"
    /\ unread[c] = "part"
    /\ client' = [client EXCEPT ![c] = "idle"]
    /\ astray' = [astray EXCEPT ![c] = TRUE]
    /\ \/ UNCHANGED << server, unread >>
       \/ /\ \E rest \in {"nothing", "part"} : unread' = [unread EXCEPT ![c] = rest]
          /\ server' = [s \in Servers |->
                 IF session[s] = c /\ server[s] = "blocked" THEN "writing" ELSE server[s]]
    /\ UNCHANGED << path, starts, outcome, linkVars, requests, reset >>

\* Fault: a receive that gives up before the session is over.
ReceiveFails_TimesOut(c) ==
    /\ client[c] = "waiting"
    /\ unread[c] = "nothing"
    /\ client' = [client EXCEPT ![c] = "idle"]
    /\ UNCHANGED << path, serverVars, linkVars, requests, unread, astray, reset >>

\* End of file or ECONNRESET, behind all that was sent.
ReceiveFails(c) ==
    /\ client[c] = "waiting"
    /\ unread[c] = "nothing"
    /\ ~Connected(c)
    /\ client' = [client EXCEPT ![c] = "idle"]
    /\ requests' = [requests EXCEPT ![c] = 0]
    /\ UNCHANGED << path, serverVars, linkVars, unread, astray, reset >>

\* ~SyncClient, or its process ends, between two calls ...
Leave(c) ==
    /\ client[c] = "idle"
    /\ Free(c)
    /\ Close(c, "left")
    /\ UNCHANGED << path, serverVars, linkVars, requests, unread, astray >>

\* ... or inside one.
Abandon(c) ==
    /\ Calling(c)
    /\ Free(c)
    /\ Close(c, "abandoned")
    /\ UNCHANGED << path, serverVars, linkVars, requests, unread, astray >>

-----------------------------------------------------------------------------
\* What run does without its application; AcceptFails is no step to wait for.
ServerStep(s) ==
    \/ Accept(s)
    \/ HandleRequest(s)
    \/ HandlerThrows(s)
    \/ WriteResponse(s)
    \/ WritePart(s)
    \/ WriteFails(s)
    \/ SessionEnds(s)

\* What a call does once it has begun.
ClientStep(c) ==
    \/ RequestRest(c)
    \/ RequestFails(c)
    \/ ReceiveReply(c)
    \/ ReceivePart(c)
    \/ ReceiveFails(c)

Next ==
    \/ \E s \in Servers :
          \/ Construct(s)
          \/ Start(s)
          \/ ServerStep(s)
          \/ \E c \in Clients : HandlerCalls(s, c)
          \/ AcceptFails(s)
          \/ Destroy(s)
          \/ Crash(s)
    \/ \E c \in Clients :
          \/ Connect(c)
          \/ Request(c)
          \/ RequestBlocks(c)
          \/ ClientStep(c)
          \/ Leave(c)
          \/ Abandon(c)

\* A thread that can run does, and a handler that waits for nothing ends.
Fairness ==
    /\ \A s \in Servers : WF_vars(ServerStep(s))
    /\ \A c \in Clients : WF_vars(ClientStep(c))

Spec == Init /\ [][Next]_vars /\ Fairness

(***************************************************************************)
(* What applications must add, for the library has no timeouts: a client   *)
(* does not stay connected for ever, and a server object whose start is    *)
(* over does not outlive it for ever.                                      *)
(***************************************************************************)
Cooperation ==
    /\ \A c \in Clients : SF_vars(Leave(c))
    /\ \A s \in Servers : WF_vars(Destroy(s))

-----------------------------------------------------------------------------
(* Safety.                                                                  *)

(***************************************************************************)
(* While start is running, a client that opens the path reaches this       *)
(* server: no other server has taken the path or removed the file.         *)
(***************************************************************************)
RunningServerIsReachable == \A s \in Servers : Running(s) => path = s

(***************************************************************************)
(* The same of a server that was started once, whatever the others do:     *)
(* start binds to the socket address and listens for incoming connections. *)
(***************************************************************************)
FirstStartIsReachable == \A s \in Servers : Running(s) /\ starts[s] = 1 => path = s

(***************************************************************************)
(* The path of a server whose start returned an error is free, or taken by *)
(* a newer one: whoever restarts a failed daemon can bind again.           *)
(***************************************************************************)
FailureFreesPath ==
    \A s \in Servers : outcome[s] \in {"serverError", "sessionError"} => path # s

(***************************************************************************)
(* A client that leaves between two calls, having read every reply whole,  *)
(* never makes a session fail: if one failed, some client went away inside *)
(* a call, or after it had read a reply in part.                           *)
(***************************************************************************)
PoliteClientsKeepServerUp ==
    (\E s \in Servers : outcome[s] = "sessionError")
        => \E c \in Clients : client[c] = "abandoned" \/ (client[c] = "left" /\ astray[c])

(***************************************************************************)
(* A request is not lost on a connection that lives: a client that waits   *)
(* has a request unread, or being answered, or something to read, or the   *)
(* connection is gone and the client will be told.                         *)
(***************************************************************************)
NoLostRequest ==
    \A c \in Clients : client[c] = "waiting" =>
        \/ requests[c] > 0
        \/ unread[c] # "nothing"
        \/ \E s \in Servers : session[s] = c /\ Answering(s)
        \/ ~Connected(c)

\* A server and its client are both blocked in a write to the other.
Deadlocked(s) == server[s] = "blocked" /\ client[session[s]] = "blocked"

(***************************************************************************)
(* A client and its server block each other only if the client goes on     *)
(* calling after it has read a reply in part: one that keeps its place     *)
(* never writes while the server has something to write to it.             *)
(***************************************************************************)
WritesBlockAfterPartialRead ==
    \A s \in Servers : Deadlocked(s) => astray[session[s]]

(***************************************************************************)
(* A handler that calls the path waits for ever: the server behind it is   *)
(* its own, whose one thread it holds, so that no reply and no error ever  *)
(* comes while the server lives.                                           *)
(***************************************************************************)
InnerCallNeverSettles ==
    \A s \in Servers : inner[s] # NoOne => Calling(inner[s])

(***************************************************************************)
(* start ends by returning, never by an exception.                         *)
(***************************************************************************)
FailureIsReturned == \A s \in Servers : outcome[s] # "exception"

-----------------------------------------------------------------------------
(* Liveness.                                                                *)

\* Server s can do nothing for any client: its handler waits on the path, or
\* it and the client it serves block each other.
Stuck(s) == inner[s] # NoOne \/ Deadlocked(s)

(***************************************************************************)
(* A client whose connection was accepted gets its reply or an error,      *)
(* whatever the other clients do, unless its own server's handler is       *)
(* waiting on the path or the two block each other.                        *)
(***************************************************************************)
AcceptedClientSettles ==
    \A c \in Clients :
        (Calling(c) /\ \E s \in Servers : session[s] = c)
            ~> (~Calling(c) \/ \E s \in Servers : session[s] = c /\ Stuck(s))

(***************************************************************************)
(* Every call settles, in the backlog too, if the applications cooperate   *)
(* and no server gets stuck.                                               *)
(***************************************************************************)
EveryCallSettles ==
    Cooperation =>
        \A c \in Clients :
            Calling(c) ~> (~Calling(c) \/ \E s \in Servers : Stuck(s))
=============================================================================
