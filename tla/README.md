# Formal models of InterProcessCourier

InterProcessCourier is a C++ library for request/response messaging between
processes over a Unix domain socket: a daemon has a `SyncServer`, command-line
tools have `SyncClient`s, messages are protobuf. The repository also holds the
library's published documentation, whose pages run scripts of their own. This
directory holds TLA+ models of both, the TLC configurations that check them and
TLAPS proofs about them. Paths
below are relative to the repository; the modules' comments say what each
definition stands for, and `PROJECT.json` has the source lines.

## The system

| Component | State | Operations | Source |
|---|---|---|---|
| Client transport, `SyncUnixDomainClient` | a connected socket | `connect`, `sendMessage`, `receiveMessage` | `src/SyncUnixDomainClient.cpp` |
| Server session, `SyncUnixDomainSession` | the accepted socket, the request handler | `start` = loop of `readHeader`, `readBody` (which calls the handler), `writeResponse` | `src/SyncUnixDomainServer.cpp:26-104` |
| Accept loop, `SyncUnixDomainServer` | the listening socket, its path | constructor (binds), `run` (`listen`, `accept`, session, `unlink` on error) | `src/SyncUnixDomainServer.cpp:106-134` |
| Typed server, `SyncServer` | `m_handlers`, `m_request_response_pairs`, options | `registerHandler`, `start`, `acceptMessage`, the built-in reflection handler | `src/SyncServer.cpp`, `include/.../SyncServer.hpp` |
| Typed client, `SyncClient` | `m_request_response_pairs`, options | `registerRequestResponsePair`, `connect` (with reflection), `sendRequest` | `src/SyncClient.cpp`, `include/.../SyncClient.hpp` |
| Duplicate registration | none | `registerDuplicateRequestResponsePair` | `src/DuplicateRegistrationHandler.cpp` |
| Payload codec | none | `createProtoPayload`, `makeProtoFromPayload`, `makeBaseProtoFromPayload` | `src/ProtobufTools.cpp`, `include/.../detail/ProtobufTools.hpp` |
| Search panel of the documentation | the field, its timer, the scripts under way, the rows, the focus | key, pointer and focus handlers, the timer, script `onload` | `docs/html/search/search.js`, `menu.js`, `cookie.js` |
| Navigation tree of the documentation | the tree made so far, the breadcrumbs, the selection, a cookie | `gotoNode`, `showNode`, `expandNode`, clicks, `hashchange` | `docs/html/navtree.js`, `cookie.js` |
| Errors, metadata | none | formatting, constants | `Error.hpp`, `Metadata.cpp` |

How they interact. `sendRequest` checks the pair of types, puts the type's name and
the serialized message into a payload and the payload behind a 4-byte length, writes
this frame and waits for a frame back. The server has *one* thread: `run` accepts a
connection, serves it until the client leaves, and only then accepts the next one;
the others sit in the kernel's backlog, where they can already connect and send. The
session's handler is `acceptMessage`, which looks the type up and calls the
application. A client whose strategy is `ServerReflection` makes one request of its
own in `connect`, for the server's map of request to response types.

The library has no timeouts, retries, locks or callbacks across threads. Nothing
is persistent but the socket file.

The documentation's scripts are separate from the library. Both have one thread, the
browser's, and interleave all the same: the search panel's handlers, its timer and
the scripts that it loads share global variables, and so do the navigations, clicks
and scripts of the tree.

What is hard about it:

* *Reads and writes of a stream are not messages.* The server uses
  `boost::asio::read` and `write`, which repeat until everything is done. The client
  takes the reply with two calls of `read_some`, which return what is there.
* *Either side can go away between any two system calls*, and what the other one
  sees (`eof`, `ECONNRESET`, `EPIPE`) depends on what was unread. `eof` ends a
  session; anything else ends the server.
* *Three ways out of `start`.* A system error returns an `Error` and unlinks the
  path; a failed write in a session does so too; a handler's exception, or a request
  without a handler, leaves `start` as an exception and unlinks nothing.
* *The path belongs to a name, not to a server.* The constructor binds it, `run`
  unlinks it by name, the destructor leaves it alone.
* *Copies of the pairs.* The server keeps two maps that must agree; each reflecting
  client has a copy from the time it connected, on top of its own registrations.
* *One thread that waits for itself.* A handler may use a `SyncClient` of the path its
  own server has.
* *Bytes that look like structure.* A payload is split at its first `:`, with
  arbitrary bytes behind it; lengths are cut to 32 bits; a message that is too large
  to serialize is sent as an empty one.
* *Scripts that overtake each other* in the documentation's panels, whose handlers go
  on with what the variables say then, not with what they said at the request.

What each component has to get right, with the property that says so:

* transport and session: each request handled once and in order (`HandledInOrder`),
  a reply goes to its own call (`ReplyMatches`), a failed write or read means that the
  server is gone (`FailureMeansServerGone`), nothing that was sent in full is dropped by an
  orderly end (`CleanEndLosesNothing`), an orderly client does no harm
  (`PoliteDepartureIsClean`), calls return (`CallReturns`), the server becomes free
  (`DepartureEndsSession`);
* accept loop: the running server is the one clients reach
  (`RunningServerIsReachable`; `FirstStartIsReachable` where others are started again),
  an error leaves the path free (`FailureFreesPath`), a client that leaves between two
  calls, with its replies read whole, does not stop the server
  (`PoliteClientsKeepServerUp`), requests are not lost on a live connection
  (`NoLostRequest`), a client that keeps its place and its server never block each other
  (`WritesBlockAfterPartialRead`), callers are answered (`AcceptedClientSettles`,
  `EveryCallSettles`);
* a handler that is a client: `InnerCallNeverSettles`;
* registration: `MapsAgree`, `FirstOrLastInForce`, `AnswerTellsTruth`, and for
  reflection `ReflectionSound`, `ReflectionComplete`, `ReflectedCallsAreTyped`,
  `ReflectedCallsAreHandled`;
* codec: `RequestArrivesIntact`, `HeaderHoldsLength`;
* search panel: the panel at rest shows what its field asks for
  (`QuietBoxShowsField`), each text is searched for (`TypedTextIsSearched`), an
  inactive panel is empty (`InactiveBoxIsEmpty`), the arrow keys follow the list that
  is displayed (`ArrowsFollowTheList`);
* navigation tree: no node is made twice (`NodesMadeOnce`), the tree ends at the node
  of its link (`QuietTreeFollows`), no script is requested over and over (`LoadsEnd`).

`PROJECT.json` lists the hazards one by one, with the line where each bites.

## Modules

| Module | What it is |
|---|---|
| `FrameStream` | one direction of a socket with frames on it, as operators |
| `SyncConnection` | a client and the session that serves it, system call by system call |
| `SyncCall` | abstract: what `sendRequest` promises |
| `SyncConnectionInvariants` | the inductive invariants of `SyncConnection` |
| `SyncConnectionProofs` | theorems about where both ends stand in their streams, and that a connection implements `SyncCall` |
| `SyncConnectionEndProofs` | theorems about how a session ends |
| `SyncServerLifecycle` | the servers on one path and their clients, message by message, with messages that are written or read in part |
| `SyncServerLifecycleProofs` | theorems about it, with their inductive invariant |
| `PayloadCodec` | type name, colon and bytes: what each end makes of a payload |
| `PayloadCodecProofs` | theorems about the round trip, for all bytes |
| `SyncRegistration` | handlers, pairs, reflection, dispatch, the check of types; calls are payloads of `PayloadCodec` |
| `SyncRegistrationProofs` | theorems about it, with their inductive invariant |
| `SearchPanel` | the documentation's search |
| `SearchPanelProofs` | theorems about it, with their inductive invariants |
| `NavTree` | the documentation's navigation tree |
| `NavTreeProofs` | theorems about it, with their inductive invariant |
| `DataLemmas` | induction on the naturals, recursive functions, sequences and prefixes, for the last two |
| `MCSyncConnection`, `MCSyncServerLifecycle`, `MCSyncRegistration`, `MCSearchPanel`, `MCNavTree` | instances for TLC |

`SyncConnection` composes two `FrameStream`s with the two threads at their ends, and
`SyncRegistration` composes `PayloadCodec` with the server's and the clients' maps.

Definitions named `Action_Something` are faults: how a plausible bug in that
action would read. No specification uses them. Each property of a run has one that
breaks it (`mutants` in `PROJECT.json`), so that a property says something about
the code.

### FrameStream and SyncConnection

A stream is a list of frames with the offset each starts at, and two offsets:
`written` and `read`. The bytes are not there, but where a reader stands is: bytes
are a header only if a frame starts where they do (`DecodedLengths`), and a payload
only if a frame with that length ends where they do (`PayloadReadBy`). A reader that
lost its place is therefore a state of the model, and what it decodes is any of
`GarbageLengths`. Four constants describe the kernel and the format: `HeaderSize`;
`Chunk`, how much of a write becomes readable at once (`Chunk >= HeaderSize`: Linux
and macOS never split the first 4 bytes of a write to a socket with room);
`Capacity`, from which on a writer blocks; and `GarbageLengths`.

Each system call is an action. In the client: `Send` (`sendRequest` up to the first
write), `ClientWrite`/`ClientWriteFails` (`boost::asio::write`), `ClientReadHeader`
and `ClientReadBody` (the two `read_some`, with the early return on fewer bytes
than asked for and, for the second, the parsing), `ClientReceiveFails`, `Close`.
In the server: `SessionRead` (one step of `boost::asio::read`), `DecodeHeader`,
`Dispatch`/`DispatchThrows` (the handler), `SessionWrite`/`SessionWriteFails`,
`SessionReadFails` (the `catch` in `start`), `SessionKilled`. The sleeps of 100 ms
are covered by interleaving.

`results[i]` is what call `i` returned: `Failed` for the error of a write or a read,
`Unparsed` for that of the parser, `k` for the reply to request `k`. A whole reply may be
`Unparsed` too, on a session that goes on: it may be of another type than the caller
asked for, or no message of that type (`makeProtoFromPayload`), which here is any
reply's choice. `handled` is the sequence of requests that the handler was called with.

Two things are settled by argument. Payload bytes that are not one whole payload are
rejected by the parser, since they do not begin with the name of the expected type:
a reader that is out of place gets `Unparsed` (or, when a whole old reply happens to
be next, that reply, if it is of the expected type). And a garbage length may be more than `resize` can allocate;
`bad_alloc` is a `std::exception`, so the call returns an error with the header
gone: the third disjunct of `ClientReadHeader`.

### SyncCall

Issue, handle, succeed, reject or fail: calls one at a time, a request handled at most
once and in order, and a reply, parsed or rejected, only for a call whose request was
handled. A failed call may have been handled, or be handled later. `SyncConnection` implements it with
`issued <- Len(request.frames)`, `handled <- Len(handled)`, `results <- results`.

### SyncServerLifecycle

Here a message is whole or in part, without its bytes, and there are many servers and
clients. A write ends at once or blocks, which is what `boost::asio::write` does when the
socket is full: `Request`, or `RequestBlocks` and then `RequestRest` or `RequestFails`;
`WriteResponse`, or `WritePart`, which may be repeated and leaves the server `writing` or
`blocked`. A blocked client goes on when the server reads its request, a blocked server
when its client reads, and both are woken when the other end closes. `unread` is what
lies in the socket for a client: nothing, a whole reply, or a part. `ReceivePart` is the
early return on a short `read_some`, on a connection that lives: the call is over, the
client is `idle`, something may stay unread, and it has lost its place for good
(`astray`): from then on whatever it is sent counts as a part, and its departure may
reach the server as `ECONNRESET`. `MaxAhead` bounds the requests that a client whose
calls failed so can pile up.

`path` is the
server that the socket file names, `backlog` and `session` who waits and who is
served, `outcome` how `start` ended. The file may outlive its server: then `path`
names a server that is gone, and both `Construct` (bind fails) and `Connect`
(connection refused) are disabled. `ReturnError` is the shared way out of `run`:
unlink, close the session, return. `HandlerThrows` is the other: no unlink.
`Listening` is true from construction on, because asio's acceptor listens in its
constructor; so clients can connect before `start` and after it failed.

`Leave` is a client that goes away between two calls, `Abandon` one that does inside a
call; `reset` tells whether the close reaches the server as `ECONNRESET`, which needs
something unread.

`HandlerCalls` is a handler that makes a `SyncClient` of the path, connects and sends:
the kernel completes both without the server's thread, and then the thread waits in
`receiveMessage` (`inner` is the client it waits with), or in the write. The handler can
go on when that client has its reply or an error (`HandlerDone`); when the handler's frame
goes, so does the client (`Dismiss`).

### PayloadCodec

A payload is a sequence of symbols, in which a type's name is one symbol and a colon can
also be among the bytes. The operators follow the code: where it splits, and in which
order it finds which error. Two limits are constants: `MaxSerialized`, above which
`SerializeToString` fails and leaves its output empty, and `LengthModulus`, modulo which
the header holds a length (`CodecAssumption`: the first, plus a name and a colon, is less
than the second; `INT_MAX` and 2^32 in the code). That bytes which hold a type's name do
not parse is an idealization: protobuf may take them for some message, and no property
depends on it.

### SyncRegistration

One server and its clients; a request is a payload of `PayloadCodec`, with a body from
a small set `Bodies`, and a reply is its type and, for reflection, the pairs.
`Dispatch` parses the payload and calls the handler of the type that it finds, and
`argument` is the message that the handler was called with. `registered` is the history of
`registerHandler` calls with what each returned, `handlers` which of them is in
force per type (the code has the function object there), `pairs` and `clientPairs`
the two maps. `own` remembers which of a client's pairs came from its application.
The strategies of server and clients are chosen in `Init`. Handlers may register
others while they run, on the server's thread (`LateRegistration`); registering from
another thread while the server runs would be a data race, which the documentation
rules out (`SyncServer.hpp:119`), and is not modelled. A client whose call failed, or
whose reflection failed inside `connect`, is `failed`. It is still connected and its
`sendRequest` still sends (`persisting`), which may end the server like any request;
the reply it then gets is not followed, since it may be out of place in its stream, as
`SyncConnection` shows.

### SearchPanel

The fields of the panel are one record, `box`: handlers call one another, and the record
is passed through the calls (`Activate`, `Hide`, `Forget`, `CloseResultsWindow`). Every
key, click and focus change is an action, and so is the timer and the end of each script
under way. `keyTimer` is the timer that `keyTimeout` holds; `Search` forgets it without
stopping it, so `stray` counts those that run on. `typed` is a text that no key release
has compared yet. `ScriptLoads` builds the rows from the script that has just run, in any
order of those requested, because the code has one global `searchData`. `Matches`
compares what `convertToId` makes of both names; `Found` tabulates it. Rows and children are numbered from 1;
`searchIndex` keeps the code's 0, and may go one past the last section, where `Search`
throws half-way.

A script may also fail (`ScriptFails`): `loadJS` sets `onload` and no error handler, so
nothing happens then, the rows of an older search stay if there are any, and the text is
not searched for again. This is the normal case on the published pages: of the sixty
scripts that `searchdata.js` leads to, nine are in the repository (`all_0` to `all_3`,
`files_0` to `files_2`, `functions_0`, `namespaces_0`), so that most texts find nothing
and say nothing.

`answer` remembers what can be expected of the last search: it is `overtaken` if it was
begun while an older one was loading, or the section changed over a blank text, and
`missed` if its own script failed. In both cases the panel may show another search's rows,
and `QuietBoxShowsField` claims nothing. It claims nothing either of a text with blanks
inside, which the code compares in two different forms.

`Displayed` is what the reader sees of the rows, and `Adjacent` two entries of it with
none between them. Two assumptions are about the generated data and the table of codes.
`SearchAssumption`: no character's code begins another's, the files of a section have
different initials, and the names of a file are in lower case and begin with its initial.
`OrderAssumption`: what a search finds in a file stands together. Both hold of the files
in `docs/html/search`, whose rows are sorted. The second is needed: `Nav` looks for the
last child of the row above the focus by that row's name, and if hidden rows stood between
two that show, Up from the lower one would miss the children of the upper one.

### NavTree

A tree with a root that nobody sees. `Kids` of the nodes in `Lazy` are in scripts of
their own, and `Index` leads from a link to the breadcrumbs of its node. `Reached` gives the
node before each place of such a path, and `Walk` is one run of `showNode` down it: it ends at a node to select, at a script that is not
there, or off the tree. The script's `onload` goes on from there (`ScriptLoads`), with
the breadcrumbs that are in force *then*. `getNode` makes the children of nodes not
visited yet. `HashChange` and `navTo` decide whether the selection is dropped;
`selectAndHighlight` adds to it. `OpenPage` is a new page, which starts with an empty
tree and with what the cookie keeps. `ScriptFails` drops a request: `getScript` sets no
error handler, so a navigation or click that waits for it never goes on, and only a later
one requests the script again. `disturbed` remembers that navigations overlapped, that a
selection was kept although the cookie leads elsewhere, or that a script some navigation
waited for has failed; `QuietTreeFollows` claims nothing then. The model has one tab: the
cookie is shared by all, and another tab can change it after the icon was set.

`IndexAssumption` is about the generated data: the index leads down the tree, an entry with
a hash leads to a node of that link, and a node's hashed link is in the index, names no
line of a source file and shares its hash with no other page. `NAVTREE` and
`navtreeindex0.js` agree with it as far as they can be compared; some scripts of children
that the data names (`concepts`, `annotated_dup`, `namespaceipcourier`, most headers') are
not in the repository: what they would hold is assumed, and that they are missing is a
case of `ScriptFails`.

## Runs

| Run | Question | Bounds | States |
|---|---|---|---|
| `conn_small` | Does everything hold if responses become readable whole? | 3 calls, requests of 1 and 5 bytes, responses of 1 and 2 | 18,336 |
| `conn_drop` | Does an application that stops at its first failed write or read stay in its place, and do its calls return? | responses of 1 and 5 bytes | 19,642 |
| `conn_reuse` | What is left for an application that does not stop? | responses of 1 and 9 bytes | 50,628 |
| `stale_reply` | fails: `ReplyMatches` | as `conn_drop`, reusing the client | |
| `call_hangs` | fails: `CallReturns` | as `conn_reuse`, 2 calls | |
| `servers` | Do servers on one path respect each other, and are clients answered? | 2 servers, 2 clients, backlog 2, one start each, 2 requests ahead | 124,269 |
| `started_again` | fails: `FirstStartIsReachable` | 2 servers, 2 clients, 2 starts per server | |
| `start_throws` | fails: `FailureIsReturned` | 2 clients, 1 start per server | |
| `reg_options` | Do registration, reflection and the payloads work under every strategy? | 1 client, 2+2 types, 2 registrations by the application, a body that serializes and one too large | 277,728 |
| `oversized` | fails: `NothingIsReplaced` | `SilentOverride`, a reflecting client | |
| `search` | Does the panel come to rest at what the field says? | 2 sections, 3 texts, rows with 0 and 2 children, 2 scripts under way, 1 stray timer | 490,336 |
| `navtree` | Does the tree come to rest at the link's node? | 6 nodes, 2 of them lazy, 2 pages, paths of up to 4, 2 scripts under way | 276,790 |

Why the bounds are enough to be interesting. With a 2-byte header and writes of at
most 4 bytes, a payload of 1 or 2 is written whole, one of 5 takes two writes and
one of 9 three, and a header can be alone in the stream; a capacity of 4 makes a
writer block within a frame. Three calls are what it takes to fail a call, read the
rest of its reply in the second and be out of place in the third. The lengths that
garbage decodes to are 0, one of a real payload, and one beyond everything that will
ever be sent. Two servers are needed to take a path from each other, one crashed and
the other in its way; of two clients, one can be served and one be a handler's own or
wait in the backlog. Two requests ahead are one that the server is answering late and one
that a client out of place sent behind it. A type registered before `start`, and one registered or
overridden later, are two application registrations besides the built-in one. Both
bodies hold the delimiter, and one is longer than what `MaxSerialized` allows. Types are
interchangeable in `SyncRegistration`, and its runs have safety properties only, so
their symmetry is used. Of the panel's texts one is empty, one has a file in the first
section and none in the second, and one begins with a blank and has a capital and a
character that `convertToId` changes; two scripts under way can come in the wrong order.
In the tree `MaxPath` is more than the
longest path of its index, and bounds the table of walks only; one lazy node is below the other, an anchor has two nodes, one of them
reachable without a script, and one hash names a line of a source file.

Deadlock is checked for `search` and `navtree`. It is not checked for the library: its
systems may stop, since applications may stop calling and leave, and the bounds on
calls, starts and registrations end every behaviour. That the library does not get
stuck in the middle is what the liveness properties are for.

### Fairness

`SyncConnection`: weak fairness of each thread's steps, that is, a thread whose
system call can complete will run, and a handler returns or throws. Nothing is
assumed of `Send`, `Close` and `SessionKilled`. `SyncServerLifecycle`: the same for
each server and for a client inside a call, and a handler that waits for
nothing ends; nothing obliges `accept` to fail (`AcceptFails` is in no fairness
condition) or a handler to call. This is what the operating system's scheduler gives to
threads that run straight-line blocking code. `AcceptedClientSettles` needs no more.
`EveryCallSettles` is an implication, from `Cooperation`: what applications must do,
since the library has no timeouts. A client does not stay for ever (strong fairness of
`Leave`, since a client in a loop of calls is idle only in between), and a server object
whose `start` is over is destroyed some time. Both leave out what is behind a server that
is stuck (`Stuck`): its handler waits on the path, which `InnerCallNeverSettles` says is
for ever, or it and its client block each other in their writes, as `call_hangs` shows,
which `WritesBlockAfterPartialRead` says needs a client that calls on after a short read.

`SearchPanel` and `NavTree`: a requested script arrives or fails; nothing says that it
arrives, and the code has no part in it. This is said of the script requested first, and
so holds of each in its turn. `TypedTextIsSearched` accordingly ends with the rows of the
text, or with the text as the last one asked for and its script missed; `LoadsEnd` says
that waits end, not that they end well. The search timer that is held
runs out; each key release starts it anew, so this assumes a reader who pauses. Nothing is
assumed of the timers that are no longer held.

### Where code and documentation disagree

Five runs are expected to find a violation; `PROJECT.json` quotes the lines.

* `stale_reply`: after a short read a later call can return an earlier call's reply.
* `call_hangs`: after short reads both sides can block in a write, for ever.
* `started_again`: `start` does not bind, so starting again after an error runs a
  server that nobody can reach, and when it fails again it unlinks the path by name,
  whosever file is there by then: a server that runs on its first start is unreachable.
* `start_throws`: errors inside a handler leave `start` as exceptions.
* `oversized`: a message too large to serialize is not reported; its handler runs with
  an empty message of the same type.

One more, without a run: `Metadata.hpp:44` says of an unknown protocol that protobuf
"will be used by default", and `Metadata.cpp:27` throws an enumerator.

## Proofs

Every theorem holds for all values of the constants, under the named assumptions of the
modules (`FrameAssumption`, `ConnectionAssumption`, `LifecycleAssumption`,
`CodecAssumption`, `RegistrationAssumption`, `SearchAssumption`, `OrderAssumption`,
`NavTreeAssumption`, `IndexAssumption`), which TLC evaluates in the runs, and the
hypotheses given here.

| Theorem | Statement |
|---|---|
| **`SyncConnectionProofs`** | |
| `TypeCorrect` | `Spec => []TypeOK` |
| `ServerPlaceCorrect` | `Spec => []ServerPlace` |
| `HandledInOrderCorrect` | `Spec => []HandledInOrder` |
| `ReplyPlaceCorrect` | `Spec => []ReplyPlace` |
| `ReplyMatchesCorrect` | `Careful => (Spec => []ReplyMatches)` |
| `FailureMeansServerGoneCorrect` | `ResponsesFit => (Spec => []FailureMeansServerGone)` |
| `ImplementsSyncCallCorrect` | `Careful => (Spec => ImplementsSyncCall)` |
| **`SyncConnectionEndProofs`** | |
| `CleanEndLosesNothingCorrect` | `Spec => []CleanEndLosesNothing` |
| `PoliteDepartureIsCleanCorrect` | `Spec => []PoliteDepartureIsClean` |
| **`SyncServerLifecycleProofs`** | |
| `TypeCorrect` | `Spec => []TypeOK` |
| `FailureFreesPathCorrect` | `Spec => []FailureFreesPath` |
| `PoliteClientsKeepServerUpCorrect` | `Spec => []PoliteClientsKeepServerUp` |
| `NoLostRequestCorrect` | `Spec => []NoLostRequest` |
| `WritesBlockAfterPartialReadCorrect` | `Spec => []WritesBlockAfterPartialRead` |
| `RunningServerIsReachableCorrect` | if `MaxStarts <= 1`: `Spec => []RunningServerIsReachable` |
| `InnerCallNeverSettlesCorrect` | if `MaxStarts <= 1`: `Spec => []InnerCallNeverSettles` |
| **`PayloadCodecProofs`** | |
| `RequestRoundTrip` | the server makes of a request's payload what was serialized |
| `ReplyRoundTrip` | so does the client of a reply's payload, or it says `TypeMismatch` |
| `HeaderIsExact` | the header's length is the payload's |
| **`SyncRegistrationProofs`** | |
| `TypeCorrect` | `Spec => []TypeOK` |
| `MapsAgreeCorrect` | `Spec => []MapsAgree` |
| `FirstOrLastInForceCorrect` | `Spec => []FirstOrLastInForce` |
| `AnswerTellsTruthCorrect` | `Spec => []AnswerTellsTruth` |
| `ReflectionSoundCorrect` | `Spec => []ReflectionSound` |
| `ReflectionCompleteCorrect` | `Spec => []ReflectionComplete` |
| `ReflectedCallsAreTypedCorrect` | `Spec => []ReflectedCallsAreTyped` |
| `ReflectedCallsAreHandledCorrect` | `Spec => []ReflectedCallsAreHandled` |
| `RequestArrivesIntactCorrect` | `Spec => []RequestArrivesIntact` |
| `HeaderHoldsLengthCorrect` | `Spec => []HeaderHoldsLength` |
| **`SearchPanelProofs`** | |
| `InactiveBoxIsEmptyCorrect` | `Spec => []InactiveBoxIsEmpty` |
| `TypeOKCorrect` | `Spec => []TypeOK` |
| `ArrowsFollowTheListCorrect` | `Spec => ArrowsFollowTheList` |
| `QuietBoxShowsFieldCorrect` | `Spec => []QuietBoxShowsField` |
| **`NavTreeProofs`** | |
| `TypeOKCorrect` | `Spec => []TypeOK` |
| `NodesMadeOnceCorrect` | `Spec => []NodesMadeOnce` |
| `QuietTreeFollowsCorrect` | `Spec => []QuietTreeFollows` |
| **`DataLemmas`** | |
| `PrimitiveRecursion` | a first value and a step for each number define a function |
| `CodedPrefix` | joined codes begin with each other as the texts do, if no code begins another |

`ResponsesFit` says that each response becomes readable as a whole, and `Careful`
that they do or that the application does not call again after a failed write or read. The run
`stale_reply` has neither, and shows that `ReplyMatches` then fails. `MaxStarts <= 1`
says that no server object is started twice; `started_again` shows that without it
even a server that was started once is not safe from the others.

### A connection

*The server* (`ServerInv`). `HandledInOrder` alone is not inductive: what the handler
is called with depends on where the server's reads end. So the invariant places the
frames on the stream of requests (`RequestPlace`: one behind the other, without gap,
all written but the one being sent) and the server among them (`ServerPlace`: what it
has read, plus what it still waits for, is the end of the header or payload of the
next request). `RequestPlace` holds only while the session is open: later, a write
that fails leaves half a frame, and nobody reads it. `TypeOK` needs `Bounded`: no
offset difference may go below zero.

*The client* (`ReplyInv`). `ResponsePlace` does the same for the responses and
relates their number to that of the handled requests; `OneCall` relates calls and
results. `ReplyPlace` has the case distinction that the argument turns on: either all
calls were answered so far, and the client stands at the end of a header or payload
of its own reply (`ClientPlace`), whether or not it could parse the earlier ones, or a
call has failed to write or read and then a careful client takes nothing more from the
stream (`GivenUp`), because its application stops or because the session is over and a
write to it fails. The refinement then needs one step per
action: `PromiseStep`.

*The end* (`EndInv`, on top of `ReplyInv`). End of file is acted on when all was read
and a read still waits, so by `ServerPlace` the next request is not there in full
(`ReadToTheEnd`). A client may be polite without being careful, so its place is needed
once more, now for as long as no call failed (`InPlace`). When it leaves between two
calls, what it has read ends with the last response, so nothing is unread and nothing
left to write (`NothingLeft`, with `WritePending`), and nothing it wrote is unhandled:
the session can only see an end of file.

`SyncConnectionInvariants` is separate from the proofs so that TLC can check the
invariants: `conn_reuse` checks `ServerPlace`, `conn_drop` checks `ReplyPlace`.

### The servers

`Inv` says of each connection that it has one place, in one backlog or one session
(`Places`), that a handler's client is its own (`InnerOwned`), and of a client that never
read a reply in part that its call is in one stage (`InPlace`, for one that is not
`astray`): blocked or sent, being answered, answered. So nothing is unread between its
calls and its departure is an end of file (`ResetInv`): that gives
`PoliteClientsKeepServerUp`. In place, a server has something to write only to a client
that waits, which gives `WritesBlockAfterPartialRead`; and a client out of place that
waits has a request unread, in work or something to read (`RequestsInv`), which gives
`NoLostRequest`. With at most one start (`InvOnce`), a server that was not started yet
still owns the path, and one whose `start` is over will not run again; so a running
server owns the path (`ReachInv`), a handler that connects to the path reaches its own
server, and its client stands in that server's backlog, from which nobody takes it while
the handler runs (`InnerInv`).

### Registration and payloads

`DelimiterFacts` is the heart of the codec: the first colon of a payload is the one
behind the name, since no type's name is a byte. `SyncRegistrationProofs` uses the codec
through its theorems only. Its `Inv` says of the server that the handler in force has
the type and the rank its strategy gives it (`HandlersInv`), of what a running handler
was called with (`Handling`), of each reply to a reflection that it is true of the
registrations and complete for the early ones (`Replies`), and of each reflecting
client's map that its pairs stay so while it may use them, late registrations
included (`Reflection`). `ReflectedCallsAreTyped` then follows from the pairs at the time
of the call, and `ReflectedCallsAreHandled` since no handler is ever removed
(`Culprit`).

### The search panel

`Inv` is for `InactiveBoxIsEmpty`. It adds that the field has the keyboard only while the
box is active (`FieldIsActive`), so that nobody types into an inactive one.

`TypeInv` is for the types and the arrow keys. That the keyboard is in a displayed entry
or outside the list (`Placed`) depends on every handler that hides, rebuilds or closes
something; it needs that an open row has children, since Down from an open row goes to its
first child, and that the rows that show stand together, for Up. `ArrowsFollowTheList` is
then one lemma per key, about the entries between the old focus and the new one.

`QuietInv` adds two facts that the handlers hand on to each other. `Compared`: if no text
waits for a key release or the timer, the last search is the field's text, with blanks
left out in one of the two ways the code has. It is what fails if a stopped timer is not
started again. `ShowsSearch`: a search that was not overtaken, in the section that is
selected, and whose script did not fail, has its script under way alone, or the rows that show are its rows. Alone is
needed because the rows come from the script that runs last, whichever search asked for
it. From there it is data: `Matches` compares codes of stripped texts, and `CodedPrefix`
with `MatchesIs` turns that into a comparison of the texts; rows that match are in the
file that was loaded because names begin with their file's initial (`PrefixInitial`).

### The navigation tree

`TreeInv` strengthens `QuietTreeFollows` in four ways. `RequestsOK`: a request to go on
from a node names a node and a place that there are. `IndexFirst`: while the index is not
there nothing is made and nothing else is requested, so that no click can come before it.
`NodesMadeOnce`: when a walk ends, its last node's parent was visited, so the node is there
to be selected; it is kept because each walk makes the children of the nodes it visits for
the first time, and no node is the child of two. `NavigationOK`: a navigation
that nothing disturbed is over and shows its goal, or has exactly one request under way
that is not a click's, and this one stands on the way from the root to the goal
(`UnderWay`). So clicks may expand nodes and load the same scripts meanwhile, and the
navigation still goes on at its own node. The other lemmas are about the way: `Reached` is
a recursive function, whose equations come from `PrimitiveRecursion`, and `Walk` stops at
the first of its nodes without data or at the end of the path, which exists by
`LeastNumber`.

### Lemmas about data

The provers have no induction rule for formulas, since the library's takes an operator.
`DataLemmas` states induction for sets instead (`SetInduction`, from the well-founded
relation on the naturals), and each use names the set of the numbers that satisfy the
claim. From it come the least and the greatest number of a set, functions defined by
recursion, and what `FlattenSeq`, `Reverse` and `IsPrefix` do.

### Only model-checked

Liveness, which is out of the prover's reach: `CallReturns`, `DepartureEndsSession`,
`AcceptedClientSettles`, `EveryCallSettles`, `TypedTextIsSearched`, `LoadsEnd`. Every
invariant and every action property of a run that passes is proved.

## Not modelled

*The library.* How protobuf serializes; the wording of errors, the formatters, the
metadata, build and packaging, tests and examples; `disconnect` and
`sendAndReceiveMessage` of `SyncUnixDomainClient`, which have no caller; the checks for
too few bytes behind `boost::asio::read`, which throws instead; signals and `EINTR`,
which asio handles; registration from a second thread while the server runs. A second
`connect` on a `SyncClient` that is connected fails with `EISCONN` and changes nothing.

*The documentation.* Of the search: positions on the page, the server-side search box,
the repetition of held keys, surrogate pairs. Of the tree: the widths of the panels, the
outline of the page (`initPageToc`), glowing and the course of scrolling, and indexes
of more than one script. Neither the folding of single elements (`dynsections.js`),
`clipboard.js`, the theme switch and the minified jQuery, whose steps do not outlast an
event, nor the generated data.

## What could be added

A refinement that shows `SyncConnection` to implement the sessions of
`SyncServerLifecycle`: both have the same events of a call, but the abstract one is
coarser about which bytes stay unread after a short read. `SyncClient` from `connect` to the last
call on one object, with retries of `connect`. Handlers that are clients of servers on
*other* paths.
