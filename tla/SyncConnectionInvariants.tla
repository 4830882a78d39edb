---------------------- MODULE SyncConnectionInvariants ----------------------
(***************************************************************************)
(* What is true of a connection in every state, in the form that a step    *)
(* preserves it: how far each stream was written and read, and where each  *)
(* reader stands among the frames.  The properties of SyncConnection       *)
(* follow; SyncConnectionProofs has the argument.                          *)
(***************************************************************************)
EXTENDS SyncConnection

\* The offset at which the first k frames end.
Boundary(s, k) == IF k = 0 THEN 0 ELSE FrameEnd(s.frames[k])

\* The frames follow each other without gap or overlap.
Contiguous(s) ==
    /\ \A k \in DOMAIN s.frames : s.frames[k].start = Boundary(s, k - 1)
    /\ \A j, k \in DOMAIN s.frames :
           j < k => FrameEnd(s.frames[j]) <= s.frames[k].start

(***************************************************************************)
(* Nobody reads what was not written or writes beyond its frame, and there *)
(* is no response without a handled request: what keeps the offsets in Nat *)
(* and the handler's log defined where it is used.                         *)
(***************************************************************************)
Bounded ==
    /\ request.read <= request.written
    /\ response.read <= response.written
    /\ clientState = "sending" =>
           Len(request.frames) > 0 /\ Unwritten(request) >= 0
    /\ sessionState = "writeResponse" =>
           Len(response.frames) > 0 /\ Unwritten(response) >= 0
    /\ Len(response.frames) <= Len(handled)

(***************************************************************************)
(* While the session lives, the requests lie on their stream one behind    *)
(* the other, and all are written in full unless one is being sent.        *)
(***************************************************************************)
RequestPlace ==
    SessionOpen =>
    /\ Contiguous(request)
    /\ request.written <= Boundary(request, Len(request.frames))
    /\ clientState \notin {"sending", "closed"} =>
           request.written = Boundary(request, Len(request.frames))

(***************************************************************************)
(* While the session lives, each boost::asio::read of the server ends      *)
(* where the header, or the payload, of the next request ends: its exact   *)
(* reads keep its place in the stream whatever the client does.            *)
(***************************************************************************)
ServerPlace ==
    LET n == Len(handled) IN
    /\ sessionState = "readHeader" =>
           /\ need <= HeaderSize
           /\ request.read + need = Boundary(request, n) + HeaderSize
    /\ sessionState = "readBody" =>
           /\ n < Len(request.frames)
           /\ msgLength = request.frames[n + 1].size
           /\ request.read + need = FrameEnd(request.frames[n + 1])
    /\ sessionState = "writeResponse" => request.read = Boundary(request, n)

\* Every response becomes readable as a whole.
ResponsesFit == \A size \in ResponseSizes : HeaderSize + size <= Chunk

\* Where replies are not mixed up: they fit, or nobody calls after a failed write
\* or read.
Careful == ResponsesFit \/ ~ReuseAfterFailure

\* Each call got its own reply, parsed or not.
AllAnswered == \A i \in DOMAIN results : results[i] \in {i, Unparsed}

\* One call at a time is out, and each puts one request on its stream.
OneCall ==
    /\ clientState = "idle" => Len(request.frames) = Len(results)
    /\ clientState \in ClientBusy => Len(request.frames) = Len(results) + 1

(***************************************************************************)
(* The responses, one for each handled request, lie on their stream one    *)
(* behind the other, and all but the last one are written in full; if they *)
(* fit, the last one is written in full or not at all.                     *)
(***************************************************************************)
ResponsePlace ==
    LET n == Len(response.frames) IN
    /\ Contiguous(response)
    /\ \A k \in DOMAIN response.frames : response.frames[k].size \in ResponseSizes
    /\ n > 0 => response.written >= response.frames[n].start
    /\ response.written <= Boundary(response, n)
    /\ sessionState \in {"readHeader", "readBody"} =>
           response.written = Boundary(response, n)
    /\ SessionOpen => n = Len(handled)
    /\ ResponsesFit =>
           \A k \in DOMAIN response.frames :
               \/ response.written <= response.frames[k].start
               \/ response.written >= FrameEnd(response.frames[k])

(***************************************************************************)
(* As long as every call was answered, the client's reads end where the    *)
(* header, or the payload, of the reply to the call that is out ends.      *)
(***************************************************************************)
ClientPlace ==
    LET n == Len(results) IN
    /\ clientState \in {"idle", "sending", "awaitHeader"} =>
           /\ n <= Len(response.frames)
           /\ response.read = Boundary(response, n)
    /\ clientState = "awaitBody" =>
           /\ n < Len(response.frames)
           /\ replyLength = response.frames[n + 1].size
           /\ response.read = response.frames[n + 1].start + HeaderSize
           /\ ResponsesFit => response.written >= FrameEnd(response.frames[n + 1])

(***************************************************************************)
(* After a failed write or read a careful client takes nothing more from   *)
(* the stream: its application stops calling, or the session is over and   *)
(* every call fails.                                                       *)
(***************************************************************************)
GivenUp ==
    \/ /\ ~ResponsesFit /\ ~ReuseAfterFailure
       /\ clientState \in {"idle", "closed"}
    \/ ~SessionOpen /\ clientState \in {"idle", "sending", "closed"}

(***************************************************************************)
(* For a careful client, then: every call so far took its own reply off    *)
(* the stream, even if it could not parse it, and the client is in its     *)
(* place; or a write or a read failed, it has given up, and the replies it *)
(* has are its own.                                                        *)
(***************************************************************************)
ReplyPlace ==
    Careful =>
        /\ ReplyMatches
        /\ \/ AllAnswered /\ ClientPlace
           \/ ~AllAnswered /\ GivenUp

-----------------------------------------------------------------------------
(* How a session ends.                                                      *)

\* No write or read has failed; a parse error does not count.
NoneFailed == \A i \in DOMAIN results : results[i] # Failed

(***************************************************************************)
(* Whatever the application does after a failed write or read, a client    *)
(* that has had none yet is in its place.                                  *)
(***************************************************************************)
InPlace == NoneFailed => AllAnswered /\ ClientPlace

\* A session that is writing has something left to write.
WritePending == sessionState = "writeResponse" => Unwritten(response) > 0

\* start returns only when the client is gone.
ReturnsWhenLeft ==
    sessionResult \in {"ok", "GeneralServerSessionError", "UnableToSendMessage"}
        => ~ClientOpen /\ ~SessionOpen

(***************************************************************************)
(* A client that left between two calls, with no failed write or read,     *)
(* left nothing to be done and nothing unread behind.                      *)
(***************************************************************************)
NothingLeft ==
    ~ClientOpen /\ Len(results) = Len(request.frames) /\ NoneFailed =>
        /\ ~reset
        /\ Len(handled) = Len(request.frames)
        /\ sessionState # "writeResponse"
=============================================================================
