---------------------- MODULE SyncConnectionEndProofs ----------------------
(***************************************************************************)
(* Theorems about how the session of a SyncConnection ends: what start's   *)
(* result says of the requests that were sent, and of the client that      *)
(* left.                                                                   *)
(***************************************************************************)
EXTENDS SyncConnectionProofs

USE FrameAssumption, ConnectionAssumption

-----------------------------------------------------------------------------
(* The client's place as long as no call failed.                            *)

\* A call that fails, or that failed before, is among the results.
LEMMA NoneFailedBefore ==
    ASSUME TypeOK, NEW r \in Outcome, Return(r)
    PROVE  /\ NoneFailed' => NoneFailed
           /\ NoneFailed' => r # Failed
  <1>1. /\ DOMAIN results' = 1 .. Len(results) + 1
        /\ results'[Len(results) + 1] = r
        /\ \A i \in 1 .. Len(results) : results'[i] = results[i]
    BY ReturnFacts
  <1>2. Len(results) \in Nat /\ DOMAIN results = 1 .. Len(results)
    BY DEF TypeOK
  <1>3. \A i \in 1 .. Len(results) : i \in 1 .. Len(results) + 1
    BY <1>2
  <1>4. Len(results) + 1 \in 1 .. Len(results) + 1
    BY <1>2
  <1>5. QED
    BY <1>1, <1>2, <1>3, <1>4 DEF NoneFailed

\* Every step of a client none of whose writes and reads failed keeps its place.
LEMMA InPlaceStep == ReplyInv /\ InPlace /\ [Next]_vars => InPlace'
  <1> SUFFICES ASSUME ReplyInv, InPlace, [Next]_vars, NoneFailed'
               PROVE  AllAnswered' /\ ClientPlace'
    BY DEF InPlace
  <1> USE DEF clientVars, sessionVars
  <1> DEFINE n == Len(results)
             m == Len(response.frames)
  <1>a. /\ response \in Stream /\ response.frames \in Seq(Frame)
        /\ response.written \in Nat /\ response.read \in Nat
        /\ response.read <= response.written
        /\ m \in Nat /\ DOMAIN response.frames = 1 .. m
        /\ replyLength \in Nat /\ HeaderSize \in Nat
        /\ results \in Seq(Outcome) /\ n \in Nat /\ DOMAIN results = 1 .. n
    BY DEF ReplyInv, ServerInv, TypeOK, Bounded, Stream
  <1>b. TypeOK /\ Failed \in Outcome
    BY DEF ReplyInv, ServerInv, Failed, Garbage, Outcome
  <1>c. \A k \in 1 .. n + 1 : k \in 1 .. n \/ k = n + 1
    <2>1. \A j \in Nat : \A k \in 1 .. j + 1 : k \in 1 .. j \/ k = j + 1
      OBVIOUS
    <2>2. QED
      BY <1>a, <2>1
  \* The results do not change, and no reply is read.
  <1>1. ASSUME UNCHANGED results, ClientPlace => ClientPlace'
        PROVE  AllAnswered' /\ ClientPlace'
    BY <1>1 DEF InPlace, AllAnswered, NoneFailed
  \* No call fails in this step.
  <1>2. ~Return(Failed)
    BY <1>b, NoneFailedBefore
  <1>3. ASSUME NEW size \in RequestSizes, Send(size)
        PROVE  AllAnswered' /\ ClientPlace'
    <2>1. /\ clientState = "idle" /\ clientState' = "sending"
          /\ UNCHANGED << response, results, replyLength >>
      BY <1>3 DEF Send
    <2>2. ClientPlace => ClientPlace'
      BY <2>1 DEF ClientPlace, Boundary
    <2>3. QED
      BY <1>1, <2>1, <2>2
  <1>4. CASE ClientWrite
    <2>1. /\ clientState = "sending"
          /\ clientState' \in {"sending", "awaitHeader"}
          /\ UNCHANGED << response, results, replyLength >>
      BY <1>4 DEF ClientWrite
    <2>2. ClientPlace => ClientPlace'
      BY <2>1 DEF ClientPlace, Boundary
    <2>3. QED
      BY <1>1, <2>1, <2>2
  <1>5. CASE ClientWriteFails \/ ClientReceiveFails
    BY <1>2, <1>5 DEF ClientWriteFails, ClientReceiveFails
  <1>6. CASE ClientReadHeader
    <2>1. /\ clientState = "awaitHeader"
          /\ Available(response) > 0
          /\ response' = ReadSome(response, HeaderSize)
      BY <1>6 DEF ClientReadHeader
    <2>2. /\ Available(response) >= HeaderSize
          /\ replyLength' \in DecodedLengths(response')
          /\ clientState' = "awaitBody"
          /\ UNCHANGED results
      BY <1>2, <1>6 DEF ClientReadHeader
    <2>3. AllAnswered /\ ClientPlace
      BY <2>2 DEF InPlace, NoneFailed
    <2>4. /\ n + 1 \in DOMAIN response.frames
          /\ ResponsesFit => response.written >= FrameEnd(response.frames[n + 1])
      BY <2>1, <2>3, ReplyArriving
    <2>5. response.frames[n + 1].start \in Nat
      BY <1>a, <2>4, FrameType
    <2>6. response.read = response.frames[n + 1].start
      <3>1. response.frames[n + 1].start = Boundary(response, (n + 1) - 1)
        BY <2>4 DEF ReplyInv, ResponsePlace, Contiguous
      <3>2. (n + 1) - 1 = n
        BY <1>a
      <3>3. response.read = Boundary(response, n)
        BY <2>1, <2>3 DEF ClientPlace
      <3>4. QED
        BY <3>1, <3>2, <3>3
    <2>7. /\ response' \in Stream
          /\ response'.frames = response.frames
          /\ response'.written = response.written
          /\ response'.read = response.read + Lesser(HeaderSize, Available(response))
      BY <1>a, <2>1, ReadSomeFacts
    <2>8. response'.read = response'.frames[n + 1].start + HeaderSize
      BY <1>a, <2>2, <2>5, <2>6, <2>7 DEF Available, Lesser
    <2>9. Contiguous(response')
      BY <2>7 DEF Contiguous, Boundary, ReplyInv, ResponsePlace
    <2>10. n + 1 \in DOMAIN response'.frames
      BY <2>4, <2>7
    <2>11. DecodedLengths(response') = {response'.frames[n + 1].size}
      BY <2>7, <2>8, <2>9, <2>10, ExactHeader
    <2>12. replyLength' = response.frames[n + 1].size
      BY <2>2, <2>7, <2>11
    <2>13. n < m
      BY <1>a, <2>4
    <2>14. ClientPlace'
      BY <2>2, <2>4, <2>7, <2>8, <2>12, <2>13 DEF ClientPlace, ResponsesFit
    <2>15. QED
      BY <2>2, <2>3, <2>14 DEF AllAnswered
  <1>7. CASE ClientReadBody
    <2>1. /\ clientState = "awaitBody"
          /\ response' = ReadSome(response, replyLength)
          /\ Available(response) >= replyLength
          /\ \E k \in PayloadReadBy(response', replyLength) :
                 Return(Unparsed) \/ (k # Garbage /\ Return(handled[k]))
      BY <1>2, <1>7 DEF ClientReadBody
    <2>2. NoneFailed
      <3>1. PICK r : Return(r)
        BY <2>1
      <3>2. results' = Append(results, r)
        BY <3>1 DEF Return
      <3>3. \A i \in 1 .. n : i \in DOMAIN results' /\ results'[i] = results[i]
        BY <1>a, <3>2
      <3>4. QED
        BY <1>a, <3>3 DEF NoneFailed
    <2>3. AllAnswered /\ ClientPlace
      BY <2>2 DEF InPlace
    <2>4. /\ n < m
          /\ replyLength = response.frames[n + 1].size
          /\ response.read = response.frames[n + 1].start + HeaderSize
      BY <2>1, <2>3 DEF ClientPlace
    <2>5. n + 1 \in DOMAIN response.frames
      <3>1. \A i, j \in Nat : i < j => i + 1 \in 1 .. j
        OBVIOUS
      <3>2. QED
        BY <1>a, <2>4, <3>1
    <2>6. FrameEnd(response.frames[n + 1]) =
              response.frames[n + 1].start + HeaderSize + response.frames[n + 1].size
      BY <1>a, <2>5, FrameType
    <2>7. /\ response' \in Stream
          /\ response'.frames = response.frames
          /\ response'.read = response.read + Lesser(replyLength, Available(response))
      BY <1>a, <2>1, ReadSomeFacts
    <2>8. response'.read = FrameEnd(response'.frames[n + 1])
      <3>1. Lesser(replyLength, Available(response)) = replyLength
        BY <1>a, <2>1 DEF Available, Lesser
      <3>2. response'.read = FrameEnd(response.frames[n + 1])
        BY <1>a, <2>4, <2>6, <2>7, <3>1
      <3>3. QED
        BY <2>7, <3>2
    <2>9. Contiguous(response')
      BY <2>7 DEF Contiguous, Boundary, ReplyInv, ResponsePlace
    <2>10. n + 1 \in DOMAIN response'.frames
      BY <2>5, <2>7
    <2>11. PayloadReadBy(response', replyLength) = {n + 1}
      BY <2>4, <2>7, <2>8, <2>9, <2>10, ExactPayload
    <2>12. handled[n + 1] = n + 1
      <3>1. n + 1 \in DOMAIN handled
        <4>1. m <= Len(handled) /\ Len(handled) \in Nat /\ DOMAIN handled = 1 .. Len(handled)
          BY DEF ReplyInv, ServerInv, TypeOK, Bounded
        <4>2. \A h, i, j \in Nat : i < j /\ j <= h => i + 1 \in 1 .. h
          OBVIOUS
        <4>3. QED
          BY <1>a, <2>4, <4>1, <4>2
      <3>2. QED
        BY <3>1 DEF ReplyInv, ServerInv, HandledInOrder
    <2>13. PICK r \in {n + 1, Unparsed} : Return(r)
      BY <2>1, <2>11, <2>12
    <2>14. /\ clientState' = "idle"
           /\ Len(results') = n + 1
           /\ DOMAIN results' = 1 .. n + 1
           /\ results'[n + 1] \in {n + 1, Unparsed}
           /\ \A i \in 1 .. n : results'[i] = results[i]
      <3>1. r \in Outcome
        BY <1>a, <2>13 DEF Outcome
      <3>2. QED
        BY <1>a, <1>b, <2>13, <3>1, ReturnFacts
    <2>15. AllAnswered'
      <3>1. ASSUME NEW i \in 1 .. n + 1 PROVE results'[i] \in {i, Unparsed}
        <4>1. CASE i \in 1 .. n
          BY <1>a, <2>3, <2>14, <4>1 DEF AllAnswered
        <4>2. CASE i = n + 1
          BY <2>14, <4>2
        <4>3. QED
          BY <1>c, <4>1, <4>2
      <3>2. QED
        BY <2>14, <3>1 DEF AllAnswered
    <2>16. response'.read = Boundary(response', n + 1)
      BY <1>a, <2>8 DEF Boundary
    <2>17. n + 1 <= Len(response'.frames)
      BY <1>a, <2>4, <2>7
    <2>18. ClientPlace'
      BY <2>14, <2>16, <2>17 DEF ClientPlace
    <2>19. QED
      BY <2>15, <2>18
  <1>8. CASE Close
    <2>1. clientState' = "closed" /\ UNCHANGED results
      BY <1>8 DEF Close
    <2>2. QED
      BY <1>1, <2>1 DEF ClientPlace
  \* A step of the server: the client's variables do not change.
  <1>9. ASSUME UNCHANGED clientVars, response'.read = response.read,
               m <= Len(response'.frames), Len(response'.frames) \in Nat,
               \A k \in 1 .. m : response'.frames[k] = response.frames[k],
               response'.written >= response.written, response'.written \in Nat
        PROVE  AllAnswered' /\ ClientPlace'
    <2>1. ASSUME ClientPlace PROVE ClientPlace'
      <3>1. CASE clientState \in {"idle", "sending", "awaitHeader"}
        <4>1. n <= m /\ response.read = Boundary(response, n)
          BY <2>1, <3>1 DEF ClientPlace
        <4>2. Boundary(response', n) = Boundary(response, n)
          BY <1>9, <1>a, <4>1 DEF Boundary
        <4>3. n <= Len(response'.frames)
          BY <1>9, <1>a, <4>1
        <4>4. QED
          BY <1>9, <3>1, <4>1, <4>2, <4>3 DEF ClientPlace
      <3>2. CASE clientState = "awaitBody"
        <4>1. /\ n < m
              /\ replyLength = response.frames[n + 1].size
              /\ response.read = response.frames[n + 1].start + HeaderSize
              /\ ResponsesFit => response.written >= FrameEnd(response.frames[n + 1])
          BY <2>1, <3>2 DEF ClientPlace
        <4>2. n + 1 \in 1 .. m
          <5>1. \A i, j \in Nat : i < j => i + 1 \in 1 .. j
            OBVIOUS
          <5>2. QED
            BY <1>a, <4>1, <5>1
        <4>3. response'.frames[n + 1] = response.frames[n + 1]
          BY <1>9, <4>2
        <4>4. n < Len(response'.frames)
          BY <1>9, <1>a, <4>1
        <4>5. ResponsesFit => response'.written >= FrameEnd(response.frames[n + 1])
          <5>1. FrameEnd(response.frames[n + 1]) \in Nat
            BY <1>a, <4>2, FrameType
          <5>2. QED
            BY <1>9, <1>a, <4>1, <5>1
        <4>6. QED
          BY <1>9, <3>2, <4>1, <4>3, <4>4, <4>5 DEF ClientPlace, ResponsesFit
      <3>3. CASE clientState \notin {"idle", "sending", "awaitHeader", "awaitBody"}
        BY <1>9, <3>3 DEF ClientPlace
      <3>4. QED
        BY <3>1, <3>2, <3>3
    <2>2. QED
      BY <1>1, <1>9, <2>1
  <1>10. ASSUME NEW size \in ResponseSizes, Dispatch(size)
         PROVE  AllAnswered' /\ ClientPlace'
    <2>1. response' = BeginFrame(response, size) /\ size \in Nat /\ UNCHANGED clientVars
      BY <1>10 DEF Dispatch
    <2>2. /\ BeginFrame(response, size).read = response.read
          /\ BeginFrame(response, size).written = response.written
          /\ Len(BeginFrame(response, size).frames) = m + 1
          /\ \A k \in 1 .. m : BeginFrame(response, size).frames[k] = response.frames[k]
      <3>1. response \in Stream
        BY <1>a
      <3>2. QED
        BY <3>1, <2>1, BeginFrameFacts
    <2>3. /\ response'.read = response.read
          /\ response'.written = response.written
          /\ Len(response'.frames) = m + 1
          /\ \A k \in 1 .. m : response'.frames[k] = response.frames[k]
      BY <2>1, <2>2, Zenon
    <2>4. /\ m <= Len(response'.frames) /\ Len(response'.frames) \in Nat
          /\ response'.written >= response.written /\ response'.written \in Nat
      BY <1>a, <2>3
    <2>5. QED
      BY <1>9, <2>1, <2>3, <2>4
  <1>11. CASE SessionWrite
    <2>1. response' = WriteSome(response) /\ UNCHANGED clientVars
      BY <1>11 DEF SessionWrite
    <2>2. Len(response.frames) > 0 /\ Unwritten(response) >= 0
      BY <1>11 DEF SessionWrite, ReplyInv, ServerInv, Bounded
    <2>3. /\ response' \in Stream
          /\ response'.read = response.read
          /\ response'.frames = response.frames
          /\ response'.written >= response.written
      BY <1>a, <2>1, <2>2, WriteSomeFacts
    <2>4. response'.written \in Nat
      BY <2>3 DEF Stream
    <2>5. m <= Len(response'.frames) /\ Len(response'.frames) \in Nat
      BY <1>a, <2>3
    <2>6. QED
      BY <1>9, <2>1, <2>3, <2>4, <2>5
  <1>12. CASE UNCHANGED << response, clientVars >>
    BY <1>9, <1>12, <1>a
  <1>13. QED
    BY <1>3, <1>4, <1>5, <1>6, <1>7, <1>8, <1>10, <1>11, <1>12
       DEF Next, ClientStep, SessionStep, HandlerReturns, vars,
           SessionRead, DecodeHeader, DispatchThrows, SessionReadFails,
           SessionWriteFails, SessionKilled

-----------------------------------------------------------------------------
(* The invariant of a session's end.                                        *)

EndInv ==
    /\ ReplyInv
    /\ InPlace
    /\ WritePending
    /\ ReturnsWhenLeft
    /\ CleanEndLosesNothing
    /\ NothingLeft
    /\ PoliteDepartureIsClean

\* At the start no session has ended.
LEMMA EndInit == Init => EndInv
  <1> SUFFICES ASSUME Init PROVE EndInv
    OBVIOUS
  <1>1. ReplyInv
    BY ReplyInit
  <1>2. InPlace
    BY DEF Init, InPlace, AllAnswered, ClientPlace, EmptyStream, Boundary
  <1>3. WritePending /\ ReturnsWhenLeft /\ CleanEndLosesNothing
    BY DEF Init, WritePending, ReturnsWhenLeft, CleanEndLosesNothing
  <1>4. NothingLeft /\ PoliteDepartureIsClean
    BY DEF Init, NothingLeft, PoliteDepartureIsClean, ClientOpen
  <1>5. QED
    BY <1>1, <1>2, <1>3, <1>4 DEF EndInv

\* A session that is writing stops to do so when nothing is left.
LEMMA WritePendingStep == ReplyInv /\ WritePending /\ [Next]_vars => WritePending'
  <1> SUFFICES ASSUME ReplyInv, WritePending, [Next]_vars,
                      sessionState' = "writeResponse"
               PROVE  Unwritten(response)' > 0
    BY DEF WritePending
  <1> USE DEF clientVars, sessionVars
  <1>1. CASE \E size \in ResponseSizes : Dispatch(size)
    <2>1. PICK size \in ResponseSizes : response' = BeginFrame(response, size)
      BY <1>1 DEF Dispatch
    <2>2. response \in Stream /\ size \in Nat /\ HeaderSize \in Nat \ {0}
      BY DEF ReplyInv, ServerInv, TypeOK
    <2>3. Unwritten(BeginFrame(response, size)) = HeaderSize + size
      BY <2>2, BeginFrameFacts
    <2>4. Unwritten(response') = HeaderSize + size
      BY <2>1, <2>3, Zenon
    <2>5. QED
      BY <2>2, <2>4
  <1>2. CASE SessionWrite
    <2>1. response' = WriteSome(response) /\ Unwritten(response') # 0
      BY <1>2 DEF SessionWrite
    <2>2. Bounded' /\ TypeOK'
      BY TypeStep DEF ReplyInv, ServerInv
    <2>3. Unwritten(response') >= 0 /\ response' \in Stream /\ Len(response'.frames) > 0
      BY <2>2 DEF Bounded, TypeOK
    <2>4. Unwritten(response') \in Int
      <3>1. response'.frames \in Seq(Frame) /\ response'.written \in Nat
        BY <2>3 DEF Stream
      <3>2. Len(response'.frames) \in DOMAIN response'.frames
        BY <2>3, <3>1
      <3>3. FrameEnd(response'.frames[Len(response'.frames)]) \in Nat
        BY <2>3, <3>2, FrameType
      <3>4. QED
        BY <3>1, <3>3 DEF Unwritten
    <2>5. \A i \in Int : i >= 0 /\ i # 0 => i > 0
      OBVIOUS
    <2>6. QED
      BY <2>1, <2>3, <2>4, <2>5
  <1>3. CASE sessionState = "writeResponse" /\ UNCHANGED response
    BY <1>3 DEF WritePending
  <1>4. CASE ClientReadHeader \/ ClientReadBody
    <2>1. /\ sessionState = "writeResponse"
          /\ \E k \in Nat : response' = ReadSome(response, k)
      BY <1>4 DEF ClientReadHeader, ClientReadBody, ReplyInv, ServerInv, TypeOK
    <2>2. PICK k \in Nat : response' = ReadSome(response, k)
      BY <2>1
    <2>3. response'.frames = response.frames /\ response'.written = response.written
      BY <2>2, ReadSomeFacts DEF ReplyInv, ServerInv, TypeOK, Bounded
    <2>4. QED
      BY <2>1, <2>3 DEF WritePending, Unwritten
  <1>5. QED
    BY <1>1, <1>2, <1>3, <1>4
       DEF Next, ClientStep, SessionStep, HandlerReturns, vars, End,
           Send, ClientWrite, ClientWriteFails, ClientReceiveFails, Close,
           SessionRead, DecodeHeader, DispatchThrows, SessionReadFails,
           SessionWriteFails, SessionKilled

\* start returns when the client has left, and a session has one result.
LEMMA ReturnsWhenLeftStep == ReturnsWhenLeft /\ [Next]_vars => ReturnsWhenLeft'
  <1> SUFFICES ASSUME ReturnsWhenLeft, [Next]_vars PROVE ReturnsWhenLeft'
    OBVIOUS
  <1> USE DEF clientVars, sessionVars, ReturnsWhenLeft, ClientOpen, SessionOpen
  <1>1. CASE SessionReadFails \/ SessionWriteFails
    BY <1>1 DEF SessionReadFails, SessionWriteFails, End
  <1>2. CASE DispatchThrows \/ SessionKilled
    BY <1>2 DEF DispatchThrows, SessionKilled, End
  <1>3. CASE ClientStep
    <2>1. clientState # "closed" /\ UNCHANGED sessionVars
      BY <1>3 DEF ClientStep, ClientWrite, ClientWriteFails, ClientReadHeader,
                  ClientReadBody, ClientReceiveFails
    <2>2. QED
      BY <2>1
  <1>4. CASE Close \/ UNCHANGED vars
    BY <1>4 DEF Close, vars
  <1>5. CASE \E size \in RequestSizes : Send(size)
    BY <1>5 DEF Send
  <1>6. CASE SessionRead \/ DecodeHeader \/ SessionWrite
    BY <1>6 DEF SessionRead, DecodeHeader, SessionWrite
  <1>7. CASE \E size \in ResponseSizes : Dispatch(size)
    BY <1>7 DEF Dispatch, HandleRequest
  <1>8. QED
    BY <1>1, <1>2, <1>3, <1>4, <1>5, <1>6, <1>7 DEF Next, SessionStep, HandlerReturns

\* Nothing happens on a connection that both ends have left.
LEMMA BothLeft ==
    ~ClientOpen /\ ~SessionOpen /\ [Next]_vars => UNCHANGED vars
  <1> SUFFICES ASSUME clientState = "closed", sessionState = "ended", Next
               PROVE  FALSE
    BY DEF ClientOpen, SessionOpen
  <1>1. ~ClientStep
    BY DEF ClientStep, ClientWrite, ClientWriteFails, ClientReadHeader,
           ClientReadBody, ClientReceiveFails
  <1>2. ~Close /\ ~SessionKilled /\ \A size \in RequestSizes : ~Send(size)
    BY DEF Close, SessionKilled, Send, ClientOpen, SessionOpen
  <1>3. ~SessionStep
    BY DEF SessionStep, SessionRead, DecodeHeader, HandlerReturns, Dispatch,
           DispatchThrows, HandleRequest, SessionReadFails, SessionWrite,
           SessionWriteFails
  <1>4. QED
    BY <1>1, <1>2, <1>3 DEF Next

\* When a read of the server has taken all there is and still waits, every
\* request that is on the stream in full was handled.
LEMMA ReadToTheEnd ==
    ASSUME ServerInv, sessionState \in {"readHeader", "readBody"}, need > 0,
           Available(request) = 0, NEW k \in DOMAIN request.frames,
           FrameEnd(request.frames[k]) <= request.written
    PROVE  k <= Len(handled)
  <1> DEFINE n == Len(handled)
  <1>1. /\ request \in Stream /\ request.frames \in Seq(Frame)
        /\ request.written \in Nat /\ request.read \in Nat
        /\ need \in Nat /\ n \in Nat /\ HeaderSize \in Nat
        /\ Len(request.frames) \in Nat
        /\ DOMAIN request.frames = 1 .. Len(request.frames)
    BY DEF ServerInv, TypeOK, Stream
  <1>2. request.read = request.written
    BY <1>1 DEF Available
  <1>3. Contiguous(request)
    BY DEF ServerInv, RequestPlace, SessionOpen
  <1> SUFFICES ASSUME n < k PROVE FALSE
    BY <1>1
  <1>4. n + 1 \in DOMAIN request.frames /\ n + 1 <= k
    BY <1>1
  <1>5. /\ request.frames[n + 1].start \in Nat
        /\ request.frames[n + 1].size \in Nat
        /\ FrameEnd(request.frames[n + 1]) \in Nat
        /\ FrameEnd(request.frames[n + 1]) = request.frames[n + 1].start
                                           + HeaderSize + request.frames[n + 1].size
    BY <1>1, <1>4, FrameType
  <1>6. /\ FrameEnd(request.frames[k]) \in Nat
        /\ request.frames[k].start \in Nat
        /\ FrameEnd(request.frames[k]) >= request.frames[k].start
    BY <1>1, FrameEndBehindStart
  <1>7. FrameEnd(request.frames[n + 1]) <= FrameEnd(request.frames[k])
    <2>1. CASE n + 1 = k
      BY <1>5, <2>1
    <2>2. CASE n + 1 < k
      <3>1. FrameEnd(request.frames[n + 1]) <= request.frames[k].start
        BY <1>3, <1>4, <2>2 DEF Contiguous
      <3>2. QED
        BY <1>5, <1>6, <3>1
    <2>3. QED
      BY <1>1, <1>4, <2>1, <2>2
  <1>8. request.written < FrameEnd(request.frames[n + 1])
    <2>1. CASE sessionState = "readBody"
      <3>1. request.read + need = FrameEnd(request.frames[n + 1])
        BY <2>1 DEF ServerInv, ServerPlace
      <3>2. QED
        BY <1>1, <1>2, <1>5, <3>1
    <2>2. CASE sessionState = "readHeader"
      <3>1. request.read + need = Boundary(request, n) + HeaderSize
        BY <2>2 DEF ServerInv, ServerPlace
      <3>2. request.frames[n + 1].start = Boundary(request, (n + 1) - 1)
        BY <1>3, <1>4 DEF Contiguous
      <3>3. (n + 1) - 1 = n
        BY <1>1
      <3>4. request.read + need = request.frames[n + 1].start + HeaderSize
        BY <3>1, <3>2, <3>3
      <3>5. QED
        BY <1>1, <1>2, <1>5, <3>4
    <2>3. QED
      BY <2>1, <2>2
  <1>9. QED
    BY <1>1, <1>5, <1>6, <1>7, <1>8

\* A session that ends for end of file has handled all that arrived.
LEMMA CleanEndStep ==
    ServerInv /\ ReturnsWhenLeft /\ CleanEndLosesNothing /\ [Next]_vars
        => CleanEndLosesNothing'
  <1> SUFFICES ASSUME ServerInv, ReturnsWhenLeft, CleanEndLosesNothing,
                      [Next]_vars, sessionResult' = "ok"
               PROVE  CleanEndLosesNothing'
    BY DEF CleanEndLosesNothing
  <1> USE DEF clientVars, sessionVars
  <1>1. CASE sessionResult = "ok"
    <2>1. UNCHANGED vars
      BY <1>1, BothLeft DEF ReturnsWhenLeft
    <2>2. QED
      BY <2>1 DEF vars, CleanEndLosesNothing
  <1>2. CASE SessionReadFails
    <2>1. /\ sessionState \in {"readHeader", "readBody"}
          /\ need > 0 /\ Available(request) = 0
          /\ UNCHANGED << request, handled >>
      BY <1>2 DEF SessionReadFails
    <2>2. \A k \in DOMAIN request.frames :
              FrameEnd(request.frames[k]) <= request.written => k <= Len(handled)
      BY <2>1, ReadToTheEnd
    <2>3. QED
      BY <2>1, <2>2 DEF CleanEndLosesNothing
  <1>3. CASE UNCHANGED sessionResult
    BY <1>1, <1>3
  <1>4. CASE sessionResult' \in {"exception", "killed", "UnableToSendMessage"}
    BY <1>4
  <1>5. QED
    BY <1>2, <1>3, <1>4
       DEF Next, ClientStep, SessionStep, HandlerReturns, vars, End,
           Send, ClientWrite, ClientWriteFails, ClientReadHeader, ClientReadBody,
           ClientReceiveFails, Close, SessionRead, DecodeHeader, Dispatch,
           DispatchThrows, SessionWrite, SessionWriteFails, SessionKilled

\* Only Close closes, and then the client's variables are left alone.
LEMMA ClosedStays ==
    ASSUME [Next]_vars, ~ClientOpen'
    PROVE  /\ ClientOpen => Close
           /\ ~ClientOpen => UNCHANGED clientVars /\ UNCHANGED reset
           /\ UNCHANGED results
  <1> USE DEF clientVars, sessionVars, ClientOpen
  <1>1. ~ClientStep
    BY DEF ClientStep, ClientWrite, ClientWriteFails, ClientReadHeader,
           ClientReadBody, ClientReceiveFails, Return
  <1>2. \A size \in RequestSizes : ~Send(size)
    BY DEF Send
  <1>3. CASE Close
    BY <1>3 DEF Close
  <1>4. CASE SessionStep
    BY <1>4 DEF SessionStep, SessionRead, DecodeHeader, HandlerReturns, Dispatch,
                DispatchThrows, SessionReadFails, SessionWrite, SessionWriteFails
  <1>5. CASE SessionKilled \/ UNCHANGED vars
    BY <1>5 DEF SessionKilled, vars
  <1>6. QED
    BY <1>1, <1>2, <1>3, <1>4, <1>5 DEF Next

\* A client that leaves between two calls, with no error, has read all that
\* the server wrote, and the server has written all that it will.
LEMMA NothingLeftAtClose ==
    ASSUME ReplyInv, InPlace, WritePending, Close,
           Len(results) = Len(request.frames), NoneFailed
    PROVE  /\ ~reset'
           /\ Len(handled) = Len(request.frames)
           /\ sessionState # "writeResponse"
  <1> DEFINE n == Len(results)
             m == Len(response.frames)
  <1>1. /\ response \in Stream /\ response.frames \in Seq(Frame)
        /\ response.written \in Nat /\ response.read \in Nat
        /\ response.read <= response.written
        /\ n \in Nat /\ m \in Nat /\ Len(handled) \in Nat
        /\ DOMAIN response.frames = 1 .. m
    BY DEF ReplyInv, ServerInv, TypeOK, Bounded, Stream
  <1>2. clientState = "idle"
    <2>1. clientState \notin ClientBusy
      BY <1>1 DEF ReplyInv, OneCall
    <2>2. QED
      BY <2>1 DEF Close, ClientOpen, ReplyInv, ServerInv, TypeOK
  <1>3. n <= m /\ response.read = Boundary(response, n)
    BY <1>2 DEF InPlace, ClientPlace
  <1>4. m <= Len(handled) /\ Len(handled) <= n
    BY DEF ReplyInv, ServerInv, Bounded, HandledInOrder
  <1>5. m = n /\ Len(handled) = n
    BY <1>1, <1>3, <1>4
  <1>6. Boundary(response, m) \in Nat
    <2>1. m \in 0 .. Len(response.frames)
      BY <1>1
    <2>2. QED
      BY <1>1, <2>1, BoundaryType
  <1>7. response.written = response.read
    <2>1. response.written <= Boundary(response, m)
      BY DEF ReplyInv, ResponsePlace
    <2>2. QED
      BY <1>1, <1>3, <1>5, <1>6, <2>1
  <1>8. ~reset'
    <2>1. reset' \in BOOLEAN /\ (reset' => Available(response) > 0)
      BY DEF Close
    <2>2. ~(Available(response) > 0)
      BY <1>1, <1>7 DEF Available
    <2>3. QED
      BY <2>1, <2>2
  <1>9. ASSUME sessionState = "writeResponse" PROVE FALSE
    <2>1. m > 0 /\ Unwritten(response) > 0
      BY <1>9 DEF ReplyInv, ServerInv, Bounded, WritePending
    <2>2. Boundary(response, m) = FrameEnd(response.frames[m])
      BY <1>1, <2>1 DEF Boundary
    <2>3. Unwritten(response) = Boundary(response, m) - response.written
      BY <2>2 DEF Unwritten
    <2>4. QED
      BY <1>1, <1>3, <1>5, <1>6, <1>7, <2>1, <2>3
  <1>10. QED
    BY <1>5, <1>8, <1>9

\* What a client without errors has left, nobody takes up again.
LEMMA NothingLeftStep ==
    ReplyInv /\ InPlace /\ WritePending /\ NothingLeft /\ [Next]_vars
        => NothingLeft'
  <1> SUFFICES ASSUME ReplyInv, InPlace, WritePending, NothingLeft, [Next]_vars,
                      ~ClientOpen', NoneFailed',
                      Len(results') = Len(request'.frames)
               PROVE  /\ ~reset'
                      /\ Len(handled') = Len(request'.frames)
                      /\ sessionState' # "writeResponse"
    BY DEF NothingLeft
  <1> USE DEF clientVars, sessionVars
  <1>1. NoneFailed
    BY ClosedStays DEF NoneFailed
  <1>2. CASE ClientOpen
    <2>1. Close /\ UNCHANGED << request, results, handled, sessionState >>
      BY <1>2, ClosedStays DEF Close
    <2>2. Len(results) = Len(request.frames)
      BY <2>1
    <2>3. QED
      BY <1>1, <2>1, <2>2, NothingLeftAtClose
  <1>3. CASE ~ClientOpen
    <2>1. UNCHANGED results /\ UNCHANGED reset /\ UNCHANGED clientState
      BY <1>3, ClosedStays
    <2>2. request'.frames = request.frames
      <3>1. CASE SessionRead
        BY <3>1, ReadSomeFacts
           DEF SessionRead, ReplyInv, ServerInv, TypeOK, Bounded
      <3>2. CASE ~SessionRead
        <4>1. ~ClientWrite /\ \A size \in RequestSizes : ~Send(size)
          BY <1>3 DEF ClientWrite, Send, ClientOpen
        <4>2. QED
          BY <3>2, <4>1
             DEF Next, ClientStep, SessionStep, HandlerReturns, vars,
                 ClientWriteFails, ClientReadHeader, ClientReadBody,
                 ClientReceiveFails, Close, DecodeHeader, Dispatch,
                 DispatchThrows, SessionReadFails, SessionWrite,
                 SessionWriteFails, SessionKilled
      <3>3. QED
        BY <3>1, <3>2
    <2>3. /\ ~reset
          /\ Len(handled) = Len(request.frames)
          /\ sessionState # "writeResponse"
      BY <1>1, <1>3, <2>1, <2>2 DEF NothingLeft
    <2>4. ~HandleRequest
      <3>1. HandleRequest => Len(handled) < Len(request.frames)
        BY DEF HandleRequest, ReplyInv, ServerInv, ServerPlace
      <3>2. Len(handled) \in Nat
        BY DEF ReplyInv, ServerInv, TypeOK
      <3>3. QED
        BY <2>3, <3>1, <3>2
    <2>5. UNCHANGED handled /\ sessionState' # "writeResponse"
      BY <2>3, <2>4
         DEF Next, ClientStep, SessionStep, HandlerReturns, vars, End,
             Send, ClientWrite, ClientWriteFails, ClientReadHeader,
             ClientReadBody, ClientReceiveFails, Close, SessionRead,
             DecodeHeader, Dispatch, DispatchThrows, SessionReadFails,
             SessionWrite, SessionWriteFails, SessionKilled
    <2>6. QED
      BY <2>1, <2>2, <2>3, <2>5
  <1>4. QED
    BY <1>2, <1>3

\* The end of file that such a client leaves ends its session without error.
LEMMA PoliteDepartureStep ==
    /\ ReplyInv /\ ReturnsWhenLeft /\ NothingLeft /\ PoliteDepartureIsClean
    /\ [Next]_vars
    => PoliteDepartureIsClean'
  <1> DEFINE bad == {"GeneralServerSessionError", "UnableToSendMessage"}
  <1> SUFFICES ASSUME ReplyInv, ReturnsWhenLeft, NothingLeft,
                      PoliteDepartureIsClean, [Next]_vars,
                      ~ClientOpen', NoneFailed',
                      Len(results') = Len(request'.frames),
                      sessionResult' \in bad
               PROVE  FALSE
    BY DEF PoliteDepartureIsClean, NoneFailed
  <1> USE DEF clientVars, sessionVars
  <1>1. NoneFailed
    BY ClosedStays DEF NoneFailed
  <1>2. CASE UNCHANGED sessionResult
    <2>1. UNCHANGED vars
      BY <1>2, BothLeft DEF ReturnsWhenLeft
    <2>2. QED
      BY <1>1, <1>2, <2>1 DEF vars, PoliteDepartureIsClean, NoneFailed, ClientOpen
  <1>3. CASE SessionReadFails \/ SessionWriteFails
    <2>1. UNCHANGED << request, results, clientState >>
      BY <1>3 DEF SessionReadFails, SessionWriteFails
    <2>2. ~reset /\ sessionState # "writeResponse"
      BY <1>1, <2>1 DEF NothingLeft, ClientOpen
    <2>3. QED
      BY <1>3, <2>2 DEF SessionReadFails, SessionWriteFails, End
  <1>4. CASE sessionResult' \in {"exception", "killed"}
    BY <1>4
  <1>5. QED
    BY <1>2, <1>3, <1>4
       DEF Next, ClientStep, SessionStep, HandlerReturns, vars, End,
           Send, ClientWrite, ClientWriteFails, ClientReadHeader, ClientReadBody,
           ClientReceiveFails, Close, SessionRead, DecodeHeader, Dispatch,
           DispatchThrows, SessionWrite, SessionKilled

\* The invariant of a session's end is inductive.
LEMMA EndStep == EndInv /\ [Next]_vars => EndInv'
  BY ReplyStep, InPlaceStep, WritePendingStep, ReturnsWhenLeftStep, CleanEndStep,
     NothingLeftStep, PoliteDepartureStep
     DEF EndInv, ReplyInv

(***************************************************************************)
(* When start returns without an error, every request that the client      *)
(* wrote in full was handled.                                              *)
(***************************************************************************)
THEOREM CleanEndLosesNothingCorrect == Spec => []CleanEndLosesNothing
  <1>1. EndInv => CleanEndLosesNothing
    BY DEF EndInv
  <1>2. QED
    BY EndInit, EndStep, <1>1, PTL DEF Spec, SafetySpec

(***************************************************************************)
(* A client that leaves between two calls, none of which failed, does not  *)
(* make start return an error; and it need not be careful for that.        *)
(***************************************************************************)
THEOREM PoliteDepartureIsCleanCorrect == Spec => []PoliteDepartureIsClean
  <1>1. EndInv => PoliteDepartureIsClean
    BY DEF EndInv
  <1>2. QED
    BY EndInit, EndStep, <1>1, PTL DEF Spec, SafetySpec
=============================================================================
