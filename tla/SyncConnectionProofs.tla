------------------------ MODULE SyncConnectionProofs ------------------------
(***************************************************************************)
(* Theorems about SyncConnection, for every frame size, buffer capacity,   *)
(* set of message sizes and number of calls.                               *)
(***************************************************************************)
EXTENDS SyncConnectionInvariants, TLAPS

USE FrameAssumption, ConnectionAssumption

-----------------------------------------------------------------------------
(* The operators on streams.                                                *)

\* What BeginFrame changes: one more frame, behind what was written.
LEMMA BeginFrameFacts ==
    ASSUME NEW s \in Stream, NEW size \in Nat
    PROVE  /\ BeginFrame(s, size) \in Stream
           /\ BeginFrame(s, size).written = s.written
           /\ BeginFrame(s, size).read = s.read
           /\ Len(BeginFrame(s, size).frames) = Len(s.frames) + 1
           /\ \A k \in 1 .. Len(s.frames) :
                  BeginFrame(s, size).frames[k] = s.frames[k]
           /\ BeginFrame(s, size).frames[Len(s.frames) + 1] =
                  [start |-> s.written, size |-> size]
           /\ Unwritten(BeginFrame(s, size)) = HeaderSize + size
  <1> DEFINE f == [start |-> s.written, size |-> size]
  <1>1. f \in Frame
    BY DEF Stream, Frame
  <1>2. s.frames \in Seq(Frame) /\ s.written \in Nat /\ s.read \in Nat
    BY DEF Stream
  <1>3. BeginFrame(s, size) = [frames |-> Append(s.frames, f),
                               written |-> s.written, read |-> s.read]
    <2>1. \A x : [s EXCEPT !.frames = x] = [frames |-> x,
                                           written |-> s.written, read |-> s.read]
      BY DEF Stream
    <2>2. BeginFrame(s, size) = [s EXCEPT !.frames = Append(s.frames, f)]
      BY DEF BeginFrame
    <2>3. QED
      BY <2>1, <2>2
  <1>4. Append(s.frames, f) \in Seq(Frame)
    BY <1>1, <1>2
  <1>5. QED
    BY <1>1, <1>2, <1>3, <1>4 DEF Stream, Unwritten, FrameEnd

\* What WriteSome changes: it writes on, and not beyond the last frame.
LEMMA WriteSomeFacts ==
    ASSUME NEW s \in Stream, Len(s.frames) > 0, Unwritten(s) >= 0
    PROVE  /\ WriteSome(s) \in Stream
           /\ WriteSome(s).frames = s.frames
           /\ WriteSome(s).read = s.read
           /\ WriteSome(s).written >= s.written
           /\ WriteSome(s).written <= FrameEnd(s.frames[Len(s.frames)])
           /\ Unwritten(s) <= Chunk =>
                  WriteSome(s).written = FrameEnd(s.frames[Len(s.frames)])
           /\ Unwritten(WriteSome(s)) =
                  FrameEnd(s.frames[Len(s.frames)]) - WriteSome(s).written
  <1> DEFINE last == s.frames[Len(s.frames)]
  <1>1. s.frames \in Seq(Frame) /\ s.written \in Nat /\ s.read \in Nat
    BY DEF Stream
  <1>2. last \in Frame
    BY <1>1
  <1>3. FrameEnd(last) \in Nat
    BY <1>2 DEF FrameEnd, Frame
  <1>4. WriteSome(s) = [frames |-> s.frames,
                        written |-> s.written + Lesser(Chunk, Unwritten(s)),
                        read |-> s.read]
    BY DEF WriteSome, Stream
  <1>5. QED
    BY <1>1, <1>3, <1>4 DEF Stream, Unwritten, Lesser

\* What ReadSome changes: it reads on, and not beyond what was written.
LEMMA ReadSomeFacts ==
    ASSUME NEW s \in Stream, NEW n \in Nat, s.read <= s.written
    PROVE  /\ ReadSome(s, n) \in Stream
           /\ ReadSome(s, n).frames = s.frames
           /\ ReadSome(s, n).written = s.written
           /\ ReadSome(s, n).read = s.read + Lesser(n, Available(s))
           /\ ReadSome(s, n).read <= s.written
           /\ Lesser(n, Available(s)) \in 0 .. n
  <1>1. s.frames \in Seq(Frame) /\ s.written \in Nat /\ s.read \in Nat
    BY DEF Stream
  <1>2. ReadSome(s, n) = [frames |-> s.frames, written |-> s.written,
                          read |-> s.read + Lesser(n, Available(s))]
    BY DEF ReadSome, Stream
  <1>3. QED
    BY <1>1, <1>2 DEF Stream, Available, Lesser

\* A decoded length is a natural number.
LEMMA DecodedLengthsType ==
    ASSUME NEW s \in Stream
    PROVE  DecodedLengths(s) \subseteq Nat
  <1>1. s.frames \in Seq(Frame)
    BY DEF Stream
  <1>2. \A k \in DOMAIN s.frames : s.frames[k] \in Frame
    BY <1>1
  <1>3. \A k \in DOMAIN s.frames : s.frames[k].size \in Nat
    BY <1>2 DEF Frame
  <1>4. QED
    BY <1>3 DEF DecodedLengths, HeaderReadBy

\* A payload is that of a frame on the stream, or garbage.
LEMMA PayloadReadByType ==
    ASSUME NEW s \in Stream, NEW n
    PROVE  PayloadReadBy(s, n) \subseteq DOMAIN s.frames \cup {Garbage}
  BY DEF PayloadReadBy

\* The numbers of a frame, and of the place where it ends.
LEMMA FrameType ==
    ASSUME NEW s \in Stream, NEW k \in DOMAIN s.frames
    PROVE  /\ s.frames[k].start \in Nat /\ s.frames[k].size \in Nat
           /\ FrameEnd(s.frames[k]) \in Nat
           /\ FrameEnd(s.frames[k]) = s.frames[k].start + HeaderSize + s.frames[k].size
  <1>1. s.frames \in Seq(Frame)
    BY DEF Stream
  <1>2. s.frames[k] \in Frame
    BY <1>1
  <1>3. QED
    BY <1>2 DEF Frame, FrameEnd

\* A frame does not end before it starts.
LEMMA FrameEndBehindStart ==
    ASSUME NEW s \in Stream, NEW k \in DOMAIN s.frames
    PROVE  /\ s.frames[k].start \in Nat
           /\ FrameEnd(s.frames[k]) \in Nat
           /\ FrameEnd(s.frames[k]) >= s.frames[k].start
  <1>1. HeaderSize \in Nat
    OBVIOUS
  <1>2. QED
    BY <1>1, FrameType

\* Where the first k frames end is an offset.
LEMMA BoundaryType ==
    ASSUME NEW s \in Stream, NEW k \in 0 .. Len(s.frames)
    PROVE  Boundary(s, k) \in Nat
  <1>1. s.frames \in Seq(Frame)
    BY DEF Stream
  <1>2. CASE k = 0
    BY <1>2 DEF Boundary
  <1>3. CASE k # 0
    <2>1. k \in DOMAIN s.frames
      BY <1>1, <1>3
    <2>2. QED
      BY <1>3, <2>1, FrameType DEF Boundary
  <1>4. QED
    BY <1>2, <1>3

\* Frames that do not overlap start, and end, at different offsets.
LEMMA FramesApart ==
    ASSUME NEW s \in Stream, Contiguous(s),
           NEW j \in DOMAIN s.frames, NEW k \in DOMAIN s.frames,
           \/ s.frames[j].start = s.frames[k].start
           \/ FrameEnd(s.frames[j]) = FrameEnd(s.frames[k])
    PROVE  j = k
  <1>1. s.frames \in Seq(Frame)
    BY DEF Stream
  <1>2. /\ s.frames[j].start < FrameEnd(s.frames[j])
        /\ s.frames[k].start < FrameEnd(s.frames[k])
    BY FrameType
  <1>3. j < k \/ k < j \/ j = k
    BY <1>1
  <1>4. /\ j < k => FrameEnd(s.frames[j]) <= s.frames[k].start
        /\ k < j => FrameEnd(s.frames[k]) <= s.frames[j].start
    BY DEF Contiguous
  <1>5. /\ s.frames[j].start \in Nat /\ FrameEnd(s.frames[j]) \in Nat
        /\ s.frames[k].start \in Nat /\ FrameEnd(s.frames[k]) \in Nat
    BY FrameType
  <1>6. QED
    BY <1>2, <1>3, <1>4, <1>5

\* A reader that took exactly a header decodes the size of that frame.
LEMMA ExactHeader ==
    ASSUME NEW s \in Stream, Contiguous(s), NEW j \in DOMAIN s.frames,
           s.read = s.frames[j].start + HeaderSize
    PROVE  HeaderReadBy(s) = {j} /\ DecodedLengths(s) = {s.frames[j].size}
  <1>1. j \in HeaderReadBy(s)
    BY DEF HeaderReadBy
  <1>2. ASSUME NEW k \in HeaderReadBy(s) PROVE k = j
    <2>1. k \in DOMAIN s.frames /\ s.frames[k].start + HeaderSize = s.read
      BY <1>2 DEF HeaderReadBy
    <2>2. s.frames[k].start = s.frames[j].start
      BY <2>1, FrameType
    <2>3. QED
      BY <2>1, <2>2, FramesApart
  <1>3. HeaderReadBy(s) = {j}
    BY <1>1, <1>2
  <1>4. QED
    BY <1>3 DEF DecodedLengths

\* A reader that took exactly a payload has the payload of that frame.
LEMMA ExactPayload ==
    ASSUME NEW s \in Stream, Contiguous(s), NEW j \in DOMAIN s.frames,
           s.read = FrameEnd(s.frames[j])
    PROVE  PayloadReadBy(s, s.frames[j].size) = {j}
  <1> DEFINE whole == {k \in DOMAIN s.frames : /\ s.frames[k].size = s.frames[j].size
                                              /\ FrameEnd(s.frames[k]) = s.read}
  <1>1. j \in whole
    OBVIOUS
  <1>2. ASSUME NEW k \in whole PROVE k = j
    BY <1>2, FramesApart
  <1>3. whole = {j}
    BY <1>1, <1>2
  <1>4. QED
    BY <1>3 DEF PayloadReadBy

\* A frame begun where the last one ends leaves no gap.
LEMMA ContiguousBegin ==
    ASSUME NEW s \in Stream, Contiguous(s), NEW size \in Nat,
           s.written = Boundary(s, Len(s.frames))
    PROVE  Contiguous(BeginFrame(s, size))
  <1> DEFINE t == BeginFrame(s, size)
             n == Len(s.frames)
  <1>1. s.frames \in Seq(Frame) /\ n \in Nat
    BY DEF Stream
  <1>2. /\ t \in Stream
        /\ Len(t.frames) = n + 1
        /\ \A k \in 1 .. n : t.frames[k] = s.frames[k]
        /\ t.frames[n + 1] = [start |-> s.written, size |-> size]
    BY BeginFrameFacts
  <1>3. t.frames \in Seq(Frame)
    BY <1>2 DEF Stream
  <1>4. DOMAIN s.frames = 1 .. n /\ DOMAIN t.frames = 1 .. n + 1
    BY <1>1, <1>2, <1>3
  <1> HIDE DEF t, n
  <1>5. \A k \in 1 .. n : t.frames[k] = s.frames[k]
    BY <1>2
  <1>6. ASSUME NEW k \in 1 .. n + 1 PROVE t.frames[k].start = Boundary(t, k - 1)
    <2>1. CASE k \in 1 .. n
      <3>1. Boundary(t, k - 1) = Boundary(s, k - 1)
        BY <1>1, <1>5, <2>1 DEF Boundary
      <3>2. s.frames[k].start = Boundary(s, k - 1)
        BY <1>4, <2>1 DEF Contiguous
      <3>3. QED
        BY <1>5, <2>1, <3>1, <3>2
    <2>2. CASE k = n + 1
      <3>1. Boundary(t, n) = Boundary(s, n)
        BY <1>1, <1>5 DEF Boundary
      <3>2. t.frames[n + 1].start = s.written
        BY <1>2
      <3>3. QED
        BY <1>1, <2>2, <3>1, <3>2 DEF n
    <2>3. QED
      BY <1>1, <2>1, <2>2
  <1>7. ASSUME NEW j \in 1 .. n + 1, NEW k \in 1 .. n + 1, j < k
        PROVE  FrameEnd(t.frames[j]) <= t.frames[k].start
    <2>1. j \in 1 .. n
      BY <1>1, <1>7
    <2>2. CASE k \in 1 .. n
      BY <1>4, <1>5, <1>7, <2>1, <2>2 DEF Contiguous
    <2>3. CASE k = n + 1
      <3>1. n \in 1 .. n /\ Boundary(s, n) = FrameEnd(s.frames[n])
        BY <1>1, <2>1 DEF Boundary
      <3>2. FrameEnd(s.frames[j]) <= FrameEnd(s.frames[n])
        <4>a. /\ j \in DOMAIN s.frames /\ n \in DOMAIN s.frames
              /\ FrameEnd(s.frames[j]) \in Nat
          BY <1>4, <2>1, <3>1, FrameType
        <4>b. /\ s.frames[n].start \in Nat
              /\ FrameEnd(s.frames[n]) \in Nat
              /\ FrameEnd(s.frames[n]) >= s.frames[n].start
          BY <4>a, FrameEndBehindStart
        <4>1. CASE j = n
          BY <4>1, <4>b
        <4>2. CASE j < n
          <5>1. FrameEnd(s.frames[j]) <= s.frames[n].start
            BY <1>4, <2>1, <3>1, <4>2 DEF Contiguous
          <5>2. QED
            BY <4>a, <4>b, <5>1
        <4>3. j = n \/ j < n
          BY <1>1, <2>1
        <4>4. QED
          BY <4>1, <4>2, <4>3
      <3>3. t.frames[n + 1].start = s.written
        BY <1>2
      <3>4. QED
        BY <1>5, <2>1, <2>3, <3>1, <3>2, <3>3 DEF n
    <2>4. QED
      BY <1>1, <2>2, <2>3
  <1>8. QED
    BY <1>4, <1>6, <1>7 DEF Contiguous, t

-----------------------------------------------------------------------------
(* Types.                                                                   *)

\* The initial state has the types, and nothing written or read.
LEMMA TypeInit == Init => TypeOK /\ Bounded
  <1> SUFFICES ASSUME Init PROVE TypeOK /\ Bounded
    OBVIOUS
  <1>1. EmptyStream \in Stream
    BY DEF EmptyStream, Stream
  <1>2. << >> \in Seq(Nat) /\ << >> \in Seq(Outcome)
    OBVIOUS
  <1>3. HeaderSize \in Nat
    OBVIOUS
  <1>4. TypeOK
    BY <1>1, <1>2, <1>3 DEF Init, TypeOK, ClientBusy
  <1>5. Bounded
    BY DEF Init, Bounded, EmptyStream
  <1>6. QED
    BY <1>4, <1>5

\* Every step keeps the types, and reads and writes within their bounds.
LEMMA TypeStep == TypeOK /\ Bounded /\ [Next]_vars => TypeOK' /\ Bounded'
  <1> SUFFICES ASSUME TypeOK, Bounded, [Next]_vars PROVE TypeOK' /\ Bounded'
    OBVIOUS
  <1> USE DEF clientVars, sessionVars
  <1>a. /\ request \in Stream /\ response \in Stream
        /\ request.frames \in Seq(Frame) /\ response.frames \in Seq(Frame)
        /\ request.written \in Nat /\ request.read \in Nat
        /\ response.written \in Nat /\ response.read \in Nat
    BY DEF TypeOK, Stream
  <1>b. HeaderSize \in Nat /\ Failed \in Outcome
    BY DEF Failed, Garbage, Outcome
  <1>1. CASE UNCHANGED vars
    BY <1>1 DEF vars, TypeOK, Bounded, Available, Unwritten
  <1>2. ASSUME NEW size \in RequestSizes, Send(size) PROVE TypeOK' /\ Bounded'
    <2>1. size \in Nat
      OBVIOUS
    <2>2. /\ request' \in Stream
          /\ request'.read = request.read /\ request'.written = request.written
          /\ Len(request'.frames) = Len(request.frames) + 1
          /\ Unwritten(request') = HeaderSize + size
      BY <1>a, <1>2, <2>1, BeginFrameFacts DEF Send
    <2>3. TypeOK'
      BY <1>2, <2>2 DEF Send, TypeOK, ClientBusy
    <2>4. Bounded'
      BY <1>2, <1>a, <1>b, <2>1, <2>2 DEF Send, Bounded, TypeOK
    <2>5. QED
      BY <2>3, <2>4
  <1>3. CASE ClientWrite
    <2>1. /\ request' \in Stream
          /\ request'.frames = request.frames
          /\ request'.read = request.read
          /\ request'.written >= request.written
          /\ request'.written \in Nat
          /\ Unwritten(request') >= 0
      <3>1. Len(request.frames) > 0 /\ Unwritten(request) >= 0
        BY <1>3 DEF ClientWrite, Bounded
      <3>2. request \in Stream /\ Len(request.frames) \in DOMAIN request.frames
        BY <3>1, <1>a
      <3>3. FrameEnd(request.frames[Len(request.frames)]) \in Nat
        BY <3>2, FrameType
      <3>4. request' = WriteSome(request)
        BY <1>3 DEF ClientWrite
      <3>5. request'.written \in Nat
        BY <3>1, <3>4, <1>a, WriteSomeFacts DEF Stream
      <3>6. QED
        BY <3>1, <3>3, <3>4, <3>5, <1>a, WriteSomeFacts
    <2>2. TypeOK'
      BY <1>3, <2>1 DEF ClientWrite, TypeOK, ClientBusy
    <2>3. Bounded'
      BY <1>3, <1>a, <2>1 DEF ClientWrite, Bounded
    <2>4. QED
      BY <2>2, <2>3
  <1>4. CASE ClientWriteFails
    <2>1. TypeOK'
      BY <1>4, <1>b DEF ClientWriteFails, Return, TypeOK
    <2>2. Bounded'
      BY <1>4 DEF ClientWriteFails, Return, Bounded
    <2>3. QED
      BY <2>1, <2>2
  <1>5. CASE ClientReadHeader
    <2>1. /\ response' \in Stream
          /\ response'.frames = response.frames
          /\ response'.written = response.written
          /\ response'.read <= response.written
      BY <1>5, <1>a, <1>b, ReadSomeFacts DEF ClientReadHeader, Bounded
    <2>2. DecodedLengths(response') \subseteq Nat
      BY <2>1, DecodedLengthsType
    <2>3. TypeOK'
      <3>1. /\ clientState' \in {"idle", "awaitBody"}
            /\ replyLength' \in Nat
            /\ results' \in Seq(Outcome)
        <4>1. CASE Return(Failed) /\ UNCHANGED replyLength
          BY <4>1, <1>b DEF Return, TypeOK
        <4>2. CASE /\ replyLength' \in DecodedLengths(response')
                   /\ clientState' = "awaitBody"
                   /\ UNCHANGED results
          BY <4>2, <2>2 DEF TypeOK
        <4>3. QED
          BY <1>5, <4>1, <4>2 DEF ClientReadHeader
      <3>2. QED
        BY <1>5, <2>1, <3>1 DEF ClientReadHeader, TypeOK, ClientBusy
    <2>4. Bounded'
      BY <1>5, <2>1 DEF ClientReadHeader, Return, Bounded, Unwritten
    <2>5. QED
      BY <2>3, <2>4
  <1>6. CASE ClientReadBody
    <2>1. /\ response' \in Stream
          /\ response'.frames = response.frames
          /\ response'.written = response.written
          /\ response'.read <= response.written
      BY <1>6, <1>a, ReadSomeFacts DEF ClientReadBody, Bounded, TypeOK
    <2>2. PICK result \in Outcome : Return(result)
      <3>1. CASE Return(Failed)
        BY <3>1, <1>b
      <3>2. CASE ~Return(Failed)
        <4>1. PICK k \in PayloadReadBy(response', replyLength) :
                  Return(Unparsed) \/ (k # Garbage /\ Return(handled[k]))
          BY <1>6, <3>2 DEF ClientReadBody
        <4>2. k \in DOMAIN response.frames \cup {Garbage}
          BY <4>1, <2>1, PayloadReadByType
        <4>3. ASSUME k # Garbage PROVE handled[k] \in Nat
          <5>1. /\ Len(response.frames) \in Nat /\ Len(handled) \in Nat
                /\ Len(response.frames) <= Len(handled)
            BY <1>a DEF TypeOK, Bounded
          <5>2. k \in 1 .. Len(response.frames)
            BY <4>2, <4>3, <1>a
          <5>3. k \in 1 .. Len(handled)
            BY <5>1, <5>2
          <5>4. QED
            BY <5>3 DEF TypeOK
        <4>4. QED
          BY <4>1, <4>3 DEF Outcome
      <3>3. QED
        BY <3>1, <3>2
    <2>3. TypeOK'
      BY <1>6, <2>1, <2>2 DEF ClientReadBody, Return, TypeOK
    <2>4. Bounded'
      BY <1>6, <2>1, <2>2 DEF ClientReadBody, Return, Bounded, Unwritten
    <2>5. QED
      BY <2>3, <2>4
  <1>7. CASE ClientReceiveFails
    <2>1. TypeOK'
      BY <1>7, <1>b DEF ClientReceiveFails, Return, TypeOK
    <2>2. Bounded'
      BY <1>7 DEF ClientReceiveFails, Return, Bounded
    <2>3. QED
      BY <2>1, <2>2
  <1>8. CASE Close
    <2>1. TypeOK'
      BY <1>8 DEF Close, TypeOK
    <2>2. Bounded'
      BY <1>8 DEF Close, Bounded
    <2>3. QED
      BY <2>1, <2>2
  <1>9. CASE SessionRead
    <2>1. /\ request' \in Stream
          /\ request'.frames = request.frames
          /\ request'.written = request.written
          /\ request'.read <= request.written
          /\ need' \in Nat
      <3>1. need \in Nat /\ request.read <= request.written
        BY DEF TypeOK, Bounded
      <3>2. request' = ReadSome(request, need)
        BY <1>9 DEF SessionRead
      <3>3. Lesser(need, Available(request)) \in 0 .. need
        BY <1>a, <3>1, ReadSomeFacts
      <3>4. need' \in Nat
        BY <1>9, <3>1, <3>3 DEF SessionRead
      <3>5. QED
        BY <1>a, <3>1, <3>2, <3>4, ReadSomeFacts
    <2>2. TypeOK'
      BY <1>9, <2>1 DEF SessionRead, TypeOK
    <2>3. Bounded'
      BY <1>9, <2>1 DEF SessionRead, Bounded, Unwritten
    <2>4. QED
      BY <2>2, <2>3
  <1>10. CASE DecodeHeader
    <2>1. msgLength' \in Nat
      BY <1>10, <1>a, DecodedLengthsType DEF DecodeHeader
    <2>2. TypeOK'
      BY <1>10, <2>1 DEF DecodeHeader, TypeOK
    <2>3. Bounded'
      BY <1>10 DEF DecodeHeader, Bounded
    <2>4. QED
      BY <2>2, <2>3
  <1>h. ASSUME HandleRequest
        PROVE  /\ handled' \in Seq(Nat)
               /\ Len(handled') = Len(handled) + 1
    <2>1. PICK k \in PayloadReadBy(request, msgLength) : handled' = Append(handled, k)
      BY <1>h DEF HandleRequest
    <2>2. k \in Nat
      BY <2>1, <1>a, PayloadReadByType DEF Garbage
    <2>3. QED
      BY <2>1, <2>2 DEF TypeOK
  <1>11. ASSUME NEW size \in ResponseSizes, Dispatch(size) PROVE TypeOK' /\ Bounded'
    <2>1. size \in Nat
      OBVIOUS
    <2>2. /\ response' \in Stream
          /\ response'.read = response.read /\ response'.written = response.written
          /\ Len(response'.frames) = Len(response.frames) + 1
          /\ Unwritten(response') = HeaderSize + size
      BY <1>a, <1>11, <2>1, BeginFrameFacts DEF Dispatch
    <2>3. /\ handled' \in Seq(Nat)
          /\ Len(handled') = Len(handled) + 1
      BY <1>11, <1>h DEF Dispatch
    <2>4. TypeOK'
      BY <1>11, <2>2, <2>3 DEF Dispatch, TypeOK
    <2>5. Bounded'
      <3>1. Len(handled) \in Nat /\ Len(response.frames) \in Nat
        BY <1>a DEF TypeOK
      <3>2. QED
        BY <1>11, <1>a, <1>b, <2>1, <2>2, <2>3, <3>1 DEF Dispatch, Bounded
    <2>6. QED
      BY <2>4, <2>5
  <1>12. CASE DispatchThrows
    <2>1. /\ handled' \in Seq(Nat)
          /\ Len(handled') = Len(handled) + 1
      BY <1>12, <1>h DEF DispatchThrows
    <2>2. TypeOK'
      BY <1>12, <2>1 DEF DispatchThrows, End, TypeOK, SessionEnd
    <2>3. Bounded'
      <3>1. Len(handled) \in Nat /\ Len(response.frames) \in Nat
        BY <1>a DEF TypeOK
      <3>2. QED
        BY <1>12, <2>1, <3>1 DEF DispatchThrows, End, Bounded
    <2>4. QED
      BY <2>2, <2>3
  <1>13. CASE SessionReadFails
    <2>1. TypeOK'
      BY <1>13 DEF SessionReadFails, End, TypeOK, SessionEnd
    <2>2. Bounded'
      BY <1>13 DEF SessionReadFails, End, Bounded
    <2>3. QED
      BY <2>1, <2>2
  <1>14. CASE SessionWrite
    <2>1. /\ response' \in Stream
          /\ response'.frames = response.frames
          /\ response'.read = response.read
          /\ response'.written >= response.written
          /\ response'.written \in Nat
          /\ Unwritten(response') >= 0
      <3>1. Len(response.frames) > 0 /\ Unwritten(response) >= 0
        BY <1>14 DEF SessionWrite, Bounded
      <3>2. response \in Stream /\ Len(response.frames) \in DOMAIN response.frames
        BY <3>1, <1>a
      <3>3. FrameEnd(response.frames[Len(response.frames)]) \in Nat
        BY <3>2, FrameType
      <3>4. response' = WriteSome(response)
        BY <1>14 DEF SessionWrite
      <3>5. response'.written \in Nat
        BY <3>1, <3>4, <1>a, WriteSomeFacts DEF Stream
      <3>6. QED
        BY <3>1, <3>3, <3>4, <3>5, <1>a, WriteSomeFacts
    <2>2. TypeOK'
      BY <1>14, <1>b, <2>1 DEF SessionWrite, TypeOK
    <2>3. Bounded'
      BY <1>14, <1>a, <2>1 DEF SessionWrite, Bounded
    <2>4. QED
      BY <2>2, <2>3
  <1>15. CASE SessionWriteFails
    <2>1. TypeOK'
      BY <1>15 DEF SessionWriteFails, End, TypeOK, SessionEnd
    <2>2. Bounded'
      BY <1>15 DEF SessionWriteFails, End, Bounded
    <2>3. QED
      BY <2>1, <2>2
  <1>16. CASE SessionKilled
    <2>1. TypeOK'
      BY <1>16 DEF SessionKilled, End, TypeOK, SessionEnd
    <2>2. Bounded'
      BY <1>16 DEF SessionKilled, End, Bounded
    <2>3. QED
      BY <2>1, <2>2
  <1>17. QED
    BY <1>1, <1>2, <1>3, <1>4, <1>5, <1>6, <1>7, <1>8, <1>9, <1>10, <1>11,
       <1>12, <1>13, <1>14, <1>15, <1>16
       DEF Next, ClientStep, SessionStep, HandlerReturns

(***************************************************************************)
(* The variables keep their types: no offset runs backwards, no read takes *)
(* more than it asked for, and a reply is looked up only for a request     *)
(* that was handled.                                                       *)
(***************************************************************************)
THEOREM TypeCorrect == Spec => []TypeOK
  <1>1. Init => TypeOK /\ Bounded
    BY TypeInit
  <1>2. TypeOK /\ Bounded /\ [Next]_vars => (TypeOK /\ Bounded)'
    BY TypeStep
  <1>3. QED
    BY <1>1, <1>2, PTL DEF Spec, SafetySpec
-----------------------------------------------------------------------------
(* The server's place in the stream of requests.                            *)

ServerInv == TypeOK /\ Bounded /\ HandledInOrder /\ RequestPlace /\ ServerPlace

\* At the start nothing is on the stream and a header is awaited.
LEMMA ServerInit == Init => ServerInv
  <1> SUFFICES ASSUME Init PROVE ServerInv
    OBVIOUS
  <1>1. TypeOK /\ Bounded
    BY TypeInit
  <1>2. HandledInOrder
    BY DEF Init, HandledInOrder, EmptyStream
  <1>3. RequestPlace /\ ServerPlace
    BY DEF Init, RequestPlace, ServerPlace, EmptyStream, Contiguous, Boundary
  <1>4. QED
    BY <1>1, <1>2, <1>3 DEF ServerInv

\* At the end of a body the server holds the next request, and only that.
LEMMA HandleRequestFacts ==
    ASSUME ServerInv, HandleRequest
    PROVE  /\ handled' = Append(handled, Len(handled) + 1)
           /\ Len(handled) + 1 \in DOMAIN request.frames
           /\ FrameEnd(request.frames[Len(handled) + 1]) = request.read
  <1> DEFINE n == Len(handled)
  <1>1. /\ request \in Stream /\ request.frames \in Seq(Frame) /\ n \in Nat
        /\ request.read \in Nat
    BY DEF ServerInv, TypeOK, Stream
  <1>2. /\ Contiguous(request)
        /\ n < Len(request.frames)
        /\ msgLength = request.frames[n + 1].size
        /\ request.read + need = FrameEnd(request.frames[n + 1])
        /\ need = 0
    BY DEF ServerInv, RequestPlace, ServerPlace, HandleRequest, SessionOpen
  <1>3. n + 1 \in DOMAIN request.frames
    BY <1>1, <1>2
  <1>4. request.read = FrameEnd(request.frames[n + 1])
    BY <1>1, <1>2
  <1>5. PayloadReadBy(request, msgLength) = {n + 1}
    BY <1>1, <1>2, <1>3, <1>4, ExactPayload
  <1>6. QED
    BY <1>3, <1>4, <1>5 DEF HandleRequest

\* Every step keeps the order of the handled requests.
LEMMA HandledStep == ServerInv /\ [Next]_vars => HandledInOrder'
  <1> SUFFICES ASSUME ServerInv, [Next]_vars PROVE HandledInOrder'
    OBVIOUS
  <1> USE DEF clientVars, sessionVars
  <1>a. /\ request \in Stream /\ request.frames \in Seq(Frame)
        /\ request.written \in Nat /\ request.read \in Nat
        /\ request.read <= request.written
        /\ handled \in Seq(Nat)
        /\ Len(handled) \in Nat /\ Len(request.frames) \in Nat
        /\ Len(handled) <= Len(request.frames)
        /\ DOMAIN request.frames = 1 .. Len(request.frames)
        /\ DOMAIN handled = 1 .. Len(handled)
    BY DEF ServerInv, TypeOK, Bounded, HandledInOrder, Stream
  <1>b. \A k \in 1 .. Len(handled) :
           handled[k] = k /\ FrameEnd(request.frames[k]) <= request.written
    BY <1>a DEF ServerInv, HandledInOrder
  <1>1. ASSUME UNCHANGED handled, request'.frames = request.frames,
               request'.written >= request.written, request'.written \in Nat
        PROVE  HandledInOrder'
    <2>1. ASSUME NEW k \in 1 .. Len(handled)
          PROVE  FrameEnd(request.frames[k]) <= request'.written
      <3>1. FrameEnd(request.frames[k]) \in Nat
        BY <1>a, FrameType
      <3>2. QED
        BY <1>1, <1>a, <1>b, <3>1
    <2>2. QED
      BY <1>1, <1>a, <1>b, <2>1 DEF HandledInOrder
  <1>2. ASSUME NEW size \in RequestSizes, Send(size) PROVE HandledInOrder'
    <2>1. size \in Nat
      OBVIOUS
    <2>2. handled' = handled /\ request' = BeginFrame(request, size)
      BY <1>2 DEF Send
    <2>3. /\ request'.written = request.written
          /\ Len(request'.frames) = Len(request.frames) + 1
          /\ \A k \in 1 .. Len(request.frames) : request'.frames[k] = request.frames[k]
      <3>1. /\ BeginFrame(request, size).written = request.written
            /\ Len(BeginFrame(request, size).frames) = Len(request.frames) + 1
            /\ \A k \in 1 .. Len(request.frames) :
                   BeginFrame(request, size).frames[k] = request.frames[k]
        <4>1. request \in Stream
          BY <1>a
        <4>2. QED
          BY <4>1, <2>1, BeginFrameFacts
      <3>2. QED
        BY <2>2, <3>1, Zenon
    <2>4. \A k \in 1 .. Len(handled) : request'.frames[k] = request.frames[k]
      BY <1>a, <2>3
    <2>5. QED
      BY <1>a, <1>b, <2>2, <2>3, <2>4 DEF HandledInOrder
  <1>3. CASE ClientWrite
    <2>1. Len(request.frames) > 0 /\ Unwritten(request) >= 0
      BY <1>3 DEF ClientWrite, ServerInv, Bounded
    <2>2. /\ request'.frames = request.frames
          /\ request'.written >= request.written
          /\ request' \in Stream
      BY <1>3, <1>a, <2>1, WriteSomeFacts DEF ClientWrite
    <2>3. request'.written \in Nat
      BY <2>2 DEF Stream
    <2>4. QED
      BY <1>1, <1>3, <2>2, <2>3 DEF ClientWrite
  <1>4. CASE SessionRead
    <2>1. request'.frames = request.frames /\ request'.written = request.written
      BY <1>4, <1>a, ReadSomeFacts DEF SessionRead, ServerInv, TypeOK
    <2>2. QED
      BY <1>1, <1>4, <1>a, <2>1 DEF SessionRead
  <1>5. ASSUME HandleRequest, UNCHANGED request PROVE HandledInOrder'
    <2>1. /\ handled' = Append(handled, Len(handled) + 1)
          /\ Len(handled) + 1 \in DOMAIN request.frames
          /\ FrameEnd(request.frames[Len(handled) + 1]) = request.read
      BY <1>5, HandleRequestFacts
    <2>2. /\ Len(handled') = Len(handled) + 1
          /\ DOMAIN handled' = 1 .. Len(handled) + 1
          /\ \A k \in 1 .. Len(handled) : handled'[k] = handled[k]
          /\ handled'[Len(handled) + 1] = Len(handled) + 1
      BY <1>a, <2>1
    <2>3. Len(handled) + 1 <= Len(request.frames)
      BY <1>a, <2>1
    <2>4. ASSUME NEW k \in 1 .. Len(handled) + 1
          PROVE  handled'[k] = k /\ FrameEnd(request.frames[k]) <= request.written
      <3>1. CASE k \in 1 .. Len(handled)
        BY <1>b, <2>2, <3>1
      <3>2. CASE k = Len(handled) + 1
        BY <1>a, <2>1, <2>2, <3>2
      <3>3. QED
        BY <1>a, <3>1, <3>2
    <2>5. QED
      BY <1>5, <2>2, <2>3, <2>4 DEF HandledInOrder
  <1>6. CASE UNCHANGED << request, handled >>
    BY <1>1, <1>6, <1>a
  <1>7. QED
    BY <1>2, <1>3, <1>4, <1>5, <1>6
       DEF Next, ClientStep, SessionStep, HandlerReturns, vars,
           ClientWriteFails, ClientReadHeader, ClientReadBody, ClientReceiveFails,
           Close, DecodeHeader, Dispatch, DispatchThrows, SessionReadFails,
           SessionWrite, SessionWriteFails, SessionKilled

\* A session that has ended stays so.
LEMMA EndedStays == [Next]_vars /\ SessionOpen' => SessionOpen
  <1> SUFFICES ASSUME [Next]_vars, sessionState = "ended"
               PROVE  sessionState' = "ended"
    BY DEF SessionOpen
  <1> USE DEF clientVars, sessionVars
  <1>1. CASE ClientStep \/ Close \/ UNCHANGED vars
    BY <1>1 DEF vars, ClientStep, ClientWrite, ClientWriteFails, ClientReadHeader,
                ClientReadBody, ClientReceiveFails, Close
  <1>2. CASE \E size \in RequestSizes : Send(size)
    BY <1>2 DEF Send
  <1>3. CASE HandlerReturns
    BY <1>3 DEF HandlerReturns, Dispatch, DispatchThrows, HandleRequest
  <1>4. CASE SessionRead \/ DecodeHeader \/ SessionWrite
    BY <1>4 DEF SessionRead, DecodeHeader, SessionWrite
  <1>5. CASE SessionReadFails \/ SessionWriteFails \/ SessionKilled
    BY <1>5 DEF SessionReadFails, SessionWriteFails, SessionKilled, End
  <1>6. QED
    BY <1>1, <1>2, <1>3, <1>4, <1>5 DEF Next, SessionStep

\* Every step keeps the requests one behind the other.
LEMMA RequestPlaceStep == ServerInv /\ [Next]_vars => RequestPlace'
  <1> SUFFICES ASSUME ServerInv, [Next]_vars, SessionOpen' PROVE RequestPlace'
    BY DEF RequestPlace
  <1> USE DEF clientVars, sessionVars
  <1>a. /\ request \in Stream /\ request.frames \in Seq(Frame)
        /\ request.written \in Nat /\ request.read \in Nat
        /\ request.read <= request.written
        /\ Len(request.frames) \in Nat
        /\ DOMAIN request.frames = 1 .. Len(request.frames)
    BY DEF ServerInv, TypeOK, Bounded, Stream
  <1>b. SessionOpen
    BY EndedStays
  <1>c. /\ Contiguous(request)
        /\ request.written <= Boundary(request, Len(request.frames))
        /\ clientState \notin {"sending", "closed"} =>
               request.written = Boundary(request, Len(request.frames))
    BY <1>b DEF ServerInv, RequestPlace
  <1>1. ASSUME request'.frames = request.frames, request'.written = request.written,
               clientState' \notin {"sending", "closed"} =>
                   clientState \notin {"sending", "closed"}
        PROVE  RequestPlace'
    BY <1>1, <1>c DEF RequestPlace, Contiguous, Boundary
  <1>2. ASSUME NEW size \in RequestSizes, Send(size) PROVE RequestPlace'
    <2>1. size \in Nat
      OBVIOUS
    <2>2. request' = BeginFrame(request, size) /\ clientState' = "sending"
      BY <1>2 DEF Send
    <2>3. request.written = Boundary(request, Len(request.frames))
      BY <1>2, <1>c DEF Send
    <2>4. Contiguous(request')
      BY <1>a, <1>c, <2>1, <2>2, <2>3, ContiguousBegin
    <2>5. request'.written <= Boundary(request', Len(request'.frames))
      <3>1. /\ request' \in Stream
            /\ Len(request'.frames) = Len(request.frames) + 1
            /\ Unwritten(request') = HeaderSize + size
        BY <1>a, <2>1, <2>2, BeginFrameFacts
      <3>2. Len(request'.frames) \in DOMAIN request'.frames
        BY <1>a, <3>1 DEF Stream
      <3>3. FrameEnd(request'.frames[Len(request'.frames)]) \in Nat
        BY <3>1, <3>2, FrameType
      <3>4. request'.written \in Nat
        BY <3>1 DEF Stream
      <3>5. request'.written <= FrameEnd(request'.frames[Len(request'.frames)])
        BY <2>1, <3>1, <3>3, <3>4 DEF Unwritten
      <3>6. QED
        BY <1>a, <3>1, <3>5 DEF Boundary
    <2>6. QED
      BY <2>2, <2>4, <2>5 DEF RequestPlace
  <1>3. CASE ClientWrite
    <2>1. Len(request.frames) > 0 /\ Unwritten(request) >= 0
      BY <1>3 DEF ClientWrite, ServerInv, Bounded
    <2>2. request' = WriteSome(request)
      BY <1>3 DEF ClientWrite
    <2>3. /\ request' \in Stream
          /\ request'.frames = request.frames
          /\ request'.written <= FrameEnd(request.frames[Len(request.frames)])
          /\ Unwritten(request') =
                 FrameEnd(request.frames[Len(request.frames)]) - request'.written
      BY <1>a, <2>1, <2>2, WriteSomeFacts
    <2>4. Contiguous(request')
      BY <1>c, <2>3 DEF Contiguous, Boundary
    <2>5. /\ Boundary(request', Len(request'.frames)) =
                 FrameEnd(request.frames[Len(request.frames)])
          /\ FrameEnd(request.frames[Len(request.frames)]) \in Nat
          /\ request'.written \in Nat
      <3>1. Len(request.frames) \in DOMAIN request.frames
        BY <1>a, <2>1
      <3>2. QED
        BY <1>a, <2>1, <2>3, <3>1, FrameType DEF Boundary, Stream
    <2>6. clientState' # "sending" => Unwritten(request') = 0
      BY <1>3 DEF ClientWrite
    <2>7. QED
      BY <2>3, <2>4, <2>5, <2>6 DEF RequestPlace
  <1>4. CASE SessionRead
    <2>1. request'.frames = request.frames /\ request'.written = request.written
      BY <1>4, <1>a, ReadSomeFacts DEF SessionRead, ServerInv, TypeOK
    <2>2. QED
      BY <1>1, <1>4, <2>1 DEF SessionRead
  <1>5. CASE ClientWriteFails \/ ClientReceiveFails
    BY <1>5, <1>b DEF ClientWriteFails, ClientReceiveFails
  <1>6. CASE ClientReadHeader \/ ClientReadBody
    BY <1>1, <1>6 DEF ClientReadHeader, ClientReadBody, Return
  <1>7. CASE Close
    BY <1>1, <1>7 DEF Close
  <1>8. CASE UNCHANGED << request, clientState >>
    BY <1>1, <1>8
  <1>9. QED
    BY <1>2, <1>3, <1>4, <1>5, <1>6, <1>7, <1>8
       DEF Next, ClientStep, SessionStep, HandlerReturns, vars,
           DecodeHeader, Dispatch, DispatchThrows, SessionReadFails,
           SessionWrite, SessionWriteFails, SessionKilled

\* Every step leaves the server's reads aligned with the frames.
LEMMA ServerPlaceStep == ServerInv /\ [Next]_vars => ServerPlace'
  <1> SUFFICES ASSUME ServerInv, [Next]_vars PROVE ServerPlace'
    OBVIOUS
  <1> USE DEF clientVars, sessionVars
  <1> DEFINE n == Len(handled)
  <1>a. /\ request \in Stream /\ request.frames \in Seq(Frame)
        /\ request.written \in Nat /\ request.read \in Nat
        /\ request.read <= request.written
        /\ need \in Nat /\ msgLength \in Nat
        /\ handled \in Seq(Nat) /\ n \in Nat
        /\ n <= Len(request.frames) /\ Len(request.frames) \in Nat
        /\ DOMAIN request.frames = 1 .. Len(request.frames)
    BY DEF ServerInv, TypeOK, Bounded, HandledInOrder, Stream
  <1>b. ServerPlace
    BY DEF ServerInv
  <1>1. ASSUME UNCHANGED << sessionState, need, msgLength, handled >>,
               request'.frames = request.frames, request'.read = request.read
        PROVE  ServerPlace'
    BY <1>1, <1>b DEF ServerPlace, Boundary
  <1>2. ASSUME NEW size \in RequestSizes, Send(size) PROVE ServerPlace'
    <2>1. size \in Nat
      OBVIOUS
    <2>2. request' = BeginFrame(request, size)
      BY <1>2 DEF Send
    <2>3. UNCHANGED << sessionState, need, msgLength, handled >>
      BY <1>2 DEF Send
    <2>4. /\ request'.read = request.read
          /\ Len(request'.frames) = Len(request.frames) + 1
          /\ \A k \in 1 .. Len(request.frames) : request'.frames[k] = request.frames[k]
      <3>1. /\ BeginFrame(request, size).read = request.read
            /\ Len(BeginFrame(request, size).frames) = Len(request.frames) + 1
            /\ \A k \in 1 .. Len(request.frames) :
                   BeginFrame(request, size).frames[k] = request.frames[k]
        <4>1. request \in Stream
          BY <1>a
        <4>2. QED
          BY <4>1, <2>1, BeginFrameFacts
      <3>2. QED
        BY <2>2, <3>1, Zenon
    <2>5. Boundary(request', n) = Boundary(request, n)
      BY <1>a, <2>4 DEF Boundary
    <2>6. n < Len(request.frames) => request'.frames[n + 1] = request.frames[n + 1]
      BY <1>a, <2>4
    <2>7. n < Len(request.frames) => n < Len(request'.frames)
      BY <1>a, <2>4
    <2>8. request'.read = request.read
      BY <2>4
    <2>9. QED
      BY <1>b, <2>3, <2>5, <2>6, <2>7, <2>8 DEF ServerPlace
  <1>3. CASE ClientWrite
    <2>1. Len(request.frames) > 0 /\ Unwritten(request) >= 0
      BY <1>3 DEF ClientWrite, ServerInv, Bounded
    <2>2. request'.frames = request.frames /\ request'.read = request.read
      BY <1>3, <1>a, <2>1, WriteSomeFacts DEF ClientWrite
    <2>3. QED
      BY <1>1, <1>3, <2>2 DEF ClientWrite
  <1>4. CASE SessionRead
    <2>1. request' = ReadSome(request, need)
      BY <1>4 DEF SessionRead
    <2>2. /\ request'.frames = request.frames
          /\ request'.read = request.read + Lesser(need, Available(request))
          /\ Lesser(need, Available(request)) \in 0 .. need
      BY <1>a, <2>1, ReadSomeFacts
    <2>3. need' = need - Lesser(need, Available(request))
      BY <1>4 DEF SessionRead
    <2>4. request'.read + need' = request.read + need /\ need' <= need
      BY <1>a, <2>2, <2>3
    <2>5. UNCHANGED << sessionState, msgLength, handled >>
      BY <1>4 DEF SessionRead
    <2>6. sessionState # "writeResponse"
      BY <1>4 DEF SessionRead
    <2>7. need' \in Nat
      BY <1>a, <2>2, <2>3
    <2>8. QED
      BY <1>a, <1>b, <2>2, <2>4, <2>5, <2>6, <2>7 DEF ServerPlace, Boundary
  <1>5. CASE DecodeHeader
    <2>1. /\ sessionState = "readHeader" /\ need = 0
          /\ msgLength' \in DecodedLengths(request)
          /\ need' = msgLength' /\ sessionState' = "readBody"
          /\ UNCHANGED << request, handled >>
      BY <1>5 DEF DecodeHeader
    <2>2. /\ Contiguous(request)
          /\ request.written <= Boundary(request, Len(request.frames))
      BY <2>1 DEF ServerInv, RequestPlace, SessionOpen
    <2>3. Boundary(request, n) \in Nat
      BY <1>a, BoundaryType
    <2>4. request.read = Boundary(request, n) + HeaderSize
      BY <1>a, <1>b, <2>1, <2>3 DEF ServerPlace
    <2>5. n # Len(request.frames)
      BY <1>a, <2>2, <2>3, <2>4
    <2>6. n < Len(request.frames) /\ n + 1 \in DOMAIN request.frames
      BY <1>a, <2>5
    <2>7. request.frames[n + 1].start = Boundary(request, n)
      BY <1>a, <2>2, <2>6 DEF Contiguous
    <2>8. DecodedLengths(request) = {request.frames[n + 1].size}
      BY <1>a, <2>2, <2>4, <2>6, <2>7, ExactHeader
    <2>9. request.read + need' = FrameEnd(request.frames[n + 1])
      BY <1>a, <2>1, <2>3, <2>4, <2>6, <2>7, <2>8, FrameType
    <2>10. QED
      BY <2>1, <2>6, <2>8, <2>9 DEF ServerPlace
  <1>6. ASSUME NEW size \in ResponseSizes, Dispatch(size) PROVE ServerPlace'
    <2>1. HandleRequest /\ sessionState' = "writeResponse" /\ UNCHANGED request
      BY <1>6 DEF Dispatch
    <2>2. /\ handled' = Append(handled, n + 1)
          /\ FrameEnd(request.frames[n + 1]) = request.read
      BY <2>1, HandleRequestFacts
    <2>3. Len(handled') = n + 1
      BY <1>a, <2>2
    <2>4. request'.read = Boundary(request', Len(handled'))
      BY <1>a, <2>1, <2>2, <2>3 DEF Boundary
    <2>5. QED
      BY <2>1, <2>4 DEF ServerPlace
  <1>7. CASE SessionWrite
    <2>1. /\ sessionState = "writeResponse"
          /\ \/ sessionState' = "readHeader" /\ need' = HeaderSize
             \/ UNCHANGED << sessionState, need >>
          /\ UNCHANGED << request, msgLength, handled >>
      BY <1>7 DEF SessionWrite
    <2>2. request.read = Boundary(request, n)
      BY <1>b, <2>1 DEF ServerPlace
    <2>3. CASE sessionState' = "readHeader" /\ need' = HeaderSize
      BY <1>a, <2>1, <2>2, <2>3 DEF ServerPlace, Boundary
    <2>4. CASE UNCHANGED << sessionState, need >>
      BY <1>1, <2>1, <2>4
    <2>5. QED
      BY <2>1, <2>3, <2>4
  <1>8. CASE sessionState' = "ended"
    BY <1>8 DEF ServerPlace
  <1>9. CASE UNCHANGED << request, sessionState, need, msgLength, handled >>
    BY <1>1, <1>9
  <1>10. QED
    BY <1>2, <1>3, <1>4, <1>5, <1>6, <1>7, <1>8, <1>9
       DEF Next, ClientStep, SessionStep, HandlerReturns, vars, End,
           ClientWriteFails, ClientReadHeader, ClientReadBody, ClientReceiveFails,
           Close, DispatchThrows, SessionReadFails, SessionWriteFails, SessionKilled

\* The server's invariant is inductive.
LEMMA ServerStep == ServerInv /\ [Next]_vars => ServerInv'
  BY TypeStep, HandledStep, RequestPlaceStep, ServerPlaceStep DEF ServerInv

(***************************************************************************)
(* The request handler is called for each request once, in order, and on   *)
(* all of its bytes, for every size of message and buffer and whatever the *)
(* client does.                                                            *)
(***************************************************************************)
THEOREM HandledInOrderCorrect == Spec => []HandledInOrder
  <1>1. ServerInv => HandledInOrder
    BY DEF ServerInv
  <1>2. QED
    BY ServerInit, ServerStep, <1>1, PTL DEF Spec, SafetySpec

(***************************************************************************)
(* The server's exact reads keep its place in the stream of requests,      *)
(* whatever the client does.                                               *)
(***************************************************************************)
THEOREM ServerPlaceCorrect == Spec => []ServerPlace
  <1>1. ServerInv => ServerPlace
    BY DEF ServerInv
  <1>2. QED
    BY ServerInit, ServerStep, <1>1, PTL DEF Spec, SafetySpec

-----------------------------------------------------------------------------
(* The client's place in the stream of responses.                           *)

ReplyInv == ServerInv /\ OneCall /\ ResponsePlace /\ ReplyPlace

\* At the start nobody called and nothing is on the stream.
LEMMA ReplyInit == Init => ReplyInv
  <1> SUFFICES ASSUME Init PROVE ReplyInv
    OBVIOUS
  <1>1. ServerInv
    BY ServerInit
  <1>2. OneCall
    BY DEF Init, OneCall, EmptyStream, ClientBusy
  <1>3. ResponsePlace
    BY DEF Init, ResponsePlace, EmptyStream, Contiguous, Boundary, SessionOpen
  <1>4. ReplyPlace
    BY DEF Init, ReplyPlace, ReplyMatches, AllAnswered, ClientPlace, EmptyStream,
           Boundary
  <1>5. QED
    BY <1>1, <1>2, <1>3, <1>4 DEF ReplyInv

\* What a call that returns adds to the results.
LEMMA ReturnFacts ==
    ASSUME TypeOK, NEW r \in Outcome, Return(r)
    PROVE  /\ clientState' = "idle"
           /\ Len(results') = Len(results) + 1
           /\ DOMAIN results' = 1 .. Len(results) + 1
           /\ results'[Len(results) + 1] = r
           /\ \A i \in 1 .. Len(results) : results'[i] = results[i]
  <1>1. results \in Seq(Outcome) /\ results' = Append(results, r) /\ clientState' = "idle"
    BY DEF Return, TypeOK
  <1>2. QED
    BY <1>1

\* Every step keeps one call out at a time.
LEMMA OneCallStep == TypeOK /\ Bounded /\ OneCall /\ [Next]_vars => OneCall'
  <1> SUFFICES ASSUME TypeOK, Bounded, OneCall, [Next]_vars PROVE OneCall'
    OBVIOUS
  <1> USE DEF clientVars, sessionVars
  <1>a. /\ request \in Stream /\ response \in Stream
        /\ response.read <= response.written /\ request.read <= request.written
        /\ request.frames \in Seq(Frame) /\ Len(request.frames) \in Nat
        /\ results \in Seq(Outcome) /\ Len(results) \in Nat
    BY DEF TypeOK, Bounded, Stream
  <1>r. ASSUME clientState \in ClientBusy, UNCHANGED request, NEW r, Return(r)
        PROVE  OneCall'
    <2>1. clientState' = "idle" /\ Len(results') = Len(results) + 1
      BY <1>a, <1>r DEF Return
    <2>2. QED
      BY <1>r, <2>1 DEF OneCall, ClientBusy
  <1>1. ASSUME NEW size \in RequestSizes, Send(size) PROVE OneCall'
    <2>1. size \in Nat
      OBVIOUS
    <2>2. /\ Len(request'.frames) = Len(request.frames) + 1
          /\ clientState = "idle" /\ clientState' = "sending" /\ UNCHANGED results
      BY <1>a, <1>1, <2>1, BeginFrameFacts DEF Send
    <2>3. QED
      BY <2>2 DEF OneCall, ClientBusy
  <1>2. CASE ClientWrite
    <2>1. Len(request.frames) > 0 /\ Unwritten(request) >= 0
      BY <1>2 DEF ClientWrite, Bounded
    <2>2. request'.frames = request.frames
      BY <1>2, <1>a, <2>1, WriteSomeFacts DEF ClientWrite
    <2>3. QED
      BY <1>2, <2>2 DEF ClientWrite, OneCall, ClientBusy
  <1>3. CASE ClientWriteFails \/ ClientReceiveFails
    BY <1>3, <1>r DEF ClientWriteFails, ClientReceiveFails, ClientBusy
  <1>4. CASE ClientReadHeader
    <2>1. clientState = "awaitHeader" /\ UNCHANGED request
      BY <1>4 DEF ClientReadHeader
    <2>2. CASE Return(Failed)
      BY <1>r, <2>1, <2>2 DEF ClientBusy
    <2>3. CASE clientState' = "awaitBody" /\ UNCHANGED results
      BY <2>1, <2>3 DEF OneCall, ClientBusy
    <2>4. QED
      BY <1>4, <2>2, <2>3 DEF ClientReadHeader
  <1>5. CASE ClientReadBody
    BY <1>5, <1>r DEF ClientReadBody, ClientBusy
  <1>6. CASE Close
    BY <1>6 DEF Close, OneCall, ClientBusy
  <1>7. CASE SessionRead
    <2>1. request'.frames = request.frames /\ UNCHANGED clientVars
      BY <1>7, <1>a, ReadSomeFacts DEF SessionRead, TypeOK
    <2>2. QED
      BY <2>1 DEF OneCall
  <1>8. CASE UNCHANGED << request, clientVars >>
    BY <1>8 DEF OneCall
  <1>9. QED
    BY <1>1, <1>2, <1>3, <1>4, <1>5, <1>6, <1>7, <1>8
       DEF Next, ClientStep, SessionStep, HandlerReturns, vars,
           DecodeHeader, Dispatch, DispatchThrows, SessionReadFails,
           SessionWrite, SessionWriteFails, SessionKilled

\* Every step keeps the responses one behind the other.
LEMMA ResponsePlaceStep == ServerInv /\ ResponsePlace /\ [Next]_vars => ResponsePlace'
  <1> SUFFICES ASSUME ServerInv, ResponsePlace, [Next]_vars PROVE ResponsePlace'
    OBVIOUS
  <1> USE DEF clientVars, sessionVars
  <1> DEFINE n == Len(response.frames)
  <1>a. /\ response \in Stream /\ response.frames \in Seq(Frame)
        /\ response.written \in Nat /\ response.read \in Nat
        /\ response.read <= response.written
        /\ n \in Nat /\ DOMAIN response.frames = 1 .. n
        /\ replyLength \in Nat /\ HeaderSize \in Nat
        /\ handled \in Seq(Nat) /\ Len(handled) \in Nat
        /\ n <= Len(handled)
    BY DEF ServerInv, TypeOK, Bounded, Stream
  <1>n. \A k \in 1 .. n + 1 : k \in 1 .. n \/ k = n + 1
    <2>1. \A m \in Nat : \A k \in 1 .. m + 1 : k \in 1 .. m \/ k = m + 1
      OBVIOUS
    <2>2. QED
      BY <1>a, <2>1
  <1>1. ASSUME response'.frames = response.frames, response'.written = response.written,
               \/ UNCHANGED << sessionState, handled >>
               \/ sessionState = "readHeader" /\ sessionState' = "readBody" /\ UNCHANGED handled
               \/ sessionState' = "ended"
        PROVE  ResponsePlace'
    BY <1>1 DEF ResponsePlace, Contiguous, Boundary, SessionOpen
  <1>2. CASE ClientReadHeader \/ ClientReadBody
    <2>1. PICK m \in Nat : response' = ReadSome(response, m)
      BY <1>2, <1>a DEF ClientReadHeader, ClientReadBody
    <2>2. response'.frames = response.frames /\ response'.written = response.written
      BY <2>1, <1>a, ReadSomeFacts
    <2>3. UNCHANGED << sessionState, handled >>
      BY <1>2 DEF ClientReadHeader, ClientReadBody
    <2>4. QED
      BY <1>1, <2>2, <2>3
  <1>3. ASSUME NEW size \in ResponseSizes, Dispatch(size) PROVE ResponsePlace'
    <2>1. /\ response' = BeginFrame(response, size) /\ size \in Nat
          /\ HandleRequest
          /\ sessionState = "readBody" /\ sessionState' = "writeResponse"
      BY <1>3 DEF Dispatch, HandleRequest
    <2>2. handled' = Append(handled, Len(handled) + 1)
      BY <2>1, HandleRequestFacts
    <2>3. response.written = Boundary(response, n) /\ n = Len(handled)
      BY <2>1 DEF ResponsePlace, SessionOpen
    <2>4. Contiguous(response')
      BY <1>a, <2>1, <2>3, ContiguousBegin DEF ResponsePlace
    <2>5. /\ response' \in Stream
          /\ response'.written = response.written
          /\ Len(response'.frames) = n + 1
          /\ \A k \in 1 .. n : response'.frames[k] = response.frames[k]
          /\ response'.frames[n + 1] = [start |-> response.written, size |-> size]
      <3>1. /\ BeginFrame(response, size) \in Stream
            /\ BeginFrame(response, size).written = response.written
            /\ Len(BeginFrame(response, size).frames) = n + 1
            /\ \A k \in 1 .. n :
                   BeginFrame(response, size).frames[k] = response.frames[k]
            /\ BeginFrame(response, size).frames[n + 1] =
                   [start |-> response.written, size |-> size]
        <4>1. response \in Stream
          BY <1>a
        <4>2. QED
          BY <4>1, <2>1, BeginFrameFacts
      <3>2. QED
        BY <2>1, <3>1, Zenon
    <2>6. /\ response'.frames[n + 1].start = response.written
          /\ response'.frames[n + 1].size = size
      BY <2>5
    <2>7. DOMAIN response'.frames = 1 .. n + 1 /\ Len(handled') = n + 1
      BY <1>a, <2>2, <2>3, <2>5 DEF Stream
    <2>8. \A k \in 1 .. n + 1 : response'.frames[k].size \in ResponseSizes
      <3>1. \A k \in 1 .. n : response.frames[k].size \in ResponseSizes
        BY <1>a DEF ResponsePlace
      <3>2. ASSUME NEW k \in 1 .. n + 1 PROVE response'.frames[k].size \in ResponseSizes
        <4>1. CASE k \in 1 .. n
          <5>1. response'.frames[k] = response.frames[k]
            BY <2>5, <4>1
          <5>2. QED
            BY <3>1, <4>1, <5>1, Zenon
        <4>2. CASE k = n + 1
          BY <2>6, <4>2, Zenon
        <4>3. QED
          BY <1>n, <4>1, <4>2
      <3>3. QED
        BY <3>2
    <2>9. response'.written <= Boundary(response', n + 1)
      <3>1. FrameEnd(response'.frames[n + 1]) = response.written + HeaderSize + size
        BY <2>6 DEF FrameEnd
      <3>2. QED
        BY <1>a, <2>1, <2>5, <3>1 DEF Boundary
    <2>10. ASSUME ResponsesFit, NEW k \in 1 .. n + 1
           PROVE  \/ response'.written <= response'.frames[k].start
                  \/ response'.written >= FrameEnd(response'.frames[k])
      <3>1. CASE k \in 1 .. n
        <4>1. \/ response.written <= response.frames[k].start
              \/ response.written >= FrameEnd(response.frames[k])
          BY <1>a, <2>10, <3>1 DEF ResponsePlace
        <4>2. response'.frames[k] = response.frames[k] /\ response'.written = response.written
          BY <2>5, <3>1
        <4>3. QED
          BY <4>1, <4>2, Zenon
      <3>2. CASE k = n + 1
        BY <1>a, <2>5, <2>6, <3>2
      <3>3. QED
        BY <1>n, <3>1, <3>2
    <2>11. QED
      BY <1>a, <2>1, <2>4, <2>5, <2>6, <2>7, <2>8, <2>9, <2>10
         DEF ResponsePlace, SessionOpen
  <1>4. CASE SessionWrite
    <2>1. /\ sessionState = "writeResponse"
          /\ response' = WriteSome(response)
          /\ UNCHANGED handled
          /\ sessionState' # sessionState =>
                 sessionState' = "readHeader" /\ Unwritten(response') = 0
      BY <1>4 DEF SessionWrite
    <2>2. n > 0 /\ Unwritten(response) >= 0
      BY <2>1 DEF ServerInv, Bounded
    <2>3. n \in DOMAIN response.frames
      BY <1>a, <2>2
    <2>4. /\ response' \in Stream
          /\ response'.frames = response.frames
          /\ response'.written >= response.written
          /\ response'.written <= FrameEnd(response.frames[n])
          /\ Unwritten(response) <= Chunk =>
                 response'.written = FrameEnd(response.frames[n])
          /\ Unwritten(response') = FrameEnd(response.frames[n]) - response'.written
      BY <1>a, <2>1, <2>2, WriteSomeFacts
    <2>5. /\ response'.written \in Nat
          /\ FrameEnd(response.frames[n]) \in Nat
          /\ response.frames[n].start \in Nat
          /\ response.frames[n].size \in Nat
          /\ FrameEnd(response.frames[n]) =
                 response.frames[n].start + HeaderSize + response.frames[n].size
      BY <2>3, <2>4, <1>a, FrameType DEF Stream
    <2>6. response.written >= response.frames[n].start
      BY <2>2 DEF ResponsePlace
    <2>7. ASSUME ResponsesFit, NEW k \in 1 .. n
          PROVE  response'.written >= FrameEnd(response.frames[k])
      <3>1. CASE k = n
        <4>1. HeaderSize + response.frames[n].size <= Chunk
          BY <2>3, <2>7 DEF ResponsesFit, ResponsePlace
        <4>2. Unwritten(response) <= Chunk
          <5>1. Unwritten(response) = FrameEnd(response.frames[n]) - response.written
            BY DEF Unwritten
          <5>2. response.written \in Nat
            BY <1>a
          <5>3. \A e, b, z, w \in Nat :
                    e = b + HeaderSize + z /\ w >= b /\ HeaderSize + z <= Chunk
                        => e - w <= Chunk
            OBVIOUS
          <5>4. FrameEnd(response.frames[n]) - response.written <= Chunk
            BY ONLY <2>5, <2>6, <4>1, <5>2, <5>3
          <5>5. QED
            BY <5>1, <5>4, Zenon
        <4>3. QED
          BY <2>4, <2>5, <3>1, <4>2
      <3>2. CASE k < n
        <4>1. FrameEnd(response.frames[k]) <= response.frames[n].start
          BY <1>a, <2>3, <3>2 DEF ResponsePlace, Contiguous
        <4>2. k \in DOMAIN response.frames
          BY <1>a
        <4>3. FrameEnd(response.frames[k]) \in Nat
          BY <1>a, <4>2, FrameType
        <4>4. response.written \in Nat /\ response'.written >= response.written
          BY <1>a, <2>4
        <4>5. QED
          BY <2>5, <2>6, <4>1, <4>3, <4>4
      <3>3. QED
        BY <1>a, <3>1, <3>2
    <2>8. Boundary(response, n) = FrameEnd(response.frames[n])
      BY <2>2 DEF Boundary
    <2>9. /\ Contiguous(response')
          /\ Boundary(response', n) = Boundary(response, n)
      BY <2>4 DEF ResponsePlace, Contiguous, Boundary
    <2>10. sessionState' \in {"readHeader", "readBody"} =>
               response'.written = Boundary(response', n)
      BY <2>1, <2>4, <2>5, <2>8, <2>9
    <2>11. response'.written >= response.frames[n].start
      <3>1. response.written \in Nat /\ response'.written >= response.written
        BY <1>a, <2>4
      <3>2. QED
        BY <2>5, <2>6, <3>1
    <2>12. n = Len(handled)
      BY <2>1 DEF ResponsePlace, SessionOpen
    <2>13. QED
      BY <1>a, <2>1, <2>4, <2>7, <2>8, <2>9, <2>10, <2>11, <2>12 DEF ResponsePlace
  <1>5. CASE sessionState' = "ended" /\ UNCHANGED response
    BY <1>1, <1>5
  <1>6. CASE DecodeHeader
    BY <1>1, <1>6 DEF DecodeHeader
  <1>7. CASE UNCHANGED << response, sessionState, handled >>
    BY <1>1, <1>7
  <1>8. QED
    BY <1>2, <1>3, <1>4, <1>5, <1>6, <1>7
       DEF Next, ClientStep, SessionStep, HandlerReturns, vars, End,
           Send, ClientWrite, ClientWriteFails, ClientReceiveFails, Close,
           SessionRead, DispatchThrows, SessionReadFails, SessionWriteFails,
           SessionKilled

\* A client in its place, whose reply has begun to arrive, waits for the
\* next response on the stream; if responses fit, all of it is there.
LEMMA ReplyArriving ==
    ASSUME ReplyInv, ClientPlace, Available(response) > 0,
           clientState \in {"awaitHeader", "awaitBody"}
    PROVE  /\ Len(results) + 1 \in DOMAIN response.frames
           /\ Len(results) + 1 \in DOMAIN handled
           /\ ResponsesFit =>
                  response.written >= FrameEnd(response.frames[Len(results) + 1])
  <1> DEFINE n == Len(results)
             m == Len(response.frames)
  <1>1. /\ response \in Stream /\ response.frames \in Seq(Frame)
        /\ response.written \in Nat /\ response.read \in Nat
        /\ n \in Nat /\ m \in Nat /\ DOMAIN response.frames = 1 .. m
        /\ Len(handled) \in Nat /\ DOMAIN handled = 1 .. Len(handled)
        /\ m <= Len(handled)
    BY DEF ReplyInv, ServerInv, TypeOK, Bounded, Stream
  <1>2. /\ Contiguous(response)
        /\ response.written <= Boundary(response, m)
        /\ ResponsesFit =>
               \A k \in DOMAIN response.frames :
                   \/ response.written <= response.frames[k].start
                   \/ response.written >= FrameEnd(response.frames[k])
    BY DEF ReplyInv, ResponsePlace
  <1>3. response.written > response.read
    BY <1>1 DEF Available
  <1>4. CASE clientState = "awaitHeader"
    <2>1. n <= m /\ response.read = Boundary(response, n)
      BY <1>4 DEF ClientPlace
    <2>2. n # m
      BY <1>1, <1>2, <1>3, <2>1
    <2>3. n + 1 \in 1 .. m
      <3>1. \A i, j \in Nat : i <= j /\ i # j => i + 1 \in 1 .. j
        OBVIOUS
      <3>2. QED
        BY <1>1, <2>1, <2>2, <3>1
    <2>4. response.frames[n + 1].start = Boundary(response, n)
      BY <1>1, <1>2, <2>3 DEF Contiguous
    <2>5. ~(response.written <= response.frames[n + 1].start)
      BY <1>1, <1>3, <2>1, <2>4
    <2>6. n + 1 \in DOMAIN handled
      <3>1. \A h \in Nat : m <= h => n + 1 \in 1 .. h
        BY <1>1, <2>3
      <3>2. QED
        BY <1>1, <3>1
    <2>7. QED
      BY <1>1, <1>2, <2>3, <2>5, <2>6
  <1>5. CASE clientState = "awaitBody"
    <2>1. n < m
      BY <1>5 DEF ClientPlace
    <2>2. ResponsesFit => response.written >= FrameEnd(response.frames[n + 1])
      BY <1>5 DEF ClientPlace
    <2>3. n + 1 \in 1 .. m /\ n + 1 \in 1 .. Len(handled)
      <3>1. \A h, i, j \in Nat : i < j /\ j <= h => i + 1 \in 1 .. j /\ i + 1 \in 1 .. h
        OBVIOUS
      <3>2. QED
        BY <1>1, <2>1, <3>1
    <2>4. QED
      BY <1>1, <2>2, <2>3
  <1>6. QED
    BY <1>4, <1>5

\* Every step of a careful client keeps its place, or makes it give up.
LEMMA ReplyPlaceStep == ReplyInv /\ [Next]_vars => ReplyPlace'
  <1> SUFFICES ASSUME ReplyInv, [Next]_vars, Careful PROVE ReplyPlace'
    BY DEF ReplyPlace, Careful, ResponsesFit
  <1> USE DEF clientVars, sessionVars
  <1> DEFINE n == Len(results)
             m == Len(response.frames)
  <1>a. /\ response \in Stream /\ response.frames \in Seq(Frame)
        /\ response.written \in Nat /\ response.read \in Nat
        /\ response.read <= response.written
        /\ m \in Nat /\ DOMAIN response.frames = 1 .. m
        /\ replyLength \in Nat /\ HeaderSize \in Nat
        /\ results \in Seq(Outcome) /\ n \in Nat /\ DOMAIN results = 1 .. n
    BY DEF ReplyInv, ServerInv, TypeOK, Bounded, Stream
  <1>b. /\ ReplyMatches
        /\ \/ AllAnswered /\ ClientPlace
           \/ ~AllAnswered /\ GivenUp
    BY DEF ReplyInv, ReplyPlace
  <1>c. SessionOpen' => SessionOpen
    BY EndedStays
  <1>d. Failed \in Outcome /\ Unparsed # Failed /\ \A i \in 1 .. n + 1 : i # Failed
    BY <1>a DEF Failed, Garbage, Unparsed, Outcome
  <1>e. \A k \in 1 .. n + 1 : k \in 1 .. n \/ k = n + 1
    <2>1. \A j \in Nat : \A k \in 1 .. j + 1 : k \in 1 .. j \/ k = j + 1
      OBVIOUS
    <2>2. QED
      BY <1>a, <2>1
  \* The results do not change, and no reply is read.
  <1>1. ASSUME UNCHANGED results,
               ClientPlace => ClientPlace',
               ~AllAnswered /\ GivenUp => GivenUp'
        PROVE  ReplyPlace'
    BY <1>1, <1>b DEF ReplyPlace, ReplyMatches, AllAnswered
  \* A call returns an error.
  <1>2. ASSUME Return(Failed),
               (~ResponsesFit /\ ~ReuseAfterFailure) \/ ~SessionOpen'
        PROVE  ReplyPlace'
    <2>1. /\ clientState' = "idle"
          /\ DOMAIN results' = 1 .. n + 1
          /\ results'[n + 1] = Failed
          /\ \A i \in 1 .. n : results'[i] = results[i]
      BY <1>2, <1>d, ReturnFacts DEF ReplyInv, ServerInv
    <2>2. n + 1 \in 1 .. n + 1
      BY <1>a
    <2>3. ~AllAnswered'
      BY <1>d, <2>1, <2>2 DEF AllAnswered
    <2>4. ASSUME NEW i \in 1 .. n + 1 PROVE results'[i] \in {Failed, Unparsed, i}
      <3>1. CASE i \in 1 .. n
        <4>1. results[i] \in {Failed, Unparsed, i}
          BY <1>a, <1>b, <3>1 DEF ReplyMatches
        <4>2. QED
          BY <2>1, <3>1, <4>1
      <3>2. CASE i = n + 1
        BY <2>1, <3>2
      <3>3. QED
        BY <1>e, <3>1, <3>2
    <2>5. ReplyMatches'
      BY <2>1, <2>4 DEF ReplyMatches
    <2>6. GivenUp'
      BY <1>2, <2>1 DEF GivenUp
    <2>7. QED
      BY <2>3, <2>5, <2>6 DEF ReplyPlace
  <1>3. ASSUME NEW size \in RequestSizes, Send(size) PROVE ReplyPlace'
    <2>1. /\ clientState = "idle" /\ clientState' = "sending"
          /\ UNCHANGED << response, results, replyLength, sessionState >>
          /\ ReuseAfterFailure \/ \A i \in DOMAIN results : results[i] # Failed
      BY <1>3 DEF Send
    <2>2. ClientPlace => ClientPlace'
      BY <2>1 DEF ClientPlace, Boundary
    <2>3. ~AllAnswered /\ GivenUp => GivenUp'
      <3>1. ~AllAnswered => ReuseAfterFailure
        BY <1>b, <2>1 DEF AllAnswered, ReplyMatches
      <3>2. QED
        BY <2>1, <3>1 DEF GivenUp, SessionOpen
    <2>4. QED
      BY <1>1, <2>1, <2>2, <2>3
  <1>4. CASE ClientWrite
    <2>1. /\ clientState = "sending" /\ SessionOpen
          /\ clientState' \in {"sending", "awaitHeader"}
          /\ UNCHANGED << response, results, replyLength, sessionState >>
      BY <1>4 DEF ClientWrite
    <2>2. ClientPlace => ClientPlace'
      BY <2>1 DEF ClientPlace, Boundary
    <2>3. ~GivenUp
      BY <2>1 DEF GivenUp
    <2>4. QED
      BY <1>1, <2>1, <2>2, <2>3
  <1>5. CASE ClientWriteFails \/ ClientReceiveFails
    <2>1. Return(Failed) /\ ~SessionOpen /\ UNCHANGED sessionState
      BY <1>5 DEF ClientWriteFails, ClientReceiveFails
    <2>2. ~SessionOpen'
      BY <1>c, <2>1
    <2>3. QED
      BY <1>2, <2>1, <2>2
  <1>6. CASE ClientReadHeader
    <2>1. /\ clientState = "awaitHeader"
          /\ Available(response) > 0
          /\ response' = ReadSome(response, HeaderSize)
      BY <1>6 DEF ClientReadHeader
    <2>2. AllAnswered /\ ClientPlace
      BY <1>b, <2>1 DEF GivenUp
    <2>3. /\ n + 1 \in DOMAIN response.frames
          /\ ResponsesFit => response.written >= FrameEnd(response.frames[n + 1])
      BY <2>1, <2>2, ReplyArriving
    <2>4. /\ response.frames[n + 1].start \in Nat /\ response.frames[n + 1].size \in Nat
          /\ FrameEnd(response.frames[n + 1]) =
                 response.frames[n + 1].start + HeaderSize + response.frames[n + 1].size
      BY <1>a, <2>3, FrameType
    <2>5. response.read = response.frames[n + 1].start
      BY <2>1, <2>2, <2>3, <1>a DEF ClientPlace, ReplyInv, ResponsePlace, Contiguous
    <2>6. ResponsesFit => Available(response) >= HeaderSize
      <3>1. \A b, z, w \in Nat : w >= b + HeaderSize + z => w - b >= HeaderSize
        BY <1>a
      <3>2. QED
        BY <1>a, <2>3, <2>4, <2>5, <3>1 DEF Available
    <2>7. /\ response' \in Stream
          /\ response'.frames = response.frames
          /\ response'.written = response.written
          /\ response'.read = response.read + Lesser(HeaderSize, Available(response))
      BY <1>a, <2>1, ReadSomeFacts
    <2>8. CASE Available(response) < HeaderSize
      <3>1. Return(Failed)
        BY <1>6, <1>a, <2>8 DEF ClientReadHeader, Available
      <3>2. ~ResponsesFit
        BY <1>a, <2>6, <2>8 DEF Available
      <3>3. ~ReuseAfterFailure
        BY <3>2 DEF Careful
      <3>4. QED
        BY <1>2, <3>1, <3>2, <3>3
    <2>9. CASE ~(Available(response) < HeaderSize)
      <3>1. response'.read = response'.frames[n + 1].start + HeaderSize
        BY <1>a, <2>5, <2>7, <2>9 DEF Available, Lesser
      <3>2. Contiguous(response')
        BY <2>7 DEF Contiguous, Boundary, ReplyInv, ResponsePlace
      <3>3. n + 1 \in DOMAIN response'.frames
        BY <2>3, <2>7
      <3>4. /\ HeaderReadBy(response') = {n + 1}
            /\ DecodedLengths(response') = {response'.frames[n + 1].size}
        BY <2>7, <3>1, <3>2, <3>3, ExactHeader
      <3>5. /\ replyLength' = response.frames[n + 1].size
            /\ clientState' = "awaitBody"
            /\ UNCHANGED results
        <4>1. HeaderReadBy(response') # {}
          BY <3>4
        <4>2. /\ replyLength' \in DecodedLengths(response')
              /\ clientState' = "awaitBody"
              /\ UNCHANGED results
          BY <1>6, <2>9, <4>1 DEF ClientReadHeader
        <4>3. QED
          BY <2>7, <3>4, <4>2
      <3>6. n < m
        BY <1>a, <2>3
      <3>7. ClientPlace'
        BY <2>3, <2>7, <3>1, <3>5, <3>6 DEF ClientPlace, ResponsesFit
      <3>8. AllAnswered' /\ ReplyMatches'
        BY <1>b, <2>2, <3>5 DEF AllAnswered, ReplyMatches
      <3>9. QED
        BY <3>7, <3>8 DEF ReplyPlace
    <2>10. QED
      BY <2>8, <2>9
  <1>7. CASE ClientReadBody
    <2>1. /\ clientState = "awaitBody"
          /\ Available(response) > 0 \/ replyLength = 0
          /\ response' = ReadSome(response, replyLength)
      BY <1>7 DEF ClientReadBody
    <2>2. AllAnswered /\ ClientPlace
      BY <1>b, <2>1 DEF GivenUp
    <2>3. /\ n < m
          /\ replyLength = response.frames[n + 1].size
          /\ response.read = response.frames[n + 1].start + HeaderSize
          /\ ResponsesFit => response.written >= FrameEnd(response.frames[n + 1])
      BY <2>1, <2>2 DEF ClientPlace
    <2>4. n + 1 \in DOMAIN response.frames
      <3>1. \A i, j \in Nat : i < j => i + 1 \in 1 .. j
        OBVIOUS
      <3>2. QED
        BY <1>a, <2>3, <3>1
    <2>5. /\ response.frames[n + 1].start \in Nat /\ response.frames[n + 1].size \in Nat
          /\ FrameEnd(response.frames[n + 1]) =
                 response.frames[n + 1].start + HeaderSize + response.frames[n + 1].size
      BY <1>a, <2>4, FrameType
    <2>6. ResponsesFit => Available(response) >= replyLength
      <3>1. \A b, z, w \in Nat : w >= b + HeaderSize + z => w - (b + HeaderSize) >= z
        BY <1>a
      <3>2. QED
        BY <1>a, <2>3, <2>5, <3>1 DEF Available
    <2>7. /\ response' \in Stream
          /\ response'.frames = response.frames
          /\ response'.read = response.read + Lesser(replyLength, Available(response))
      BY <1>a, <2>1, ReadSomeFacts
    <2>8. CASE Available(response) < replyLength
      <3>1. Return(Failed)
        BY <1>7, <1>a, <2>8 DEF ClientReadBody, Available
      <3>2. ~ResponsesFit
        BY <1>a, <2>6, <2>8 DEF Available
      <3>3. ~ReuseAfterFailure
        BY <3>2 DEF Careful
      <3>4. QED
        BY <1>2, <3>1, <3>2, <3>3
    <2>9. CASE ~(Available(response) < replyLength)
      <3>1. response'.read = FrameEnd(response'.frames[n + 1])
        <4>1. Lesser(replyLength, Available(response)) = replyLength
          BY <1>a, <2>9 DEF Available, Lesser
        <4>2. response'.read = FrameEnd(response.frames[n + 1])
          BY <1>a, <2>3, <2>5, <2>7, <4>1
        <4>3. QED
          BY <2>7, <4>2
      <3>2. Contiguous(response')
        BY <2>7 DEF Contiguous, Boundary, ReplyInv, ResponsePlace
      <3>3. n + 1 \in DOMAIN response'.frames
        BY <2>4, <2>7
      <3>4. PayloadReadBy(response', replyLength) = {n + 1}
        BY <2>3, <2>7, <3>1, <3>2, <3>3, ExactPayload
      <3>5. handled[n + 1] = n + 1
        <4>1. n + 1 \in DOMAIN handled
          <5>1. m <= Len(handled) /\ Len(handled) \in Nat /\ DOMAIN handled = 1 .. Len(handled)
            BY DEF ReplyInv, ServerInv, TypeOK, Bounded
          <5>2. \A h, i, j \in Nat : i < j /\ j <= h => i + 1 \in 1 .. h
            OBVIOUS
          <5>3. QED
            BY <1>a, <2>3, <5>1, <5>2
        <4>2. QED
          BY <4>1 DEF ReplyInv, ServerInv, HandledInOrder
      <3>6. PICK r \in {n + 1, Unparsed} : Return(r)
        <4>1. Return(Unparsed) \/
                  \E k \in PayloadReadBy(response', replyLength) : Return(handled[k])
          BY <1>7, <2>9 DEF ClientReadBody
        <4>2. QED
          BY <3>4, <3>5, <4>1
      <3>7. /\ clientState' = "idle"
            /\ Len(results') = n + 1
            /\ DOMAIN results' = 1 .. n + 1
            /\ results'[n + 1] \in {n + 1, Unparsed}
            /\ \A i \in 1 .. n : results'[i] = results[i]
        <4>1. r \in Outcome
          BY <1>a, <3>6 DEF Outcome
        <4>2. QED
          BY <1>a, <3>6, <4>1, ReturnFacts DEF ReplyInv, ServerInv
      <3>8. AllAnswered'
        <4>1. ASSUME NEW i \in 1 .. n + 1 PROVE results'[i] \in {i, Unparsed}
          <5>1. CASE i \in 1 .. n
            BY <1>a, <2>2, <3>7, <5>1 DEF AllAnswered
          <5>2. CASE i = n + 1
            BY <3>7, <5>2
          <5>3. QED
            BY <1>e, <5>1, <5>2
        <4>2. QED
          BY <3>7, <4>1 DEF AllAnswered
      <3>9. ClientPlace'
        <4>1. response'.read = Boundary(response', n + 1)
          BY <1>a, <3>1 DEF Boundary
        <4>2. n + 1 <= Len(response'.frames)
          BY <1>a, <2>3, <2>7
        <4>3. QED
          BY <3>7, <4>1, <4>2 DEF ClientPlace
      <3>10. ReplyMatches'
        BY <3>8 DEF AllAnswered, ReplyMatches
      <3>11. QED
        BY <3>8, <3>9, <3>10 DEF ReplyPlace
    <2>10. QED
      BY <2>8, <2>9
  <1>8. CASE Close
    <2>1. /\ clientState' = "closed"
          /\ UNCHANGED << response, results, replyLength, sessionState >>
      BY <1>8 DEF Close
    <2>2. QED
      BY <1>1, <2>1 DEF ClientPlace, GivenUp, SessionOpen
  \* A step of the server: the client's variables do not change.
  <1>9. ASSUME UNCHANGED clientVars, response'.read = response.read,
               m <= Len(response'.frames), Len(response'.frames) \in Nat,
               \A k \in 1 .. m : response'.frames[k] = response.frames[k],
               response'.written >= response.written, response'.written \in Nat
        PROVE  ReplyPlace'
    <2>1. ~AllAnswered /\ GivenUp => GivenUp'
      BY <1>9, <1>c DEF GivenUp
    <2>2. ASSUME ClientPlace PROVE ClientPlace'
      <3>1. CASE clientState \in {"idle", "sending", "awaitHeader"}
        <4>1. n <= m /\ response.read = Boundary(response, n)
          BY <2>2, <3>1 DEF ClientPlace
        <4>2. Boundary(response', n) = Boundary(response, n)
          BY <1>9, <1>a, <4>1 DEF Boundary
        <4>3. n <= Len(response'.frames)
          BY <1>9, <1>a, <4>1
        <4>4. QED
          BY <1>9, <3>1, <4>1, <4>2, <4>3 DEF ClientPlace
      <3>2. CASE clientState = "awaitBody"
        <4>1. /\ n < m
              /\ replyLength = response.frames[n + 1].size
              /\ response.read = response.frames[n + 1].start + HeaderSize
              /\ ResponsesFit => response.written >= FrameEnd(response.frames[n + 1])
          BY <2>2, <3>2 DEF ClientPlace
        <4>2. n + 1 \in 1 .. m
          <5>1. \A i, j \in Nat : i < j => i + 1 \in 1 .. j
            OBVIOUS
          <5>2. QED
            BY <1>a, <4>1, <5>1
        <4>3. response'.frames[n + 1] = response.frames[n + 1]
          BY <1>9, <4>2
        <4>4. n < Len(response'.frames)
          BY <1>9, <1>a, <4>1
        <4>5. ResponsesFit => response'.written >= FrameEnd(response.frames[n + 1])
          <5>1. FrameEnd(response.frames[n + 1]) \in Nat
            BY <1>a, <4>2, FrameType
          <5>2. QED
            BY <1>9, <1>a, <4>1, <5>1
        <4>6. QED
          BY <1>9, <3>2, <4>1, <4>3, <4>4, <4>5 DEF ClientPlace, ResponsesFit
      <3>3. CASE clientState \notin {"idle", "sending", "awaitHeader", "awaitBody"}
        BY <1>9, <3>3 DEF ClientPlace
      <3>4. QED
        BY <3>1, <3>2, <3>3
    <2>3. QED
      BY <1>1, <1>9, <2>1, <2>2
  <1>10. ASSUME NEW size \in ResponseSizes, Dispatch(size) PROVE ReplyPlace'
    <2>1. response' = BeginFrame(response, size) /\ size \in Nat /\ UNCHANGED clientVars
      BY <1>10 DEF Dispatch
    <2>2. /\ BeginFrame(response, size).read = response.read
          /\ BeginFrame(response, size).written = response.written
          /\ Len(BeginFrame(response, size).frames) = m + 1
          /\ \A k \in 1 .. m : BeginFrame(response, size).frames[k] = response.frames[k]
      <3>1. response \in Stream
        BY <1>a
      <3>2. QED
        BY <3>1, <2>1, BeginFrameFacts
    <2>3. /\ response'.read = response.read
          /\ response'.written = response.written
          /\ Len(response'.frames) = m + 1
          /\ \A k \in 1 .. m : response'.frames[k] = response.frames[k]
      BY <2>1, <2>2, Zenon
    <2>4. /\ m <= Len(response'.frames) /\ Len(response'.frames) \in Nat
          /\ response'.written >= response.written /\ response'.written \in Nat
      BY <1>a, <2>3
    <2>5. QED
      BY <1>9, <2>1, <2>3, <2>4
  <1>11. CASE SessionWrite
    <2>1. response' = WriteSome(response) /\ UNCHANGED clientVars
      BY <1>11 DEF SessionWrite
    <2>2. Len(response.frames) > 0 /\ Unwritten(response) >= 0
      BY <1>11 DEF SessionWrite, ReplyInv, ServerInv, Bounded
    <2>3. /\ response' \in Stream
          /\ response'.read = response.read
          /\ response'.frames = response.frames
          /\ response'.written >= response.written
      BY <1>a, <2>1, <2>2, WriteSomeFacts
    <2>4. response'.written \in Nat
      BY <2>3 DEF Stream
    <2>5. m <= Len(response'.frames) /\ Len(response'.frames) \in Nat
      BY <1>a, <2>3
    <2>6. QED
      BY <1>9, <2>1, <2>3, <2>4, <2>5
  <1>12. CASE UNCHANGED << response, clientVars >>
    BY <1>9, <1>12, <1>a
  <1>13. QED
    BY <1>3, <1>4, <1>5, <1>6, <1>7, <1>8, <1>10, <1>11, <1>12
       DEF Next, ClientStep, SessionStep, HandlerReturns, vars,
           SessionRead, DecodeHeader, DispatchThrows, SessionReadFails,
           SessionWriteFails, SessionKilled

\* The invariant of both ends is inductive.
LEMMA ReplyStep == ReplyInv /\ [Next]_vars => ReplyInv'
  BY ServerStep, OneCallStep, ResponsePlaceStep, ReplyPlaceStep DEF ReplyInv, ServerInv

(***************************************************************************)
(* A careful client is in its place in the stream of responses, or it has  *)
(* given up and takes nothing more from it.                                *)
(***************************************************************************)
THEOREM ReplyPlaceCorrect == Spec => []ReplyPlace
  <1>1. ReplyInv => ReplyPlace
    BY DEF ReplyInv
  <1>2. QED
    BY ReplyInit, ReplyStep, <1>1, PTL DEF Spec, SafetySpec

(***************************************************************************)
(* A call returns an error or the reply to its own request, if every       *)
(* response becomes readable as a whole, or if the application does not    *)
(* use a SyncClient again after a failed write or read.                    *)
(***************************************************************************)
THEOREM ReplyMatchesCorrect == Careful => (Spec => []ReplyMatches)
  <1> SUFFICES ASSUME Careful PROVE Spec => []ReplyMatches
    OBVIOUS
  <1>1. ReplyInv => ReplyMatches
    BY DEF ReplyInv, ReplyPlace
  <1>2. QED
    BY ReplyInit, ReplyStep, <1>1, PTL DEF Spec, SafetySpec

(***************************************************************************)
(* If every response becomes readable as a whole, a write or a read of a   *)
(* call fails only when the server's session is over; every other call     *)
(* took a whole reply off the stream, which the parser may still reject.   *)
(***************************************************************************)
THEOREM FailureMeansServerGoneCorrect ==
    ResponsesFit => (Spec => []FailureMeansServerGone)
  <1> SUFFICES ASSUME ResponsesFit PROVE Spec => []FailureMeansServerGone
    OBVIOUS
  <1>1. ReplyInv => FailureMeansServerGone
    <2> SUFFICES ASSUME ReplyInv, SessionOpen, NEW i \in DOMAIN results
                 PROVE  results[i] # Failed
      BY DEF FailureMeansServerGone
    <2>1. AllAnswered
      BY DEF ReplyInv, ReplyPlace, Careful, GivenUp
    <2>2. results[i] \in {i, Unparsed} /\ i \in Nat \ {0}
      BY <2>1 DEF AllAnswered, ReplyInv, ServerInv, TypeOK
    <2>3. QED
      BY <2>2 DEF Failed, Garbage, Unparsed
  <1>2. QED
    BY ReplyInit, ReplyStep, <1>1, PTL DEF Spec, SafetySpec

-----------------------------------------------------------------------------
(* The connection implements SyncCall.                                      *)

\* Every step of a careful client's connection is a step of SyncCall.
LEMMA PromiseStep ==
    Careful /\ ReplyInv /\ ReplyInv' /\ [Next]_vars => [Promise!Next]_Promise!vars
  <1> SUFFICES ASSUME Careful, ReplyInv, ReplyInv', [Next]_vars
               PROVE  [Promise!Next]_Promise!vars
    OBVIOUS
  <1> USE DEF clientVars, sessionVars
  <1>t. /\ request \in Stream /\ response \in Stream
        /\ results \in Seq(Outcome) /\ handled \in Seq(Nat)
        /\ need \in Nat /\ replyLength \in Nat
    BY DEF ReplyInv, ServerInv, TypeOK
  <1>b. /\ request.read <= request.written
        /\ response.read <= response.written
        /\ Len(response.frames) <= Len(handled)
    BY DEF ReplyInv, ServerInv, Bounded
  <1>q. request.frames \in Seq(Frame) /\ response.frames \in Seq(Frame)
    BY <1>t DEF Stream
  <1>l. /\ Len(request.frames) \in Nat
        /\ Len(response.frames) \in Nat /\ DOMAIN response.frames = 1 .. Len(response.frames)
        /\ Len(results) \in Nat
        /\ Len(handled) \in Nat /\ DOMAIN handled = 1 .. Len(handled)
    BY <1>t, <1>q
  <1>a. /\ request \in Stream /\ request.frames \in Seq(Frame)
        /\ request.read <= request.written
        /\ response \in Stream /\ response.frames \in Seq(Frame)
        /\ response.read <= response.written
        /\ Len(response.frames) \in Nat /\ DOMAIN response.frames = 1 .. Len(response.frames)
        /\ Len(response.frames) <= Len(handled)
        /\ Len(request.frames) \in Nat
        /\ results \in Seq(Outcome) /\ Len(results) \in Nat
        /\ handled \in Seq(Nat) /\ Len(handled) \in Nat /\ DOMAIN handled = 1 .. Len(handled)
        /\ need \in Nat /\ replyLength \in Nat
    BY <1>t, <1>b, <1>q, <1>l
  <1>s. ASSUME Len(request'.frames) = Len(request.frames), UNCHANGED << handled, results >>
        PROVE  UNCHANGED Promise!vars
    BY <1>s DEF Promise!vars
  <1>f. ASSUME clientState \in ClientBusy, UNCHANGED << request, handled >>, Return(Failed)
        PROVE  Promise!Next
    <2>1. Len(request.frames) = Len(results) + 1
      BY <1>f DEF ReplyInv, OneCall
    <2>2. results' = Append(results, 0)
      BY <1>f DEF Return, Failed, Garbage
    <2>3. Promise!Fail
      BY <1>a, <1>f, <2>1, <2>2 DEF Promise!Fail
    <2>4. QED
      BY <2>3 DEF Promise!Next
  <1>h. ASSUME HandleRequest, UNCHANGED << request, results >>
        PROVE  Promise!Next
    <2>1. /\ handled' = Append(handled, Len(handled) + 1)
          /\ Len(handled) + 1 \in DOMAIN request.frames
      BY <1>h, HandleRequestFacts DEF ReplyInv
    <2>2. Len(handled') = Len(handled) + 1 /\ Len(handled) < Len(request.frames)
      BY <1>a, <2>1
    <2>3. Promise!Handle
      BY <1>h, <2>2 DEF Promise!Handle
    <2>4. QED
      BY <2>3 DEF Promise!Next
  <1>1. ASSUME NEW size \in RequestSizes, Send(size) PROVE Promise!Next
    <2>1. size \in Nat
      OBVIOUS
    <2>2. /\ Len(request'.frames) = Len(request.frames) + 1
          /\ clientState = "idle" /\ UNCHANGED << handled, results >>
      BY <1>a, <1>1, <2>1, BeginFrameFacts DEF Send
    <2>3. Len(request.frames) = Len(results)
      BY <2>2 DEF ReplyInv, OneCall
    <2>4. Promise!Issue
      BY <2>2, <2>3 DEF Promise!Issue
    <2>5. QED
      BY <2>4 DEF Promise!Next
  <1>2. CASE ClientWrite
    <2>1. Len(request.frames) > 0 /\ Unwritten(request) >= 0
      BY <1>2 DEF ClientWrite, ReplyInv, ServerInv, Bounded
    <2>2. request'.frames = request.frames
      BY <1>2, <1>a, <2>1, WriteSomeFacts DEF ClientWrite
    <2>3. QED
      BY <1>2, <1>s, <2>2 DEF ClientWrite
  <1>3. CASE ClientWriteFails \/ ClientReceiveFails
    BY <1>3, <1>f DEF ClientWriteFails, ClientReceiveFails, ClientBusy
  <1>4. CASE ClientReadHeader
    <2>1. clientState \in ClientBusy /\ UNCHANGED << request, handled >>
      BY <1>4 DEF ClientReadHeader, ClientBusy
    <2>2. Return(Failed) \/ UNCHANGED results
      BY <1>4 DEF ClientReadHeader
    <2>3. QED
      BY <1>f, <1>s, <2>1, <2>2
  <1>5. CASE ClientReadBody
    <2>1. clientState \in ClientBusy /\ UNCHANGED << request, handled >>
      BY <1>5 DEF ClientReadBody, ClientBusy
    <2>2. CASE Return(Failed)
      BY <1>f, <2>1, <2>2
    <2>3. CASE ~Return(Failed) /\ ~Return(Unparsed)
      <3>1. PICK k \in PayloadReadBy(response', replyLength) :
                k # Garbage /\ Return(handled[k])
        BY <1>5, <2>3 DEF ClientReadBody
      <3>2. k # Garbage /\ Return(handled[k])
        BY <3>1
      <3>3. response' \in Stream /\ response'.frames = response.frames
        BY <1>5, <1>a, ReadSomeFacts DEF ClientReadBody
      <3>4. k \in 1 .. Len(handled)
        <4>1. k \in 1 .. Len(response.frames)
          BY <1>a, <3>1, <3>2, <3>3, PayloadReadByType
        <4>2. QED
          BY <1>a, <4>1
      <3>5. handled[k] = k
        BY <1>a, <3>4 DEF ReplyInv, ServerInv, HandledInOrder
      <3>6. results' = Append(results, k) /\ k \in Nat
        BY <1>a, <3>2, <3>4, <3>5 DEF Return
      <3>7. k = Len(results) + 1
        <4>1. ReplyMatches'
          BY DEF ReplyInv, ReplyPlace, Careful, ResponsesFit
        <4>2. /\ Len(results) + 1 \in DOMAIN results'
              /\ results'[Len(results) + 1] = k
          BY <1>a, <3>6
        <4>3. k \in {Failed, Unparsed, Len(results) + 1}
          BY <4>1, <4>2 DEF ReplyMatches
        <4>4. QED
          BY <1>a, <3>2, <3>6, <4>3 DEF Failed, Unparsed
      <3>8. Len(request.frames) = Len(results) + 1
        BY <2>1 DEF ReplyInv, OneCall
      <3>9. Promise!Succeed
        BY <1>a, <2>1, <3>4, <3>6, <3>7, <3>8 DEF Promise!Succeed
      <3>10. QED
        BY <3>9 DEF Promise!Next
    <2>4. CASE Return(Unparsed)
      <3>1. ClientPlace /\ clientState = "awaitBody"
        BY <1>5 DEF ClientReadBody, ReplyInv, ReplyPlace, GivenUp
      <3>2. Len(results) < Len(response.frames)
        BY <3>1 DEF ClientPlace
      <3>3. Len(results) + 1 <= Len(handled)
        BY <1>a, <3>2
      <3>4. Len(request.frames) = Len(results) + 1
        BY <2>1 DEF ReplyInv, OneCall
      <3>5. results' = Append(results, -1)
        BY <2>4 DEF Return, Unparsed
      <3>6. Promise!Reject
        BY <1>a, <2>1, <3>3, <3>4, <3>5 DEF Promise!Reject
      <3>7. QED
        BY <3>6 DEF Promise!Next
    <2>5. QED
      BY <2>2, <2>3, <2>4
  <1>6. CASE SessionRead
    <2>1. request'.frames = request.frames
      BY <1>6, <1>a, ReadSomeFacts DEF SessionRead
    <2>2. QED
      BY <1>6, <1>s, <2>1 DEF SessionRead
  <1>7. CASE HandlerReturns
    BY <1>7, <1>h DEF HandlerReturns, Dispatch, DispatchThrows
  <1>8. CASE UNCHANGED << request, handled, results >>
    BY <1>8, <1>s
  <1>9. QED
    BY <1>1, <1>2, <1>3, <1>4, <1>5, <1>6, <1>7, <1>8
       DEF Next, ClientStep, SessionStep, vars, Close, DecodeHeader,
           SessionReadFails, SessionWrite, SessionWriteFails, SessionKilled

(***************************************************************************)
(* A careful client's connection keeps the promise of sendRequest: one     *)
(* call at a time, each request handled at most once and in order, each    *)
(* reply behind the handling of its own request.                           *)
(***************************************************************************)
THEOREM ImplementsSyncCallCorrect == Careful => (Spec => ImplementsSyncCall)
  <1> SUFFICES ASSUME Careful PROVE Spec => ImplementsSyncCall
    OBVIOUS
  <1>1. Init => Promise!Init
    BY DEF Init, Promise!Init, EmptyStream
  <1>2. ReplyInv /\ ReplyInv' /\ [Next]_vars => [Promise!Next]_Promise!vars
    BY PromiseStep
  <1>3. QED
    BY ReplyInit, ReplyStep, <1>1, <1>2, PTL
       DEF Spec, SafetySpec, ImplementsSyncCall, Promise!Spec
=============================================================================
