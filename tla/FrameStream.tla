---------------------------- MODULE FrameStream ----------------------------
(***************************************************************************)
(* One direction of a connected AF_UNIX stream socket, and the framing     *)
(* that the library puts on it: a length header of HeaderSize bytes, then  *)
(* that many bytes of payload.                                             *)
(*                                                                         *)
(* Bytes are not enumerated.  A stream is the list of frames put on it,    *)
(* each with the offset it starts at, and two offsets: how many bytes were *)
(* handed to the kernel and how many were taken out.  What a reader sees   *)
(* is decided by where its offset stands among the frames, so a reader     *)
(* that lost its place is a state of this model.                           *)
(***************************************************************************)
EXTENDS Integers, Sequences

CONSTANTS
    HeaderSize,     \* bytes of the length header (4 in the code)
    Chunk,          \* most bytes that one kernel-level write makes readable
    Capacity,       \* bytes in flight at which a writer blocks
    GarbageLengths  \* what HeaderSize bytes that are not a header may decode to

ASSUME FrameAssumption ==
    /\ HeaderSize \in Nat \ {0}
    /\ Chunk \in Nat /\ Chunk >= HeaderSize
    /\ Capacity \in Nat \ {0}
    /\ GarbageLengths \subseteq Nat /\ GarbageLengths # {}

\* Calls and requests are numbered from 1; 0 stands for "not a message".
Garbage == 0

Lesser(a, b) == IF a <= b THEN a ELSE b

Frame  == [start : Nat, size : Nat]
Stream == [frames : Seq(Frame), written : Nat, read : Nat]

EmptyStream == [frames |-> << >>, written |-> 0, read |-> 0]

FrameEnd(f) == f.start + HeaderSize + f.size

Available(s) == s.written - s.read

\* A writer of the next frame blocks while this is false.
HasRoom(s) == Available(s) < Capacity

BeginFrame(s, size) ==
    [s EXCEPT !.frames = Append(@, [start |-> s.written, size |-> size])]

Unwritten(s) == FrameEnd(s.frames[Len(s.frames)]) - s.written

\* write_some: as much as becomes readable at once.
WriteSome(s) == [s EXCEPT !.written = @ + Lesser(Chunk, Unwritten(s))]

\* read_some: whatever is there, up to n bytes.
ReadSome(s, n) == [s EXCEPT !.read = @ + Lesser(n, Available(s))]

(***************************************************************************)
(* The reader has just taken HeaderSize bytes and decodes them.  They are  *)
(* a header only if a frame starts where it began to read; otherwise they  *)
(* are payload bytes, and payload bytes decode to anything.                *)
(***************************************************************************)
HeaderReadBy(s) ==
    {k \in DOMAIN s.frames : s.frames[k].start + HeaderSize = s.read}

DecodedLengths(s) ==
    IF HeaderReadBy(s) = {} THEN GarbageLengths
    ELSE {s.frames[k].size : k \in HeaderReadBy(s)}

(***************************************************************************)
(* The reader has just taken `length` bytes as a payload: the number of    *)
(* the frame whose payload they are, or Garbage.                           *)
(***************************************************************************)
PayloadReadBy(s, length) ==
    LET whole == {k \in DOMAIN s.frames : /\ s.frames[k].size = length
                                          /\ FrameEnd(s.frames[k]) = s.read}
    IN  IF whole = {} THEN {Garbage} ELSE whole
=============================================================================
