------------------------------ MODULE SyncCall ------------------------------
(***************************************************************************)
(* What sendRequest promises its caller, with no sockets in it: calls are  *)
(* made one at a time, the server handles each request at most once and in *)
(* order, and a call returns the reply to its own request, the error that  *)
(* its own reply could not be parsed, or the error that nothing was        *)
(* received.  A call that failed so may have been handled, and may be      *)
(* handled later still.                                                    *)
(***************************************************************************)
EXTENDS Integers, Sequences

VARIABLES
    issued,     \* how many calls were made
    handled,    \* how many requests the server's handler was given
    results     \* of each finished call: its number, 0 if it failed, or -1
                \* if it could not parse what it was sent

vars == << issued, handled, results >>

Init == issued = 0 /\ handled = 0 /\ results = << >>

Issue ==
    /\ issued = Len(results)
    /\ issued' = issued + 1
    /\ UNCHANGED << handled, results >>

Handle ==
    /\ handled < issued
    /\ handled' = handled + 1
    /\ UNCHANGED << issued, results >>

\* Only a request that was handled has a reply.
Succeed ==
    /\ Len(results) < issued
    /\ issued <= handled
    /\ results' = Append(results, issued)
    /\ UNCHANGED << issued, handled >>

Fail ==
    /\ Len(results) < issued
    /\ results' = Append(results, 0)
    /\ UNCHANGED << issued, handled >>

\* A reply that cannot be parsed is still the reply to this request.
Reject ==
    /\ Len(results) < issued
    /\ issued <= handled
    /\ results' = Append(results, -1)
    /\ UNCHANGED << issued, handled >>

Next == Issue \/ Handle \/ Succeed \/ Fail \/ Reject

Spec == Init /\ [][Next]_vars
=============================================================================
