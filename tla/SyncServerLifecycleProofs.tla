---------------------- MODULE SyncServerLifecycleProofs ----------------------
(***************************************************************************)
(* Theorems about SyncServerLifecycle, for every number of servers and     *)
(* clients, every length of the backlog, and, where nothing else is said,  *)
(* every number of starts.                                                 *)
(***************************************************************************)
EXTENDS SyncServerLifecycle, TLAPS

USE LifecycleAssumption

-----------------------------------------------------------------------------
(* Backlogs.                                                                *)

\* No client waits twice in the same backlog.
Distinct(q) == \A i, j \in 1 .. Len(q) : q[i] = q[j] => i = j

\* An empty backlog holds nobody.
LEMMA EmptyFacts == Distinct(<< >>) /\ \A c : ~Contains(<< >>, c)
  BY DEF Distinct, Contains

\* Joining a backlog: who is in it, and that nobody is in it twice.
LEMMA AppendFacts ==
    ASSUME NEW q \in Seq(Clients), NEW e \in Clients
    PROVE  /\ Append(q, e) \in Seq(Clients)
           /\ \A c : Contains(Append(q, e), c) <=> Contains(q, c) \/ c = e
           /\ Distinct(q) /\ ~Contains(q, e) => Distinct(Append(q, e))
  <1> DEFINE n == Len(q)
             r == Append(q, e)
  <1>1. /\ r \in Seq(Clients) /\ Len(r) = n + 1 /\ n \in Nat
        /\ r[n + 1] = e
        /\ \A i \in 1 .. n : r[i] = q[i]
    OBVIOUS
  <1> HIDE DEF r
  <1>2. \A i : i \in 1 .. n + 1 <=> i \in 1 .. n \/ i = n + 1
    BY <1>1
  <1>3. n + 1 \notin 1 .. n
    BY <1>1
  <1>4. ASSUME NEW c PROVE Contains(r, c) <=> Contains(q, c) \/ c = e
    BY <1>1, <1>2 DEF Contains
  <1>5. ASSUME Distinct(q), ~Contains(q, e) PROVE Distinct(r)
    <2>1. \A i \in 1 .. n : q[i] # e
      BY <1>5 DEF Contains
    <2>2. ASSUME NEW i \in 1 .. n + 1, NEW j \in 1 .. n + 1, r[i] = r[j] PROVE i = j
      <3>1. CASE i \in 1 .. n /\ j \in 1 .. n
        BY <1>1, <1>5, <2>2, <3>1 DEF Distinct
      <3>2. CASE i = n + 1 /\ j \in 1 .. n
        BY <1>1, <2>1, <2>2, <3>2
      <3>3. CASE i \in 1 .. n /\ j = n + 1
        BY <1>1, <2>1, <2>2, <3>3
      <3>4. QED
        BY <1>2, <2>2, <3>1, <3>2, <3>3
    <2>3. QED
      BY <1>1, <2>2 DEF Distinct
  <1>6. QED
    BY <1>1, <1>4, <1>5 DEF r

\* Accepting the first of a backlog: who is left in it.
LEMMA TailFacts ==
    ASSUME NEW q \in Seq(Clients), q # << >>
    PROVE  /\ Head(q) \in Clients /\ Tail(q) \in Seq(Clients)
           /\ \A c : Contains(q, c) <=> Contains(Tail(q), c) \/ c = Head(q)
           /\ Distinct(q) => Distinct(Tail(q)) /\ ~Contains(Tail(q), Head(q))
  <1>1. Head(q) \in Clients /\ Tail(q) \in Seq(Clients)
    OBVIOUS
  <1>2. Len(Tail(q)) = Len(q) - 1 /\ Len(q) \in Nat \ {0}
    OBVIOUS
  <1>3. \A i \in 1 .. Len(Tail(q)) : Tail(q)[i] = q[i + 1]
    OBVIOUS
  <1>4. Head(q) = q[1]
    OBVIOUS
  <1>5. \A i \in 1 .. Len(q) : i = 1 \/ (i - 1 \in 1 .. Len(Tail(q)) /\ q[i] = Tail(q)[i - 1])
    BY <1>2, <1>3
  <1>6. ASSUME NEW c PROVE Contains(q, c) <=> Contains(Tail(q), c) \/ c = Head(q)
    BY <1>2, <1>3, <1>4, <1>5 DEF Contains
  <1>7. ASSUME Distinct(q) PROVE Distinct(Tail(q)) /\ ~Contains(Tail(q), Head(q))
    BY <1>2, <1>3, <1>4, <1>7 DEF Distinct, Contains
  <1>8. QED
    BY <1>1, <1>6, <1>7
-----------------------------------------------------------------------------
(* The inductive invariant.                                                 *)

\* A connection has one place: in one backlog, once, or in one session.
Places ==
    /\ \A s \in Servers : Distinct(backlog[s])
    /\ \A s, t \in Servers, c \in Clients :
           Contains(backlog[s], c) /\ Contains(backlog[t], c) => s = t
    /\ \A s, t \in Servers :
           session[s] # NoOne => /\ session[t] = session[s] => s = t
                                 /\ ~Contains(backlog[t], session[s])
    /\ \A s \in Servers, c \in Clients :
           Contains(backlog[s], c) \/ session[s] = c => client[c] # "new"

\* A client that a handler waits with is that handler's alone.
InnerOwned ==
    /\ \A s \in Servers : inner[s] # NoOne => Calling(inner[s]) \/ client[inner[s]] = "idle"
    /\ \A s, t \in Servers : inner[s] # NoOne /\ inner[t] = inner[s] => s = t

\* Client c is served: its request was read, its response not yet written.
Answered(c) == \E s \in Servers : session[s] = c /\ Answering(s)

(***************************************************************************)
(* A client that has read every reply whole keeps its place: its call is   *)
(* in one stage, sent, being answered or answered, and between two calls   *)
(* there is nothing under way.                                             *)
(***************************************************************************)
InPlace ==
    \A c \in Clients :
        /\ client[c] = "new" => ~astray[c]
        /\ ~astray[c] =>
               /\ \/ client[c] \in {"waiting", "abandoned"}
                  \/ requests[c] = 0 /\ unread[c] = "nothing" /\ ~Answered(c)
               /\ requests[c] <= 1
               /\ requests[c] = 1 => unread[c] # "whole" /\ ~Answered(c)
               /\ Answered(c) => unread[c] # "whole"

\* Only a close inside a call, or behind a reply read in part, is a reset.
ResetInv ==
    \A c \in Clients : reset[c] =>
        client[c] = "abandoned" \/ (client[c] = "left" /\ astray[c])

\* What the end of a handler's frame does to the clients.
DismissEffect(s) ==
    /\ inner' = [inner EXCEPT ![s] = NoOne]
    /\ client' \in [Clients -> {"new", "idle", "blocked", "waiting", "left", "abandoned"}]
    /\ reset' \in [Clients -> BOOLEAN]
    /\ \A c \in Clients : c # inner[s] => client'[c] = client[c] /\ reset'[c] = reset[c]
    /\ \A c \in Clients : c = inner[s] =>
           /\ client'[c] = IF Calling(c) THEN "abandoned" ELSE "left"
           /\ reset'[c] => unread[c] # "nothing"

\* What a close does to the clients.
CloseEffect(c, how) ==
    /\ client' = [client EXCEPT ![c] = how]
    /\ reset' \in [Clients -> BOOLEAN]
    /\ \A d \in Clients : d # c => reset'[d] = reset[d]
    /\ reset'[c] => unread[c] # "nothing"

\* A close changes its client only.
LEMMA CloseFacts ==
    ASSUME TypeOK, NEW c \in Clients, NEW how, Close(c, how)
    PROVE  CloseEffect(c, how)
  <1>1. PICK r \in {FALSE, unread[c] # "nothing"} : reset' = [reset EXCEPT ![c] = r]
    BY DEF Close
  <1>2. r \in BOOLEAN /\ (r => unread[c] # "nothing")
    BY <1>1
  <1>3. reset' \in [Clients -> BOOLEAN] /\ reset'[c] = r
    BY <1>1, <1>2 DEF TypeOK
  <1>4. \A d \in Clients : d # c => reset'[d] = reset[d]
    BY <1>1 DEF TypeOK
  <1>5. QED
    BY <1>2, <1>3, <1>4 DEF Close, CloseEffect

\* A handler's frame takes its own client with it, and no other.
LEMMA DismissFacts ==
    ASSUME TypeOK, NEW s \in Servers, Dismiss(s)
    PROVE  DismissEffect(s)
  <1>1. CASE inner[s] = NoOne
    BY <1>1 DEF Dismiss, DismissEffect, TypeOK
  <1>2. CASE inner[s] # NoOne
    <2> DEFINE how == IF Calling(inner[s]) THEN "abandoned" ELSE "left"
    <2>1. inner[s] \in Clients /\ how \in {"left", "abandoned"}
      BY <1>2 DEF TypeOK
    <2>2. CloseEffect(inner[s], how)
      BY <1>2, <2>1, CloseFacts DEF Dismiss
    <2>3. inner' = [inner EXCEPT ![s] = NoOne]
      BY DEF Dismiss
    <2>4. QED
      BY <2>1, <2>2, <2>3 DEF CloseEffect, DismissEffect, TypeOK
  <1>3. QED
    BY <1>1, <1>2

\* The two ways a session ends: the server goes on, or start returns an error.
SessionCloses(s) ==
    /\ server[s] = "reading" /\ inner[s] = NoOne
    /\ server' = [server EXCEPT ![s] = "accepting"]
    /\ session' = [session EXCEPT ![s] = NoOne]
    /\ UNCHANGED << path, starts, outcome, backlog, inner, clientVars >>

SessionFails(s) ==
    /\ server[s] = "reading" /\ inner[s] = NoOne
    /\ reset[session[s]]
    /\ path' = NoOne
    /\ server' = [server EXCEPT ![s] = "stopped"]
    /\ outcome' = [outcome EXCEPT ![s] = "sessionError"]
    /\ session' = [session EXCEPT ![s] = NoOne]
    /\ UNCHANGED << starts, backlog, inner, clientVars >>

\* A session ends by closing, or by failing when the peer reset it.
LEMMA SessionEndsCases ==
    ASSUME TypeOK, NEW s \in Servers, SessionEnds(s)
    PROVE  SessionCloses(s) \/ SessionFails(s)
  <1>1. server[s] = "reading" /\ UNCHANGED << requests, unread, astray >>
    BY DEF SessionEnds
  <1>2. inner[s] = NoOne
    BY <1>1 DEF TypeOK
  <1>3. CASE reset[session[s]]
    <2>1. ReturnError(s, "sessionError")
      BY <1>3 DEF SessionEnds
    <2>2. UNCHANGED << inner, client, reset >>
      BY <1>2, <2>1 DEF ReturnError, Dismiss, TypeOK
    <2>3. QED
      BY <1>1, <1>2, <1>3, <2>1, <2>2 DEF ReturnError, SessionFails, clientVars
  <1>4. CASE ~reset[session[s]]
    BY <1>1, <1>2, <1>4 DEF SessionEnds, SessionCloses, clientVars
  <1>5. QED
    BY <1>3, <1>4

\* With its handler done, a frame takes a client with it between two calls only.
LEMMA DismissIdle ==
    ASSUME TypeOK, NEW s \in Servers, DismissEffect(s), HandlerDone(s), NEW c \in Clients
    PROVE  client'[c] = client[c] \/ (client[c] = "idle" /\ client'[c] = "left")
  <1>1. CASE c = inner[s]
    <2>1. client[c] = "idle"
      BY <1>1 DEF HandlerDone
    <2>2. ~Calling(c)
      BY <2>1 DEF Calling
    <2>3. QED
      BY <1>1, <2>1, <2>2 DEF DismissEffect
  <1>2. CASE c # inner[s]
    BY <1>2 DEF DismissEffect
  <1>3. QED
    BY <1>1, <1>2

\* Otherwise it takes its client between two calls, or in one.
LEMMA DismissAny ==
    ASSUME TypeOK, InnerOwned, NEW s \in Servers, DismissEffect(s), NEW c \in Clients
    PROVE  \/ client'[c] = client[c]
           \/ client[c] = "idle" /\ client'[c] = "left"
           \/ client[c] \in {"blocked", "waiting"} /\ client'[c] = "abandoned"
  <1>1. CASE c = inner[s]
    BY <1>1 DEF InnerOwned, Calling, DismissEffect
  <1>2. CASE c # inner[s]
    BY <1>2 DEF DismissEffect
  <1>3. QED
    BY <1>1, <1>2

\* What a handler's call does: a place in a backlog, and a call under way.
CallEffect(s, c) ==
    /\ client[c] = "new" /\ inner[s] = NoOne /\ server[s] = "responding"
    /\ inner' = [inner EXCEPT ![s] = c]
    /\ client' \in [Clients -> {"new", "idle", "blocked", "waiting", "left", "abandoned"}]
    /\ client'[c] \in {"blocked", "waiting"}
    /\ \A d \in Clients : d # c => client'[d] = client[d] /\ requests'[d] = requests[d]
    /\ requests' \in [Clients -> 0 .. MaxAhead]
    /\ client'[c] = "waiting" => requests'[c] = 1
    /\ \E t \in Servers : path = t /\ backlog' = [backlog EXCEPT ![t] = Append(@, c)]
    /\ UNCHANGED << path, server, starts, outcome, session, unread, astray, reset >>

\* Both ways a handler's call may go have that effect.
LEMMA CallFacts ==
    ASSUME TypeOK, NEW s \in Servers, NEW c \in Clients, HandlerCalls(s, c)
    PROVE  CallEffect(s, c)
  <1>1. /\ client[c] = "new" /\ inner[s] = NoOne /\ server[s] = "responding"
        /\ inner' = [inner EXCEPT ![s] = c]
        /\ UNCHANGED << path, server, starts, outcome, session, unread, astray, reset >>
    BY DEF HandlerCalls, serverVars
  <1>2. \E t \in Servers : path = t /\ backlog' = [backlog EXCEPT ![t] = Append(@, c)]
    BY DEF HandlerCalls
  <1>3. \/ /\ client' = [client EXCEPT ![c] = "waiting"]
           /\ requests' = [requests EXCEPT ![c] = 1]
        \/ /\ client' = [client EXCEPT ![c] = "blocked"]
           /\ requests' = requests
    BY DEF HandlerCalls
  <1>4. 1 \in 0 .. MaxAhead
    OBVIOUS
  <1>5. /\ client' \in [Clients -> {"new", "idle", "blocked", "waiting", "left", "abandoned"}]
        /\ client'[c] \in {"blocked", "waiting"}
        /\ \A d \in Clients : d # c => client'[d] = client[d] /\ requests'[d] = requests[d]
        /\ requests' \in [Clients -> 0 .. MaxAhead]
        /\ client'[c] = "waiting" => requests'[c] = 1
    BY <1>3, <1>4 DEF TypeOK
  <1>6. QED
    BY <1>1, <1>2, <1>5 DEF CallEffect

\* Every step keeps the types.
LEMMA TypeStep ==
    TypeOK /\ [Next]_vars => TypeOK'
  <1> SUFFICES ASSUME TypeOK, [Next]_vars PROVE TypeOK'
    OBVIOUS
  <1>1. ASSUME NEW s \in Servers, Construct(s) PROVE TypeOK'
    BY <1>1 DEF TypeOK, Answering, Serving, Construct, serverVars, linkVars,
      clientVars
  <1>2. ASSUME NEW s \in Servers, Start(s) PROVE TypeOK'
    BY <1>2 DEF TypeOK, Answering, Serving, Start, serverVars, linkVars,
      clientVars
  <1>3. ASSUME NEW s \in Servers, Accept(s) PROVE TypeOK'
    BY <1>3, TailFacts DEF TypeOK, Answering, Serving, Accept, serverVars,
      linkVars, clientVars
  <1>4. ASSUME NEW s \in Servers, HandleRequest(s) PROVE TypeOK'
    BY <1>4 DEF TypeOK, Answering, Serving, HandleRequest, serverVars,
      linkVars, clientVars
  <1>5. ASSUME NEW s \in Servers, HandlerThrows(s) PROVE TypeOK'
    <2>1. DismissEffect(s)
      BY <1>5, DismissFacts DEF HandlerThrows
    <2>2. QED
      BY <1>5, <2>1 DEF TypeOK, Answering, Serving, HandlerThrows,
        DismissEffect, HandlerDone, serverVars, linkVars, clientVars
  <1>6. ASSUME NEW s \in Servers, WriteResponse(s) PROVE TypeOK'
    <2>1. DismissEffect(s)
      BY <1>6, DismissFacts DEF WriteResponse
    <2>2. QED
      BY <1>6, <2>1 DEF TypeOK, Answering, Serving, WriteResponse,
        DismissEffect, serverVars, linkVars, clientVars
  <1>7. ASSUME NEW s \in Servers, WritePart(s) PROVE TypeOK'
    <2>1. DismissEffect(s)
      BY <1>7, DismissFacts DEF WritePart
    <2>2. PICK state \in {"writing", "blocked"} : server' = [server EXCEPT ![s] = state]
      BY <1>7 DEF WritePart
    <2>3. unread' \in [Clients -> {"nothing", "part", "whole"}]
      BY <1>7 DEF WritePart, TypeOK
    <2>4. /\ server[s] \in {"responding", "writing"}
          /\ UNCHANGED << path, starts, outcome, backlog, session, requests, astray >>
      BY <1>7 DEF WritePart
    <2>5. QED
      BY <2>1, <2>2, <2>3, <2>4 DEF TypeOK, Answering, Serving, DismissEffect
  <1>8. ASSUME NEW s \in Servers, WriteFails(s) PROVE TypeOK'
    <2>1. DismissEffect(s)
      BY <1>8, DismissFacts DEF WriteFails, ReturnError
    <2>2. QED
      BY <1>8, <2>1 DEF TypeOK, Answering, Serving, WriteFails, ReturnError,
        DismissEffect, serverVars, linkVars, clientVars
  <1>9. ASSUME NEW s \in Servers, SessionCloses(s) PROVE TypeOK'
    BY <1>9 DEF TypeOK, Answering, Serving, SessionCloses, serverVars,
      linkVars, clientVars
  <1>10. ASSUME NEW s \in Servers, SessionFails(s) PROVE TypeOK'
    BY <1>10 DEF TypeOK, Answering, Serving, SessionFails, Departed,
      serverVars, linkVars, clientVars
  <1>11. ASSUME NEW s \in Servers, NEW c \in Clients, HandlerCalls(s, c)
         PROVE  TypeOK'
    <2>1. CallEffect(s, c)
      BY <1>11, CallFacts
    <2>2. backlog' \in [Servers -> Seq(Clients)]
      BY <2>1, AppendFacts DEF CallEffect, TypeOK
    <2>3. QED
      BY <2>1, <2>2 DEF TypeOK, Answering, Serving, CallEffect
  <1>12. ASSUME NEW s \in Servers, AcceptFails(s) PROVE TypeOK'
    <2>1. DismissEffect(s)
      BY <1>12, DismissFacts DEF AcceptFails, ReturnError
    <2>2. QED
      BY <1>12, <2>1 DEF TypeOK, Answering, Serving, AcceptFails,
        ReturnError, DismissEffect, serverVars, linkVars, clientVars
  <1>13. ASSUME NEW s \in Servers, Destroy(s) PROVE TypeOK'
    <2>1. DismissEffect(s)
      BY <1>13, DismissFacts DEF Destroy, Vanish
    <2>2. QED
      BY <1>13, <2>1, EmptyFacts DEF TypeOK, Answering, Serving, Destroy,
        Vanish, DismissEffect, serverVars, linkVars, clientVars
  <1>14. ASSUME NEW s \in Servers, Crash(s) PROVE TypeOK'
    <2>1. DismissEffect(s)
      BY <1>14, DismissFacts DEF Crash, Vanish
    <2>2. QED
      BY <1>14, <2>1, EmptyFacts DEF TypeOK, Answering, Serving, Crash,
        Vanish, DismissEffect, Running, serverVars, linkVars, clientVars
  <1>15. ASSUME NEW c \in Clients, Connect(c) PROVE TypeOK'
    BY <1>15, AppendFacts DEF TypeOK, Answering, Serving, Connect,
      serverVars, linkVars, clientVars
  <1>16. ASSUME NEW c \in Clients, Request(c) PROVE TypeOK'
    BY <1>16 DEF TypeOK, Answering, Serving, Request, serverVars, linkVars,
      clientVars
  <1>17. ASSUME NEW c \in Clients, RequestBlocks(c) PROVE TypeOK'
    BY <1>17 DEF TypeOK, Answering, Serving, RequestBlocks, serverVars,
      linkVars, clientVars
  <1>18. ASSUME NEW c \in Clients, RequestRest(c) PROVE TypeOK'
    BY <1>18 DEF TypeOK, Answering, Serving, RequestRest, serverVars,
      linkVars, clientVars
  <1>19. ASSUME NEW c \in Clients, RequestFails(c) PROVE TypeOK'
    BY <1>19 DEF TypeOK, Answering, Serving, RequestFails, serverVars,
      linkVars, clientVars
  <1>20. ASSUME NEW c \in Clients, ReceiveReply(c) PROVE TypeOK'
    BY <1>20 DEF TypeOK, Answering, Serving, ReceiveReply, serverVars,
      linkVars, clientVars
  <1>21. ASSUME NEW c \in Clients, ReceivePart(c) PROVE TypeOK'
    <2>1. /\ client' = [client EXCEPT ![c] = "idle"]
          /\ astray' = [astray EXCEPT ![c] = TRUE]
          /\ UNCHANGED << path, starts, outcome, backlog, session, inner, requests, reset >>
      BY <1>21 DEF ReceivePart, linkVars
    <2>2. unread' \in [Clients -> {"nothing", "part", "whole"}]
      <3>1. CASE unread' = unread
        BY <3>1 DEF TypeOK
      <3>2. CASE \E rest \in {"nothing", "part"} : unread' = [unread EXCEPT ![c] = rest]
        BY <3>2 DEF TypeOK
      <3>3. QED
        BY <1>21, <3>1, <3>2 DEF ReceivePart
    <2>3. CASE server' = server
      BY <2>1, <2>2, <2>3 DEF TypeOK, Answering, Serving
    <2>4. CASE server' = [s \in Servers |->
                  IF session[s] = c /\ server[s] = "blocked" THEN "writing" ELSE server[s]]
      <3>1. \A s \in Servers : server'[s] = server[s]
                              \/ (server[s] = "blocked" /\ server'[s] = "writing")
        BY <2>4
      <3>2. server' \in [Servers -> {"unborn", "stopped", "accepting", "reading",
                                      "responding", "writing", "blocked", "gone"}]
        BY <2>4 DEF TypeOK
      <3>3. QED
        BY <2>1, <2>2, <3>1, <3>2 DEF TypeOK, Answering, Serving
    <2>5. QED
      BY <1>21, <2>3, <2>4 DEF ReceivePart
  <1>22. ASSUME NEW c \in Clients, ReceiveFails(c) PROVE TypeOK'
    BY <1>22 DEF TypeOK, Answering, Serving, ReceiveFails, serverVars,
      linkVars, clientVars
  <1>23. ASSUME NEW c \in Clients, Leave(c) PROVE TypeOK'
    <2>1. CloseEffect(c, "left")
      BY <1>23, CloseFacts DEF Leave
    <2>2. QED
      BY <1>23, <2>1 DEF TypeOK, Answering, Serving, Leave, CloseEffect,
        serverVars, linkVars, clientVars
  <1>24. ASSUME NEW c \in Clients, Abandon(c) PROVE TypeOK'
    <2>1. CloseEffect(c, "abandoned")
      BY <1>24, CloseFacts DEF Abandon
    <2>2. QED
      BY <1>24, <2>1 DEF TypeOK, Answering, Serving, Abandon, CloseEffect,
        Calling, serverVars, linkVars, clientVars
  <1>25. CASE UNCHANGED vars
    BY <1>25 DEF TypeOK, Answering, Serving, vars, serverVars, linkVars,
      clientVars
  <1>26. QED
    BY <1>1, <1>2, <1>3, <1>4, <1>5, <1>6, <1>7, <1>8, <1>9, <1>10, <1>11,
      <1>12, <1>13, <1>14, <1>15, <1>16, <1>17, <1>18, <1>19, <1>20, <1>21,
      <1>22, <1>23, <1>24, <1>25, SessionEndsCases DEF Next, ServerStep,
      ClientStep

\* Every step keeps the places.
LEMMA PlacesStep ==
    TypeOK /\ Places /\ [Next]_vars => Places'
  <1> SUFFICES ASSUME TypeOK, Places, [Next]_vars PROVE Places'
    OBVIOUS
  <1>1. ASSUME NEW s \in Servers, Construct(s) PROVE Places'
    BY <1>1 DEF TypeOK, Places, Construct, serverVars, linkVars, clientVars
  <1>2. ASSUME NEW s \in Servers, Start(s) PROVE Places'
    BY <1>2 DEF TypeOK, Places, Start, serverVars, linkVars, clientVars
  <1>3. ASSUME NEW s \in Servers, Accept(s) PROVE Places'
    BY <1>3, TailFacts DEF TypeOK, Places, Accept, serverVars, linkVars,
      clientVars
  <1>4. ASSUME NEW s \in Servers, HandleRequest(s) PROVE Places'
    BY <1>4 DEF TypeOK, Places, HandleRequest, serverVars, linkVars,
      clientVars
  <1>5. ASSUME NEW s \in Servers, HandlerThrows(s) PROVE Places'
    <2>1. DismissEffect(s)
      BY <1>5, DismissFacts DEF HandlerThrows
    <2>2. QED
      BY <1>5, <2>1 DEF TypeOK, Places, HandlerThrows, DismissEffect,
        serverVars, linkVars, clientVars
  <1>6. ASSUME NEW s \in Servers, WriteResponse(s) PROVE Places'
    <2>1. DismissEffect(s)
      BY <1>6, DismissFacts DEF WriteResponse
    <2>2. QED
      BY <1>6, <2>1 DEF TypeOK, Places, WriteResponse, DismissEffect,
        serverVars, linkVars, clientVars
  <1>7. ASSUME NEW s \in Servers, WritePart(s) PROVE Places'
    <2>1. DismissEffect(s)
      BY <1>7, DismissFacts DEF WritePart
    <2>2. QED
      BY <1>7, <2>1 DEF TypeOK, Places, WritePart, DismissEffect,
        serverVars, linkVars, clientVars
  <1>8. ASSUME NEW s \in Servers, WriteFails(s) PROVE Places'
    <2>1. DismissEffect(s)
      BY <1>8, DismissFacts DEF WriteFails, ReturnError
    <2>2. QED
      BY <1>8, <2>1 DEF TypeOK, Places, WriteFails, ReturnError,
        DismissEffect, serverVars, linkVars, clientVars
  <1>9. ASSUME NEW s \in Servers, SessionCloses(s) PROVE Places'
    BY <1>9 DEF TypeOK, Places, SessionCloses, serverVars, linkVars,
      clientVars
  <1>10. ASSUME NEW s \in Servers, SessionFails(s) PROVE Places'
    BY <1>10 DEF TypeOK, Places, SessionFails, serverVars, linkVars,
      clientVars
  <1>11. ASSUME NEW s \in Servers, NEW c \in Clients, HandlerCalls(s, c)
         PROVE  Places'
    BY <1>11, AppendFacts DEF TypeOK, Places, HandlerCalls, serverVars,
      linkVars, clientVars
  <1>12. ASSUME NEW s \in Servers, AcceptFails(s) PROVE Places'
    <2>1. DismissEffect(s)
      BY <1>12, DismissFacts DEF AcceptFails, ReturnError
    <2>2. QED
      BY <1>12, <2>1 DEF TypeOK, Places, AcceptFails, ReturnError,
        DismissEffect, serverVars, linkVars, clientVars
  <1>13. ASSUME NEW s \in Servers, Destroy(s) PROVE Places'
    <2>1. DismissEffect(s)
      BY <1>13, DismissFacts DEF Destroy, Vanish
    <2>2. QED
      BY <1>13, <2>1, EmptyFacts DEF TypeOK, Places, Destroy, Vanish,
        DismissEffect, serverVars, linkVars, clientVars
  <1>14. ASSUME NEW s \in Servers, Crash(s) PROVE Places'
    <2>1. DismissEffect(s)
      BY <1>14, DismissFacts DEF Crash, Vanish
    <2>2. QED
      BY <1>14, <2>1, EmptyFacts DEF TypeOK, Places, Crash, Vanish,
        DismissEffect, serverVars, linkVars, clientVars
  <1>15. ASSUME NEW c \in Clients, Connect(c) PROVE Places'
    BY <1>15, AppendFacts DEF TypeOK, Places, Connect, serverVars, linkVars,
      clientVars
  <1>16. ASSUME NEW c \in Clients, Request(c) PROVE Places'
    BY <1>16 DEF TypeOK, Places, Request, serverVars, linkVars, clientVars
  <1>17. ASSUME NEW c \in Clients, RequestBlocks(c) PROVE Places'
    BY <1>17 DEF TypeOK, Places, RequestBlocks, serverVars, linkVars,
      clientVars
  <1>18. ASSUME NEW c \in Clients, RequestRest(c) PROVE Places'
    BY <1>18 DEF TypeOK, Places, RequestRest, serverVars, linkVars,
      clientVars
  <1>19. ASSUME NEW c \in Clients, RequestFails(c) PROVE Places'
    BY <1>19 DEF TypeOK, Places, RequestFails, serverVars, linkVars,
      clientVars
  <1>20. ASSUME NEW c \in Clients, ReceiveReply(c) PROVE Places'
    BY <1>20 DEF TypeOK, Places, ReceiveReply, serverVars, linkVars,
      clientVars
  <1>21. ASSUME NEW c \in Clients, ReceivePart(c) PROVE Places'
    BY <1>21 DEF TypeOK, Places, ReceivePart, serverVars, linkVars,
      clientVars
  <1>22. ASSUME NEW c \in Clients, ReceiveFails(c) PROVE Places'
    BY <1>22 DEF TypeOK, Places, ReceiveFails, serverVars, linkVars,
      clientVars
  <1>23. ASSUME NEW c \in Clients, Leave(c) PROVE Places'
    <2>1. CloseEffect(c, "left")
      BY <1>23, CloseFacts DEF Leave
    <2>2. QED
      BY <1>23, <2>1 DEF TypeOK, Places, Leave, CloseEffect, serverVars,
        linkVars, clientVars
  <1>24. ASSUME NEW c \in Clients, Abandon(c) PROVE Places'
    <2>1. CloseEffect(c, "abandoned")
      BY <1>24, CloseFacts DEF Abandon
    <2>2. QED
      BY <1>24, <2>1 DEF TypeOK, Places, Abandon, CloseEffect, Calling,
        serverVars, linkVars, clientVars
  <1>25. CASE UNCHANGED vars
    BY <1>25 DEF TypeOK, Places, vars, serverVars, linkVars, clientVars
  <1>26. QED
    BY <1>1, <1>2, <1>3, <1>4, <1>5, <1>6, <1>7, <1>8, <1>9, <1>10, <1>11,
      <1>12, <1>13, <1>14, <1>15, <1>16, <1>17, <1>18, <1>19, <1>20, <1>21,
      <1>22, <1>23, <1>24, <1>25, SessionEndsCases DEF Next, ServerStep,
      ClientStep

\* Every step keeps the handlers' clients apart.
LEMMA InnerStep ==
    TypeOK /\ InnerOwned /\ [Next]_vars => InnerOwned'
  <1> SUFFICES ASSUME TypeOK, InnerOwned, [Next]_vars PROVE InnerOwned'
    OBVIOUS
  <1>1. ASSUME NEW s \in Servers, Construct(s) PROVE InnerOwned'
    BY <1>1 DEF TypeOK, InnerOwned, Calling, Construct, serverVars,
      linkVars, clientVars
  <1>2. ASSUME NEW s \in Servers, Start(s) PROVE InnerOwned'
    BY <1>2 DEF TypeOK, InnerOwned, Calling, Start, serverVars, linkVars,
      clientVars
  <1>3. ASSUME NEW s \in Servers, Accept(s) PROVE InnerOwned'
    BY <1>3 DEF TypeOK, InnerOwned, Calling, Accept, serverVars, linkVars,
      clientVars
  <1>4. ASSUME NEW s \in Servers, HandleRequest(s) PROVE InnerOwned'
    BY <1>4 DEF TypeOK, InnerOwned, Calling, HandleRequest, serverVars,
      linkVars, clientVars
  <1>5. ASSUME NEW s \in Servers, HandlerThrows(s) PROVE InnerOwned'
    <2>1. DismissEffect(s)
      BY <1>5, DismissFacts DEF HandlerThrows
    <2>2. QED
      BY <1>5, <2>1 DEF TypeOK, InnerOwned, Calling, HandlerThrows,
        DismissEffect, serverVars, linkVars, clientVars
  <1>6. ASSUME NEW s \in Servers, WriteResponse(s) PROVE InnerOwned'
    <2>1. DismissEffect(s)
      BY <1>6, DismissFacts DEF WriteResponse
    <2>2. QED
      BY <1>6, <2>1 DEF TypeOK, InnerOwned, Calling, WriteResponse,
        DismissEffect, serverVars, linkVars, clientVars
  <1>7. ASSUME NEW s \in Servers, WritePart(s) PROVE InnerOwned'
    <2>1. DismissEffect(s)
      BY <1>7, DismissFacts DEF WritePart
    <2>2. QED
      BY <1>7, <2>1 DEF TypeOK, InnerOwned, Calling, WritePart,
        DismissEffect, serverVars, linkVars, clientVars
  <1>8. ASSUME NEW s \in Servers, WriteFails(s) PROVE InnerOwned'
    <2>1. DismissEffect(s)
      BY <1>8, DismissFacts DEF WriteFails, ReturnError
    <2>2. QED
      BY <1>8, <2>1 DEF TypeOK, InnerOwned, Calling, WriteFails,
        ReturnError, DismissEffect, serverVars, linkVars, clientVars
  <1>9. ASSUME NEW s \in Servers, SessionCloses(s) PROVE InnerOwned'
    BY <1>9 DEF TypeOK, InnerOwned, Calling, SessionCloses, serverVars,
      linkVars, clientVars
  <1>10. ASSUME NEW s \in Servers, SessionFails(s) PROVE InnerOwned'
    BY <1>10 DEF TypeOK, InnerOwned, Calling, SessionFails, serverVars,
      linkVars, clientVars
  <1>11. ASSUME NEW s \in Servers, NEW c \in Clients, HandlerCalls(s, c)
         PROVE  InnerOwned'
    <2>1. CallEffect(s, c)
      BY <1>11, CallFacts
    <2>2. \A t \in Servers : inner[t] # c
      BY <2>1 DEF InnerOwned, Calling, CallEffect
    <2>3. \A t \in Servers : inner'[t] = IF t = s THEN c ELSE inner[t]
      BY <2>1 DEF CallEffect, TypeOK
    <2>4. ASSUME NEW t \in Servers, inner'[t] # NoOne
          PROVE  client'[inner'[t]] \in {"blocked", "waiting", "idle"}
      <3>1. CASE t = s
        BY <2>1, <2>3, <3>1 DEF CallEffect
      <3>2. CASE t # s
        <4>1. inner'[t] = inner[t] /\ inner[t] \in Clients \ {c}
          BY <2>2, <2>3, <2>4, <3>2 DEF TypeOK
        <4>2. client[inner[t]] \in {"blocked", "waiting", "idle"}
          BY <2>4, <4>1 DEF InnerOwned, Calling
        <4>3. QED
          BY <2>1, <4>1, <4>2 DEF CallEffect
      <3>3. QED
        BY <3>1, <3>2
    <2>5. \A t, u \in Servers : inner'[t] # NoOne /\ inner'[u] = inner'[t] => t = u
      BY <2>2, <2>3 DEF InnerOwned
    <2>6. QED
      BY <2>4, <2>5 DEF InnerOwned, Calling
  <1>12. ASSUME NEW s \in Servers, AcceptFails(s) PROVE InnerOwned'
    <2>1. DismissEffect(s)
      BY <1>12, DismissFacts DEF AcceptFails, ReturnError
    <2>2. QED
      BY <1>12, <2>1 DEF TypeOK, InnerOwned, Calling, AcceptFails,
        ReturnError, DismissEffect, serverVars, linkVars, clientVars
  <1>13. ASSUME NEW s \in Servers, Destroy(s) PROVE InnerOwned'
    <2>1. DismissEffect(s)
      BY <1>13, DismissFacts DEF Destroy, Vanish
    <2>2. QED
      BY <1>13, <2>1 DEF TypeOK, InnerOwned, Calling, Destroy, Vanish,
        DismissEffect, serverVars, linkVars, clientVars
  <1>14. ASSUME NEW s \in Servers, Crash(s) PROVE InnerOwned'
    <2>1. DismissEffect(s)
      BY <1>14, DismissFacts DEF Crash, Vanish
    <2>2. QED
      BY <1>14, <2>1 DEF TypeOK, InnerOwned, Calling, Crash, Vanish,
        DismissEffect, serverVars, linkVars, clientVars
  <1>15. ASSUME NEW c \in Clients, Connect(c) PROVE InnerOwned'
    BY <1>15 DEF TypeOK, InnerOwned, Calling, Connect, serverVars, linkVars,
      clientVars
  <1>16. ASSUME NEW c \in Clients, Request(c) PROVE InnerOwned'
    BY <1>16 DEF TypeOK, InnerOwned, Calling, Request, Free, serverVars,
      linkVars, clientVars
  <1>17. ASSUME NEW c \in Clients, RequestBlocks(c) PROVE InnerOwned'
    BY <1>17 DEF TypeOK, InnerOwned, Calling, RequestBlocks, Free,
      serverVars, linkVars, clientVars
  <1>18. ASSUME NEW c \in Clients, RequestRest(c) PROVE InnerOwned'
    BY <1>18 DEF TypeOK, InnerOwned, Calling, RequestRest, serverVars,
      linkVars, clientVars
  <1>19. ASSUME NEW c \in Clients, RequestFails(c) PROVE InnerOwned'
    BY <1>19 DEF TypeOK, InnerOwned, Calling, RequestFails, serverVars,
      linkVars, clientVars
  <1>20. ASSUME NEW c \in Clients, ReceiveReply(c) PROVE InnerOwned'
    BY <1>20 DEF TypeOK, InnerOwned, Calling, ReceiveReply, serverVars,
      linkVars, clientVars
  <1>21. ASSUME NEW c \in Clients, ReceivePart(c) PROVE InnerOwned'
    BY <1>21 DEF TypeOK, InnerOwned, Calling, ReceivePart, serverVars,
      linkVars, clientVars
  <1>22. ASSUME NEW c \in Clients, ReceiveFails(c) PROVE InnerOwned'
    BY <1>22 DEF TypeOK, InnerOwned, Calling, ReceiveFails, serverVars,
      linkVars, clientVars
  <1>23. ASSUME NEW c \in Clients, Leave(c) PROVE InnerOwned'
    <2>1. CloseEffect(c, "left")
      BY <1>23, CloseFacts DEF Leave
    <2>2. QED
      BY <1>23, <2>1 DEF TypeOK, InnerOwned, Calling, Leave, CloseEffect,
        Free, serverVars, linkVars, clientVars
  <1>24. ASSUME NEW c \in Clients, Abandon(c) PROVE InnerOwned'
    <2>1. CloseEffect(c, "abandoned")
      BY <1>24, CloseFacts DEF Abandon
    <2>2. QED
      BY <1>24, <2>1 DEF TypeOK, InnerOwned, Calling, Abandon, CloseEffect,
        Free, serverVars, linkVars, clientVars
  <1>25. CASE UNCHANGED vars
    BY <1>25 DEF TypeOK, InnerOwned, Calling, vars, serverVars, linkVars,
      clientVars
  <1>26. QED
    BY <1>1, <1>2, <1>3, <1>4, <1>5, <1>6, <1>7, <1>8, <1>9, <1>10, <1>11,
      <1>12, <1>13, <1>14, <1>15, <1>16, <1>17, <1>18, <1>19, <1>20, <1>21,
      <1>22, <1>23, <1>24, <1>25, SessionEndsCases DEF Next, ServerStep,
      ClientStep

\* Every step keeps the clients that read whole replies in their place.
LEMMA InPlaceStep ==
    TypeOK /\ Places /\ InnerOwned /\ InPlace /\ [Next]_vars => InPlace'
  <1> SUFFICES ASSUME TypeOK, Places, InnerOwned, InPlace, [Next]_vars PROVE InPlace'
    OBVIOUS
  <1>1. ASSUME NEW s \in Servers, Construct(s) PROVE InPlace'
    BY <1>1 DEF TypeOK, InPlace, Answered, Answering, Construct, serverVars,
      linkVars, clientVars
  <1>2. ASSUME NEW s \in Servers, Start(s) PROVE InPlace'
    BY <1>2 DEF TypeOK, InPlace, Answered, Answering, Start, serverVars,
      linkVars, clientVars
  <1>3. ASSUME NEW s \in Servers, Accept(s) PROVE InPlace'
    BY <1>3 DEF TypeOK, InPlace, Answered, Answering, Accept, Places,
      serverVars, linkVars, clientVars
  <1>4. ASSUME NEW s \in Servers, HandleRequest(s) PROVE InPlace'
    BY <1>4 DEF TypeOK, InPlace, Answered, Answering, HandleRequest, Places,
      serverVars, linkVars, clientVars
  <1>5. ASSUME NEW s \in Servers, HandlerThrows(s) PROVE InPlace'
    <2>1. DismissEffect(s)
      BY <1>5, DismissFacts DEF HandlerThrows
    <2>2. QED
      BY <1>5, <2>1 DEF TypeOK, InPlace, Answered, Answering, HandlerThrows,
        DismissEffect, InnerOwned, Calling, serverVars, linkVars, clientVars
  <1>6. ASSUME NEW s \in Servers, WriteResponse(s) PROVE InPlace'
    <2>1. DismissEffect(s)
      BY <1>6, DismissFacts DEF WriteResponse
    <2>2. /\ server[s] \in {"responding", "writing"} /\ session[s] \in Clients
          /\ client[session[s]] \notin {"left", "abandoned"}
          /\ HandlerDone(s)
          /\ session' = session /\ requests' = requests /\ astray' = astray
      BY <1>6 DEF WriteResponse, Departed, TypeOK, Serving, Answering
    <2>3. /\ \A t \in Servers : t # s => server'[t] = server[t]
          /\ server'[s] \in {"reading", "writing", "blocked"}
          /\ \A c \in Clients : c # session[s] => unread'[c] = unread[c]
      BY <1>6 DEF WriteResponse, TypeOK
    <2>4. ASSUME NEW c \in Clients, c # session[s] PROVE Answered(c)' <=> Answered(c)
      BY <2>2, <2>3, <2>4 DEF Answered, Answering
    <2>5. Answered(session[s])
      BY <2>2 DEF Answered, Answering
    <2>6. \A c \in Clients : c = session[s] => ~Answered(c)'
      BY <1>6, <2>2, <2>3 DEF WriteResponse, Answered, Answering, Places, TypeOK
    <2>7. ASSUME NEW c \in Clients
          PROVE  client'[c] = client[c] \/ (client[c] = "idle" /\ client'[c] = "left")
      BY <2>1, <2>2, DismissIdle
    <2>8. ASSUME NEW c \in Clients, ~astray[c], c # session[s]
          PROVE  /\ \/ client'[c] \in {"waiting", "abandoned"}
                    \/ requests[c] = 0 /\ unread[c] = "nothing" /\ ~Answered(c)
                 /\ requests[c] <= 1
                 /\ requests[c] = 1 => unread[c] # "whole" /\ ~Answered(c)
                 /\ Answered(c) => unread[c] # "whole"
      BY <2>7, <2>8 DEF InPlace
    <2>9. ASSUME NEW c \in Clients, ~astray[c], c = session[s]
          PROVE  client'[c] = "waiting" /\ requests[c] = 0
      BY <2>2, <2>5, <2>7, <2>9 DEF InPlace, TypeOK
    <2>10. \A c \in Clients : client'[c] = "new" => ~astray[c]
      BY <2>7 DEF InPlace
    <2>11. QED
      BY <2>2, <2>3, <2>4, <2>6, <2>8, <2>9, <2>10 DEF InPlace
  <1>7. ASSUME NEW s \in Servers, WritePart(s) PROVE InPlace'
    <2>1. DismissEffect(s)
      BY <1>7, DismissFacts DEF WritePart
    <2>2. /\ server[s] \in {"responding", "writing"} /\ session[s] \in Clients
          /\ client[session[s]] \notin {"left", "abandoned"}
          /\ HandlerDone(s)
          /\ session' = session /\ requests' = requests /\ astray' = astray
      BY <1>7 DEF WritePart, Departed, TypeOK, Serving, Answering
    <2>3. /\ \A t \in Servers : t # s => server'[t] = server[t]
          /\ server'[s] \in {"reading", "writing", "blocked"}
          /\ \A c \in Clients : c # session[s] => unread'[c] = unread[c]
      BY <1>7 DEF WritePart, TypeOK
    <2>4. ASSUME NEW c \in Clients, c # session[s] PROVE Answered(c)' <=> Answered(c)
      BY <2>2, <2>3, <2>4 DEF Answered, Answering
    <2>5. Answered(session[s])
      BY <2>2 DEF Answered, Answering
    <2>6. unread'[session[s]] = "part"
      BY <1>7, <2>2, <2>3 DEF WritePart, Answered, Answering, Places, TypeOK
    <2>7. ASSUME NEW c \in Clients
          PROVE  client'[c] = client[c] \/ (client[c] = "idle" /\ client'[c] = "left")
      BY <2>1, <2>2, DismissIdle
    <2>8. ASSUME NEW c \in Clients, ~astray[c], c # session[s]
          PROVE  /\ \/ client'[c] \in {"waiting", "abandoned"}
                    \/ requests[c] = 0 /\ unread[c] = "nothing" /\ ~Answered(c)
                 /\ requests[c] <= 1
                 /\ requests[c] = 1 => unread[c] # "whole" /\ ~Answered(c)
                 /\ Answered(c) => unread[c] # "whole"
      BY <2>7, <2>8 DEF InPlace
    <2>9. ASSUME NEW c \in Clients, ~astray[c], c = session[s]
          PROVE  client'[c] = "waiting" /\ requests[c] = 0
      BY <2>2, <2>5, <2>7, <2>9 DEF InPlace, TypeOK
    <2>10. \A c \in Clients : client'[c] = "new" => ~astray[c]
      BY <2>7 DEF InPlace
    <2>11. QED
      BY <2>2, <2>3, <2>4, <2>6, <2>8, <2>9, <2>10 DEF InPlace
  <1>8. ASSUME NEW s \in Servers, WriteFails(s) PROVE InPlace'
    <2>1. DismissEffect(s)
      BY <1>8, DismissFacts DEF WriteFails, ReturnError
    <2>2. QED
      BY <1>8, <2>1 DEF TypeOK, InPlace, Answered, Answering, WriteFails,
        ReturnError, DismissEffect, InnerOwned, Calling, serverVars, linkVars,
        clientVars
  <1>9. ASSUME NEW s \in Servers, SessionCloses(s) PROVE InPlace'
    BY <1>9 DEF TypeOK, InPlace, Answered, Answering, SessionCloses,
      serverVars, linkVars, clientVars
  <1>10. ASSUME NEW s \in Servers, SessionFails(s) PROVE InPlace'
    BY <1>10 DEF TypeOK, InPlace, Answered, Answering, SessionFails,
      serverVars, linkVars, clientVars
  <1>11. ASSUME NEW s \in Servers, NEW c \in Clients, HandlerCalls(s, c)
         PROVE  InPlace'
    BY <1>11 DEF TypeOK, InPlace, Answered, Answering, HandlerCalls, Places,
      serverVars, linkVars, clientVars
  <1>12. ASSUME NEW s \in Servers, AcceptFails(s) PROVE InPlace'
    <2>1. DismissEffect(s)
      BY <1>12, DismissFacts DEF AcceptFails, ReturnError
    <2>2. QED
      BY <1>12, <2>1 DEF TypeOK, InPlace, Answered, Answering, AcceptFails,
        ReturnError, DismissEffect, serverVars, linkVars, clientVars
  <1>13. ASSUME NEW s \in Servers, Destroy(s) PROVE InPlace'
    <2>1. DismissEffect(s)
      BY <1>13, DismissFacts DEF Destroy, Vanish
    <2>2. QED
      BY <1>13, <2>1 DEF TypeOK, InPlace, Answered, Answering, Destroy,
        Vanish, DismissEffect, serverVars, linkVars, clientVars
  <1>14. ASSUME NEW s \in Servers, Crash(s) PROVE InPlace'
    <2>1. DismissEffect(s)
      BY <1>14, DismissFacts DEF Crash, Vanish
    <2>2. /\ server' = [server EXCEPT ![s] = "gone"]
          /\ UNCHANGED << requests, unread, astray >>
          /\ session' = [session EXCEPT ![s] = NoOne]
      BY <1>14 DEF Crash, Vanish
    <2>3. ASSUME NEW c \in Clients PROVE Answered(c)' => Answered(c)
      BY <2>2, <2>3 DEF Answered, Answering, TypeOK
    <2>4. ASSUME NEW c \in Clients
          PROVE  \/ client'[c] = client[c]
                 \/ client[c] = "idle" /\ client'[c] = "left"
                 \/ client[c] \in {"blocked", "waiting"} /\ client'[c] = "abandoned"
      BY <2>1, DismissAny
    <2>5. QED
      BY <2>2, <2>3, <2>4 DEF InPlace, TypeOK
  <1>15. ASSUME NEW c \in Clients, Connect(c) PROVE InPlace'
    BY <1>15 DEF TypeOK, InPlace, Answered, Answering, Connect, Places,
      serverVars, linkVars, clientVars
  <1>16. ASSUME NEW c \in Clients, Request(c) PROVE InPlace'
    BY <1>16 DEF TypeOK, InPlace, Answered, Answering, Request, serverVars,
      linkVars, clientVars
  <1>17. ASSUME NEW c \in Clients, RequestBlocks(c) PROVE InPlace'
    BY <1>17 DEF TypeOK, InPlace, Answered, Answering, RequestBlocks,
      serverVars, linkVars, clientVars
  <1>18. ASSUME NEW c \in Clients, RequestRest(c) PROVE InPlace'
    BY <1>18 DEF TypeOK, InPlace, Answered, Answering, RequestRest, Places,
      serverVars, linkVars, clientVars
  <1>19. ASSUME NEW c \in Clients, RequestFails(c) PROVE InPlace'
    BY <1>19 DEF TypeOK, InPlace, Answered, Answering, RequestFails,
      Connected, serverVars, linkVars, clientVars
  <1>20. ASSUME NEW c \in Clients, ReceiveReply(c) PROVE InPlace'
    BY <1>20 DEF TypeOK, InPlace, Answered, Answering, ReceiveReply,
      serverVars, linkVars, clientVars
  <1>21. ASSUME NEW c \in Clients, ReceivePart(c) PROVE InPlace'
    BY <1>21 DEF TypeOK, InPlace, Answered, Answering, ReceivePart,
      serverVars, linkVars, clientVars
  <1>22. ASSUME NEW c \in Clients, ReceiveFails(c) PROVE InPlace'
    BY <1>22 DEF TypeOK, InPlace, Answered, Answering, ReceiveFails,
      Connected, serverVars, linkVars, clientVars
  <1>23. ASSUME NEW c \in Clients, Leave(c) PROVE InPlace'
    <2>1. CloseEffect(c, "left")
      BY <1>23, CloseFacts DEF Leave
    <2>2. QED
      BY <1>23, <2>1 DEF TypeOK, InPlace, Answered, Answering, Leave,
        CloseEffect, serverVars, linkVars, clientVars
  <1>24. ASSUME NEW c \in Clients, Abandon(c) PROVE InPlace'
    <2>1. CloseEffect(c, "abandoned")
      BY <1>24, CloseFacts DEF Abandon
    <2>2. QED
      BY <1>24, <2>1 DEF TypeOK, InPlace, Answered, Answering, Abandon,
        CloseEffect, Calling, serverVars, linkVars, clientVars
  <1>25. CASE UNCHANGED vars
    BY <1>25 DEF TypeOK, InPlace, Answered, Answering, vars, serverVars,
      linkVars, clientVars
  <1>26. QED
    BY <1>1, <1>2, <1>3, <1>4, <1>5, <1>6, <1>7, <1>8, <1>9, <1>10, <1>11,
      <1>12, <1>13, <1>14, <1>15, <1>16, <1>17, <1>18, <1>19, <1>20, <1>21,
      <1>22, <1>23, <1>24, <1>25, SessionEndsCases DEF Next, ServerStep,
      ClientStep

\* A client that may be blamed for a session's failure.
Blamed(c) == client[c] = "abandoned" \/ (client[c] = "left" /\ astray[c])

\* Whoever is blamed stays so when a handler's frame goes.
LEMMA DismissBlame ==
    ASSUME TypeOK, InnerOwned, NEW s \in Servers, DismissEffect(s), astray' = astray,
           NEW c \in Clients, Blamed(c)
    PROVE  Blamed(c)' /\ client'[c] = client[c] /\ c # inner[s]
  <1>1. c # inner[s]
    BY DEF InnerOwned, Calling, Blamed
  <1>2. QED
    BY <1>1 DEF DismissEffect, Blamed

\* A handler's client is closed with something unread in a call, or astray.
LEMMA DismissReset ==
    ASSUME TypeOK, InnerOwned, InPlace, ResetInv, NEW s \in Servers, DismissEffect(s),
           astray' = astray
    PROVE  ResetInv'
  <1>1. ASSUME NEW c \in Clients, reset'[c] PROVE Blamed(c)'
    <2>1. CASE c = inner[s]
      <3>1. unread[c] # "nothing"
        BY <1>1, <2>1 DEF DismissEffect
      <3>2. CASE Calling(c)
        BY <2>1, <3>2 DEF DismissEffect, Blamed
      <3>3. CASE ~Calling(c)
        <4>1. client[c] = "idle"
          BY <2>1, <3>3 DEF InnerOwned
        <4>2. astray[c]
          BY <3>1, <4>1 DEF InPlace
        <4>3. QED
          BY <2>1, <3>3, <4>2 DEF DismissEffect, Blamed
      <3>4. QED
        BY <3>2, <3>3
    <2>2. CASE c # inner[s]
      BY <1>1, <2>2 DEF DismissEffect, ResetInv, Blamed
    <2>3. QED
      BY <2>1, <2>2
  <1>2. QED
    BY <1>1 DEF ResetInv, Blamed

\* Every step keeps what a reset says of its client.
LEMMA ResetStep ==
    TypeOK /\ InnerOwned /\ InPlace /\ ResetInv /\ [Next]_vars => ResetInv'
  <1> SUFFICES ASSUME TypeOK, InnerOwned, InPlace, ResetInv, [Next]_vars PROVE ResetInv'
    OBVIOUS
  <1>1. ASSUME NEW s \in Servers, Construct(s) PROVE ResetInv'
    BY <1>1 DEF TypeOK, InnerOwned, InPlace, ResetInv, Calling, Construct,
      serverVars, linkVars, clientVars
  <1>2. ASSUME NEW s \in Servers, Start(s) PROVE ResetInv'
    BY <1>2 DEF TypeOK, InnerOwned, InPlace, ResetInv, Calling, Start,
      serverVars, linkVars, clientVars
  <1>3. ASSUME NEW s \in Servers, Accept(s) PROVE ResetInv'
    BY <1>3 DEF TypeOK, InnerOwned, InPlace, ResetInv, Calling, Accept,
      serverVars, linkVars, clientVars
  <1>4. ASSUME NEW s \in Servers, HandleRequest(s) PROVE ResetInv'
    BY <1>4 DEF TypeOK, InnerOwned, InPlace, ResetInv, Calling,
      HandleRequest, serverVars, linkVars, clientVars
  <1>5. ASSUME NEW s \in Servers, HandlerThrows(s) PROVE ResetInv'
    <2>1. DismissEffect(s)
      BY <1>5, DismissFacts DEF HandlerThrows
    <2>2. astray' = astray
      BY <1>5 DEF HandlerThrows
    <2>3. QED
      BY <2>1, <2>2, DismissReset
  <1>6. ASSUME NEW s \in Servers, WriteResponse(s) PROVE ResetInv'
    <2>1. DismissEffect(s)
      BY <1>6, DismissFacts DEF WriteResponse
    <2>2. astray' = astray
      BY <1>6 DEF WriteResponse
    <2>3. QED
      BY <2>1, <2>2, DismissReset
  <1>7. ASSUME NEW s \in Servers, WritePart(s) PROVE ResetInv'
    <2>1. DismissEffect(s)
      BY <1>7, DismissFacts DEF WritePart
    <2>2. astray' = astray
      BY <1>7 DEF WritePart
    <2>3. QED
      BY <2>1, <2>2, DismissReset
  <1>8. ASSUME NEW s \in Servers, WriteFails(s) PROVE ResetInv'
    <2>1. DismissEffect(s)
      BY <1>8, DismissFacts DEF WriteFails, ReturnError
    <2>2. astray' = astray
      BY <1>8 DEF WriteFails, ReturnError
    <2>3. QED
      BY <2>1, <2>2, DismissReset
  <1>9. ASSUME NEW s \in Servers, SessionCloses(s) PROVE ResetInv'
    BY <1>9 DEF TypeOK, InnerOwned, InPlace, ResetInv, Calling,
      SessionCloses, serverVars, linkVars, clientVars
  <1>10. ASSUME NEW s \in Servers, SessionFails(s) PROVE ResetInv'
    BY <1>10 DEF TypeOK, InnerOwned, InPlace, ResetInv, Calling,
      SessionFails, serverVars, linkVars, clientVars
  <1>11. ASSUME NEW s \in Servers, NEW c \in Clients, HandlerCalls(s, c)
         PROVE  ResetInv'
    BY <1>11 DEF TypeOK, InnerOwned, InPlace, ResetInv, Calling,
      HandlerCalls, serverVars, linkVars, clientVars
  <1>12. ASSUME NEW s \in Servers, AcceptFails(s) PROVE ResetInv'
    <2>1. DismissEffect(s)
      BY <1>12, DismissFacts DEF AcceptFails, ReturnError
    <2>2. astray' = astray
      BY <1>12 DEF AcceptFails, ReturnError
    <2>3. QED
      BY <2>1, <2>2, DismissReset
  <1>13. ASSUME NEW s \in Servers, Destroy(s) PROVE ResetInv'
    <2>1. DismissEffect(s)
      BY <1>13, DismissFacts DEF Destroy, Vanish
    <2>2. astray' = astray
      BY <1>13 DEF Destroy, Vanish
    <2>3. QED
      BY <2>1, <2>2, DismissReset
  <1>14. ASSUME NEW s \in Servers, Crash(s) PROVE ResetInv'
    <2>1. DismissEffect(s)
      BY <1>14, DismissFacts DEF Crash, Vanish
    <2>2. astray' = astray
      BY <1>14 DEF Crash, Vanish
    <2>3. QED
      BY <2>1, <2>2, DismissReset
  <1>15. ASSUME NEW c \in Clients, Connect(c) PROVE ResetInv'
    BY <1>15 DEF TypeOK, InnerOwned, InPlace, ResetInv, Calling, Connect,
      serverVars, linkVars, clientVars
  <1>16. ASSUME NEW c \in Clients, Request(c) PROVE ResetInv'
    BY <1>16 DEF TypeOK, InnerOwned, InPlace, ResetInv, Calling, Request,
      serverVars, linkVars, clientVars
  <1>17. ASSUME NEW c \in Clients, RequestBlocks(c) PROVE ResetInv'
    BY <1>17 DEF TypeOK, InnerOwned, InPlace, ResetInv, Calling,
      RequestBlocks, serverVars, linkVars, clientVars
  <1>18. ASSUME NEW c \in Clients, RequestRest(c) PROVE ResetInv'
    BY <1>18 DEF TypeOK, InnerOwned, InPlace, ResetInv, Calling,
      RequestRest, serverVars, linkVars, clientVars
  <1>19. ASSUME NEW c \in Clients, RequestFails(c) PROVE ResetInv'
    BY <1>19 DEF TypeOK, InnerOwned, InPlace, ResetInv, Calling,
      RequestFails, serverVars, linkVars, clientVars
  <1>20. ASSUME NEW c \in Clients, ReceiveReply(c) PROVE ResetInv'
    BY <1>20 DEF TypeOK, InnerOwned, InPlace, ResetInv, Calling,
      ReceiveReply, serverVars, linkVars, clientVars
  <1>21. ASSUME NEW c \in Clients, ReceivePart(c) PROVE ResetInv'
    BY <1>21 DEF TypeOK, InnerOwned, InPlace, ResetInv, Calling,
      ReceivePart, serverVars, linkVars, clientVars
  <1>22. ASSUME NEW c \in Clients, ReceiveFails(c) PROVE ResetInv'
    BY <1>22 DEF TypeOK, InnerOwned, InPlace, ResetInv, Calling,
      ReceiveFails, serverVars, linkVars, clientVars
  <1>23. ASSUME NEW c \in Clients, Leave(c) PROVE ResetInv'
    <2>1. CloseEffect(c, "left")
      BY <1>23, CloseFacts DEF Leave
    <2>2. QED
      BY <1>23, <2>1 DEF TypeOK, InnerOwned, InPlace, ResetInv, Calling,
        Leave, CloseEffect, serverVars, linkVars, clientVars
  <1>24. ASSUME NEW c \in Clients, Abandon(c) PROVE ResetInv'
    <2>1. CloseEffect(c, "abandoned")
      BY <1>24, CloseFacts DEF Abandon
    <2>2. QED
      BY <1>24, <2>1 DEF TypeOK, InnerOwned, InPlace, ResetInv, Calling,
        Abandon, CloseEffect, serverVars, linkVars, clientVars
  <1>25. CASE UNCHANGED vars
    BY <1>25 DEF TypeOK, InnerOwned, InPlace, ResetInv, Calling, vars,
      serverVars, linkVars, clientVars
  <1>26. QED
    BY <1>1, <1>2, <1>3, <1>4, <1>5, <1>6, <1>7, <1>8, <1>9, <1>10, <1>11,
      <1>12, <1>13, <1>14, <1>15, <1>16, <1>17, <1>18, <1>19, <1>20, <1>21,
      <1>22, <1>23, <1>24, <1>25, SessionEndsCases DEF Next, ServerStep,
      ClientStep

-----------------------------------------------------------------------------
(* What follows for the properties.                                         *)

\* FailureFreesPath, and that a server fails after it is constructed only.
FailureInv ==
    /\ FailureFreesPath
    /\ \A s \in Servers : server[s] = "unborn" => outcome[s] = "none"

\* NoLostRequest, by the place of the connection.
RequestsInv ==
    /\ \A s \in Servers :
           session[s] # NoOne /\ client[session[s]] = "waiting" =>
               requests[session[s]] > 0 \/ unread[session[s]] # "nothing" \/ Answering(s)
    /\ \A s \in Servers, c \in Clients :
           Contains(backlog[s], c) /\ client[c] = "waiting" =>
               requests[c] > 0 \/ unread[c] # "nothing"

\* Every step keeps the paths of failed servers free.
LEMMA FailureStep ==
    TypeOK /\ FailureInv /\ [Next]_vars => FailureInv'
  <1> SUFFICES ASSUME TypeOK, FailureInv, [Next]_vars PROVE FailureInv'
    OBVIOUS
  <1>1. ASSUME NEW s \in Servers, Construct(s) PROVE FailureInv'
    BY <1>1 DEF TypeOK, FailureInv, FailureFreesPath, Construct, serverVars,
      linkVars, clientVars
  <1>2. ASSUME NEW s \in Servers, Start(s) PROVE FailureInv'
    BY <1>2 DEF TypeOK, FailureInv, FailureFreesPath, Start, serverVars,
      linkVars, clientVars
  <1>3. ASSUME NEW s \in Servers, Accept(s) PROVE FailureInv'
    BY <1>3 DEF TypeOK, FailureInv, FailureFreesPath, Accept, serverVars,
      linkVars, clientVars
  <1>4. ASSUME NEW s \in Servers, HandleRequest(s) PROVE FailureInv'
    BY <1>4 DEF TypeOK, FailureInv, FailureFreesPath, HandleRequest,
      serverVars, linkVars, clientVars
  <1>5. ASSUME NEW s \in Servers, HandlerThrows(s) PROVE FailureInv'
    <2>1. DismissEffect(s)
      BY <1>5, DismissFacts DEF HandlerThrows
    <2>2. QED
      BY <1>5, <2>1 DEF TypeOK, FailureInv, FailureFreesPath, HandlerThrows,
        DismissEffect, serverVars, linkVars, clientVars
  <1>6. ASSUME NEW s \in Servers, WriteResponse(s) PROVE FailureInv'
    <2>1. DismissEffect(s)
      BY <1>6, DismissFacts DEF WriteResponse
    <2>2. QED
      BY <1>6, <2>1 DEF TypeOK, FailureInv, FailureFreesPath, WriteResponse,
        DismissEffect, serverVars, linkVars, clientVars
  <1>7. ASSUME NEW s \in Servers, WritePart(s) PROVE FailureInv'
    <2>1. DismissEffect(s)
      BY <1>7, DismissFacts DEF WritePart
    <2>2. QED
      BY <1>7, <2>1 DEF TypeOK, FailureInv, FailureFreesPath, WritePart,
        DismissEffect, serverVars, linkVars, clientVars
  <1>8. ASSUME NEW s \in Servers, WriteFails(s) PROVE FailureInv'
    <2>1. DismissEffect(s)
      BY <1>8, DismissFacts DEF WriteFails, ReturnError
    <2>2. QED
      BY <1>8, <2>1 DEF TypeOK, FailureInv, FailureFreesPath, WriteFails,
        ReturnError, DismissEffect, serverVars, linkVars, clientVars
  <1>9. ASSUME NEW s \in Servers, SessionCloses(s) PROVE FailureInv'
    BY <1>9 DEF TypeOK, FailureInv, FailureFreesPath, SessionCloses,
      serverVars, linkVars, clientVars
  <1>10. ASSUME NEW s \in Servers, SessionFails(s) PROVE FailureInv'
    BY <1>10 DEF TypeOK, FailureInv, FailureFreesPath, SessionFails,
      serverVars, linkVars, clientVars
  <1>11. ASSUME NEW s \in Servers, NEW c \in Clients, HandlerCalls(s, c)
         PROVE  FailureInv'
    BY <1>11 DEF TypeOK, FailureInv, FailureFreesPath, HandlerCalls,
      serverVars, linkVars, clientVars
  <1>12. ASSUME NEW s \in Servers, AcceptFails(s) PROVE FailureInv'
    <2>1. DismissEffect(s)
      BY <1>12, DismissFacts DEF AcceptFails, ReturnError
    <2>2. QED
      BY <1>12, <2>1 DEF TypeOK, FailureInv, FailureFreesPath, AcceptFails,
        ReturnError, DismissEffect, serverVars, linkVars, clientVars
  <1>13. ASSUME NEW s \in Servers, Destroy(s) PROVE FailureInv'
    <2>1. DismissEffect(s)
      BY <1>13, DismissFacts DEF Destroy, Vanish
    <2>2. QED
      BY <1>13, <2>1 DEF TypeOK, FailureInv, FailureFreesPath, Destroy,
        Vanish, DismissEffect, serverVars, linkVars, clientVars
  <1>14. ASSUME NEW s \in Servers, Crash(s) PROVE FailureInv'
    <2>1. DismissEffect(s)
      BY <1>14, DismissFacts DEF Crash, Vanish
    <2>2. QED
      BY <1>14, <2>1 DEF TypeOK, FailureInv, FailureFreesPath, Crash,
        Vanish, DismissEffect, Running, Answering, Serving, serverVars,
        linkVars, clientVars
  <1>15. ASSUME NEW c \in Clients, Connect(c) PROVE FailureInv'
    BY <1>15 DEF TypeOK, FailureInv, FailureFreesPath, Connect, serverVars,
      linkVars, clientVars
  <1>16. ASSUME NEW c \in Clients, Request(c) PROVE FailureInv'
    BY <1>16 DEF TypeOK, FailureInv, FailureFreesPath, Request, serverVars,
      linkVars, clientVars
  <1>17. ASSUME NEW c \in Clients, RequestBlocks(c) PROVE FailureInv'
    BY <1>17 DEF TypeOK, FailureInv, FailureFreesPath, RequestBlocks,
      serverVars, linkVars, clientVars
  <1>18. ASSUME NEW c \in Clients, RequestRest(c) PROVE FailureInv'
    BY <1>18 DEF TypeOK, FailureInv, FailureFreesPath, RequestRest,
      serverVars, linkVars, clientVars
  <1>19. ASSUME NEW c \in Clients, RequestFails(c) PROVE FailureInv'
    BY <1>19 DEF TypeOK, FailureInv, FailureFreesPath, RequestFails,
      serverVars, linkVars, clientVars
  <1>20. ASSUME NEW c \in Clients, ReceiveReply(c) PROVE FailureInv'
    BY <1>20 DEF TypeOK, FailureInv, FailureFreesPath, ReceiveReply,
      serverVars, linkVars, clientVars
  <1>21. ASSUME NEW c \in Clients, ReceivePart(c) PROVE FailureInv'
    BY <1>21 DEF TypeOK, FailureInv, FailureFreesPath, ReceivePart,
      serverVars, linkVars, clientVars
  <1>22. ASSUME NEW c \in Clients, ReceiveFails(c) PROVE FailureInv'
    BY <1>22 DEF TypeOK, FailureInv, FailureFreesPath, ReceiveFails,
      serverVars, linkVars, clientVars
  <1>23. ASSUME NEW c \in Clients, Leave(c) PROVE FailureInv'
    <2>1. CloseEffect(c, "left")
      BY <1>23, CloseFacts DEF Leave
    <2>2. QED
      BY <1>23, <2>1 DEF TypeOK, FailureInv, FailureFreesPath, Leave,
        CloseEffect, serverVars, linkVars, clientVars
  <1>24. ASSUME NEW c \in Clients, Abandon(c) PROVE FailureInv'
    <2>1. CloseEffect(c, "abandoned")
      BY <1>24, CloseFacts DEF Abandon
    <2>2. QED
      BY <1>24, <2>1 DEF TypeOK, FailureInv, FailureFreesPath, Abandon,
        CloseEffect, serverVars, linkVars, clientVars
  <1>25. CASE UNCHANGED vars
    BY <1>25 DEF TypeOK, FailureInv, FailureFreesPath, vars, serverVars,
      linkVars, clientVars
  <1>26. QED
    BY <1>1, <1>2, <1>3, <1>4, <1>5, <1>6, <1>7, <1>8, <1>9, <1>10, <1>11,
      <1>12, <1>13, <1>14, <1>15, <1>16, <1>17, <1>18, <1>19, <1>20, <1>21,
      <1>22, <1>23, <1>24, <1>25, SessionEndsCases DEF Next, ServerStep,
      ClientStep

\* Every step keeps who is to blame for a session's failure.
LEMMA PoliteStep ==
    TypeOK /\ InnerOwned /\ InPlace /\ ResetInv /\ PoliteClientsKeepServerUp /\ [Next]_vars => PoliteClientsKeepServerUp'
  <1> SUFFICES ASSUME TypeOK, InnerOwned, InPlace, ResetInv, PoliteClientsKeepServerUp, [Next]_vars PROVE PoliteClientsKeepServerUp'
    OBVIOUS
  <1>1. ASSUME NEW s \in Servers, Construct(s) PROVE PoliteClientsKeepServerUp'
    BY <1>1 DEF TypeOK, ResetInv, PoliteClientsKeepServerUp, Construct,
      serverVars, linkVars, clientVars
  <1>2. ASSUME NEW s \in Servers, Start(s) PROVE PoliteClientsKeepServerUp'
    BY <1>2 DEF TypeOK, ResetInv, PoliteClientsKeepServerUp, Start,
      serverVars, linkVars, clientVars
  <1>3. ASSUME NEW s \in Servers, Accept(s) PROVE PoliteClientsKeepServerUp'
    BY <1>3 DEF TypeOK, ResetInv, PoliteClientsKeepServerUp, Accept,
      serverVars, linkVars, clientVars
  <1>4. ASSUME NEW s \in Servers, HandleRequest(s)
         PROVE  PoliteClientsKeepServerUp'
    BY <1>4 DEF TypeOK, ResetInv, PoliteClientsKeepServerUp, HandleRequest,
      serverVars, linkVars, clientVars
  <1>5. ASSUME NEW s \in Servers, HandlerThrows(s)
         PROVE  PoliteClientsKeepServerUp'
    <2>1. DismissEffect(s)
      BY <1>5, DismissFacts DEF HandlerThrows
    <2>2. astray' = astray
      BY <1>5 DEF HandlerThrows
    <2>3. \A c \in Clients : Blamed(c) => Blamed(c)'
      BY <2>1, <2>2, DismissBlame
    <2>4. \A t \in Servers : outcome'[t] = "sessionError" => outcome[t] = "sessionError"
      BY <1>5 DEF HandlerThrows, TypeOK
    <2>5. QED
      BY <2>3, <2>4 DEF PoliteClientsKeepServerUp, Blamed
  <1>6. ASSUME NEW s \in Servers, WriteResponse(s)
         PROVE  PoliteClientsKeepServerUp'
    <2>1. DismissEffect(s)
      BY <1>6, DismissFacts DEF WriteResponse
    <2>2. astray' = astray
      BY <1>6 DEF WriteResponse
    <2>3. \A c \in Clients : Blamed(c) => Blamed(c)'
      BY <2>1, <2>2, DismissBlame
    <2>4. \A t \in Servers : outcome'[t] = "sessionError" => outcome[t] = "sessionError"
      BY <1>6 DEF WriteResponse, TypeOK
    <2>5. QED
      BY <2>3, <2>4 DEF PoliteClientsKeepServerUp, Blamed
  <1>7. ASSUME NEW s \in Servers, WritePart(s) PROVE PoliteClientsKeepServerUp'
    <2>1. DismissEffect(s)
      BY <1>7, DismissFacts DEF WritePart
    <2>2. astray' = astray
      BY <1>7 DEF WritePart
    <2>3. \A c \in Clients : Blamed(c) => Blamed(c)'
      BY <2>1, <2>2, DismissBlame
    <2>4. \A t \in Servers : outcome'[t] = "sessionError" => outcome[t] = "sessionError"
      BY <1>7 DEF WritePart, TypeOK
    <2>5. QED
      BY <2>3, <2>4 DEF PoliteClientsKeepServerUp, Blamed
  <1>8. ASSUME NEW s \in Servers, WriteFails(s)
         PROVE  PoliteClientsKeepServerUp'
    <2>1. DismissEffect(s)
      BY <1>8, DismissFacts DEF WriteFails, ReturnError
    <2>2. session[s] \in Clients /\ Answered(session[s])
      BY <1>8 DEF WriteFails, Answered, Serving, TypeOK
    <2>3. PICK c \in Clients : c = session[s] /\ Answered(c)
      BY <2>2
    <2>4. Blamed(c)
      BY <1>8, <2>3 DEF WriteFails, Departed, InPlace, Blamed
    <2>5. astray' = astray
      BY <1>8 DEF WriteFails
    <2>6. Blamed(c)'
      BY <2>1, <2>4, <2>5, DismissBlame
    <2>7. QED
      BY <2>6 DEF PoliteClientsKeepServerUp, Blamed
  <1>9. ASSUME NEW s \in Servers, SessionCloses(s)
         PROVE  PoliteClientsKeepServerUp'
    BY <1>9 DEF TypeOK, ResetInv, PoliteClientsKeepServerUp, SessionCloses,
      serverVars, linkVars, clientVars
  <1>10. ASSUME NEW s \in Servers, SessionFails(s)
         PROVE  PoliteClientsKeepServerUp'
    <2>1. PICK c \in Clients : c = session[s] /\ reset[c]
      BY <1>10 DEF SessionFails, TypeOK, Serving
    <2>2. client' = client /\ astray' = astray
      BY <1>10 DEF SessionFails, clientVars
    <2>3. QED
      BY <2>1, <2>2 DEF ResetInv, PoliteClientsKeepServerUp
  <1>11. ASSUME NEW s \in Servers, NEW c \in Clients, HandlerCalls(s, c)
         PROVE  PoliteClientsKeepServerUp'
    BY <1>11 DEF TypeOK, ResetInv, PoliteClientsKeepServerUp, HandlerCalls,
      serverVars, linkVars, clientVars
  <1>12. ASSUME NEW s \in Servers, AcceptFails(s)
         PROVE  PoliteClientsKeepServerUp'
    <2>1. DismissEffect(s)
      BY <1>12, DismissFacts DEF AcceptFails, ReturnError
    <2>2. astray' = astray
      BY <1>12 DEF AcceptFails, ReturnError
    <2>3. \A c \in Clients : Blamed(c) => Blamed(c)'
      BY <2>1, <2>2, DismissBlame
    <2>4. \A t \in Servers : outcome'[t] = "sessionError" => outcome[t] = "sessionError"
      BY <1>12 DEF AcceptFails, ReturnError, TypeOK
    <2>5. QED
      BY <2>3, <2>4 DEF PoliteClientsKeepServerUp, Blamed
  <1>13. ASSUME NEW s \in Servers, Destroy(s) PROVE PoliteClientsKeepServerUp'
    <2>1. DismissEffect(s)
      BY <1>13, DismissFacts DEF Destroy, Vanish
    <2>2. astray' = astray
      BY <1>13 DEF Destroy, Vanish
    <2>3. \A c \in Clients : Blamed(c) => Blamed(c)'
      BY <2>1, <2>2, DismissBlame
    <2>4. \A t \in Servers : outcome'[t] = "sessionError" => outcome[t] = "sessionError"
      BY <1>13 DEF Destroy, Vanish, TypeOK
    <2>5. QED
      BY <2>3, <2>4 DEF PoliteClientsKeepServerUp, Blamed
  <1>14. ASSUME NEW s \in Servers, Crash(s) PROVE PoliteClientsKeepServerUp'
    <2>1. DismissEffect(s)
      BY <1>14, DismissFacts DEF Crash, Vanish
    <2>2. astray' = astray
      BY <1>14 DEF Crash, Vanish
    <2>3. \A c \in Clients : Blamed(c) => Blamed(c)'
      BY <2>1, <2>2, DismissBlame
    <2>4. \A t \in Servers : outcome'[t] = "sessionError" => outcome[t] = "sessionError"
      BY <1>14 DEF Crash, Vanish, TypeOK
    <2>5. QED
      BY <2>3, <2>4 DEF PoliteClientsKeepServerUp, Blamed
  <1>15. ASSUME NEW c \in Clients, Connect(c) PROVE PoliteClientsKeepServerUp'
    BY <1>15 DEF TypeOK, ResetInv, PoliteClientsKeepServerUp, Connect,
      serverVars, linkVars, clientVars
  <1>16. ASSUME NEW c \in Clients, Request(c) PROVE PoliteClientsKeepServerUp'
    BY <1>16 DEF TypeOK, ResetInv, PoliteClientsKeepServerUp, Request,
      serverVars, linkVars, clientVars
  <1>17. ASSUME NEW c \in Clients, RequestBlocks(c)
         PROVE  PoliteClientsKeepServerUp'
    BY <1>17 DEF TypeOK, ResetInv, PoliteClientsKeepServerUp, RequestBlocks,
      serverVars, linkVars, clientVars
  <1>18. ASSUME NEW c \in Clients, RequestRest(c)
         PROVE  PoliteClientsKeepServerUp'
    BY <1>18 DEF TypeOK, ResetInv, PoliteClientsKeepServerUp, RequestRest,
      serverVars, linkVars, clientVars
  <1>19. ASSUME NEW c \in Clients, RequestFails(c)
         PROVE  PoliteClientsKeepServerUp'
    BY <1>19 DEF TypeOK, ResetInv, PoliteClientsKeepServerUp, RequestFails,
      serverVars, linkVars, clientVars
  <1>20. ASSUME NEW c \in Clients, ReceiveReply(c)
         PROVE  PoliteClientsKeepServerUp'
    BY <1>20 DEF TypeOK, ResetInv, PoliteClientsKeepServerUp, ReceiveReply,
      serverVars, linkVars, clientVars
  <1>21. ASSUME NEW c \in Clients, ReceivePart(c)
         PROVE  PoliteClientsKeepServerUp'
    BY <1>21 DEF TypeOK, ResetInv, PoliteClientsKeepServerUp, ReceivePart,
      serverVars, linkVars, clientVars
  <1>22. ASSUME NEW c \in Clients, ReceiveFails(c)
         PROVE  PoliteClientsKeepServerUp'
    BY <1>22 DEF TypeOK, ResetInv, PoliteClientsKeepServerUp, ReceiveFails,
      serverVars, linkVars, clientVars
  <1>23. ASSUME NEW c \in Clients, Leave(c) PROVE PoliteClientsKeepServerUp'
    <2>1. CloseEffect(c, "left")
      BY <1>23, CloseFacts DEF Leave
    <2>2. QED
      BY <1>23, <2>1 DEF TypeOK, ResetInv, PoliteClientsKeepServerUp, Leave,
        CloseEffect, serverVars, linkVars, clientVars
  <1>24. ASSUME NEW c \in Clients, Abandon(c) PROVE PoliteClientsKeepServerUp'
    <2>1. CloseEffect(c, "abandoned")
      BY <1>24, CloseFacts DEF Abandon
    <2>2. QED
      BY <1>24, <2>1 DEF TypeOK, ResetInv, PoliteClientsKeepServerUp,
        Abandon, CloseEffect, Calling, serverVars, linkVars, clientVars
  <1>25. CASE UNCHANGED vars
    BY <1>25 DEF TypeOK, ResetInv, PoliteClientsKeepServerUp, vars,
      serverVars, linkVars, clientVars
  <1>26. QED
    BY <1>1, <1>2, <1>3, <1>4, <1>5, <1>6, <1>7, <1>8, <1>9, <1>10, <1>11,
      <1>12, <1>13, <1>14, <1>15, <1>16, <1>17, <1>18, <1>19, <1>20, <1>21,
      <1>22, <1>23, <1>24, <1>25, SessionEndsCases DEF Next, ServerStep,
      ClientStep

\* Every step keeps the requests.
LEMMA RequestsStep ==
    TypeOK /\ Places /\ InnerOwned /\ RequestsInv /\ [Next]_vars => RequestsInv'
  <1> SUFFICES ASSUME TypeOK, Places, InnerOwned, RequestsInv, [Next]_vars PROVE RequestsInv'
    OBVIOUS
  <1>1. ASSUME NEW s \in Servers, Construct(s) PROVE RequestsInv'
    BY <1>1 DEF TypeOK, Places, InnerOwned, RequestsInv, Answering, Serving,
      Calling, Construct, serverVars, linkVars, clientVars
  <1>2. ASSUME NEW s \in Servers, Start(s) PROVE RequestsInv'
    BY <1>2 DEF TypeOK, Places, InnerOwned, RequestsInv, Answering, Serving,
      Calling, Start, serverVars, linkVars, clientVars
  <1>3. ASSUME NEW s \in Servers, Accept(s) PROVE RequestsInv'
    BY <1>3, TailFacts DEF TypeOK, Places, InnerOwned, RequestsInv,
      Answering, Serving, Calling, Accept, serverVars, linkVars, clientVars
  <1>4. ASSUME NEW s \in Servers, HandleRequest(s) PROVE RequestsInv'
    BY <1>4 DEF TypeOK, Places, InnerOwned, RequestsInv, Answering, Serving,
      Calling, HandleRequest, serverVars, linkVars, clientVars
  <1>5. ASSUME NEW s \in Servers, HandlerThrows(s) PROVE RequestsInv'
    <2>1. DismissEffect(s)
      BY <1>5, DismissFacts DEF HandlerThrows
    <2>2. QED
      BY <1>5, <2>1 DEF TypeOK, Places, InnerOwned, RequestsInv, Answering,
        Serving, Calling, HandlerThrows, DismissEffect, serverVars, linkVars,
        clientVars
  <1>6. ASSUME NEW s \in Servers, WriteResponse(s) PROVE RequestsInv'
    <2>1. DismissEffect(s)
      BY <1>6, DismissFacts DEF WriteResponse
    <2>2. QED
      BY <1>6, <2>1 DEF TypeOK, Places, InnerOwned, RequestsInv, Answering,
        Serving, Calling, WriteResponse, DismissEffect, serverVars, linkVars,
        clientVars
  <1>7. ASSUME NEW s \in Servers, WritePart(s) PROVE RequestsInv'
    <2>1. DismissEffect(s)
      BY <1>7, DismissFacts DEF WritePart
    <2>2. QED
      BY <1>7, <2>1 DEF TypeOK, Places, InnerOwned, RequestsInv, Answering,
        Serving, Calling, WritePart, DismissEffect, serverVars, linkVars,
        clientVars
  <1>8. ASSUME NEW s \in Servers, WriteFails(s) PROVE RequestsInv'
    <2>1. DismissEffect(s)
      BY <1>8, DismissFacts DEF WriteFails, ReturnError
    <2>2. QED
      BY <1>8, <2>1 DEF TypeOK, Places, InnerOwned, RequestsInv, Answering,
        Serving, Calling, WriteFails, ReturnError, DismissEffect, serverVars,
        linkVars, clientVars
  <1>9. ASSUME NEW s \in Servers, SessionCloses(s) PROVE RequestsInv'
    BY <1>9 DEF TypeOK, Places, InnerOwned, RequestsInv, Answering, Serving,
      Calling, SessionCloses, serverVars, linkVars, clientVars
  <1>10. ASSUME NEW s \in Servers, SessionFails(s) PROVE RequestsInv'
    BY <1>10 DEF TypeOK, Places, InnerOwned, RequestsInv, Answering,
      Serving, Calling, SessionFails, serverVars, linkVars, clientVars
  <1>11. ASSUME NEW s \in Servers, NEW c \in Clients, HandlerCalls(s, c)
         PROVE  RequestsInv'
    <2>1. CallEffect(s, c)
      BY <1>11, CallFacts
    <2>2. PICK t \in Servers : backlog' = [backlog EXCEPT ![t] = Append(backlog[t], c)]
      BY <2>1 DEF CallEffect
    <2>3. \A u \in Servers, d \in Clients :
              Contains(backlog'[u], d) => Contains(backlog[u], d) \/ d = c
      BY <2>2, AppendFacts DEF TypeOK
    <2>4. /\ server' = server /\ session' = session /\ unread' = unread
          /\ client'[c] = "waiting" => requests'[c] = 1
          /\ \A d \in Clients : d # c => client'[d] = client[d] /\ requests'[d] = requests[d]
      BY <2>1 DEF CallEffect
    <2>5. ASSUME NEW u \in Servers, session[u] # NoOne PROVE session[u] \in Clients \ {c}
      BY <2>1, <2>5 DEF CallEffect, Places, TypeOK
    <2>6. QED
      BY <2>3, <2>4, <2>5 DEF RequestsInv, Answering
  <1>12. ASSUME NEW s \in Servers, AcceptFails(s) PROVE RequestsInv'
    <2>1. DismissEffect(s)
      BY <1>12, DismissFacts DEF AcceptFails, ReturnError
    <2>2. QED
      BY <1>12, <2>1 DEF TypeOK, Places, InnerOwned, RequestsInv, Answering,
        Serving, Calling, AcceptFails, ReturnError, DismissEffect, serverVars,
        linkVars, clientVars
  <1>13. ASSUME NEW s \in Servers, Destroy(s) PROVE RequestsInv'
    <2>1. DismissEffect(s)
      BY <1>13, DismissFacts DEF Destroy, Vanish
    <2>2. QED
      BY <1>13, <2>1, EmptyFacts DEF TypeOK, Places, InnerOwned,
        RequestsInv, Answering, Serving, Calling, Destroy, Vanish,
        DismissEffect, serverVars, linkVars, clientVars
  <1>14. ASSUME NEW s \in Servers, Crash(s) PROVE RequestsInv'
    <2>1. DismissEffect(s)
      BY <1>14, DismissFacts DEF Crash, Vanish
    <2>2. QED
      BY <1>14, <2>1, EmptyFacts DEF TypeOK, Places, InnerOwned,
        RequestsInv, Answering, Serving, Calling, Crash, Vanish,
        DismissEffect, serverVars, linkVars, clientVars
  <1>15. ASSUME NEW c \in Clients, Connect(c) PROVE RequestsInv'
    BY <1>15, AppendFacts DEF TypeOK, Places, InnerOwned, RequestsInv,
      Answering, Serving, Calling, Connect, serverVars, linkVars, clientVars
  <1>16. ASSUME NEW c \in Clients, Request(c) PROVE RequestsInv'
    BY <1>16 DEF TypeOK, Places, InnerOwned, RequestsInv, Answering,
      Serving, Calling, Request, serverVars, linkVars, clientVars
  <1>17. ASSUME NEW c \in Clients, RequestBlocks(c) PROVE RequestsInv'
    BY <1>17 DEF TypeOK, Places, InnerOwned, RequestsInv, Answering,
      Serving, Calling, RequestBlocks, serverVars, linkVars, clientVars
  <1>18. ASSUME NEW c \in Clients, RequestRest(c) PROVE RequestsInv'
    BY <1>18 DEF TypeOK, Places, InnerOwned, RequestsInv, Answering,
      Serving, Calling, RequestRest, serverVars, linkVars, clientVars
  <1>19. ASSUME NEW c \in Clients, RequestFails(c) PROVE RequestsInv'
    BY <1>19 DEF TypeOK, Places, InnerOwned, RequestsInv, Answering,
      Serving, Calling, RequestFails, serverVars, linkVars, clientVars
  <1>20. ASSUME NEW c \in Clients, ReceiveReply(c) PROVE RequestsInv'
    BY <1>20 DEF TypeOK, Places, InnerOwned, RequestsInv, Answering,
      Serving, Calling, ReceiveReply, serverVars, linkVars, clientVars
  <1>21. ASSUME NEW c \in Clients, ReceivePart(c) PROVE RequestsInv'
    BY <1>21 DEF TypeOK, Places, InnerOwned, RequestsInv, Answering,
      Serving, Calling, ReceivePart, serverVars, linkVars, clientVars
  <1>22. ASSUME NEW c \in Clients, ReceiveFails(c) PROVE RequestsInv'
    BY <1>22 DEF TypeOK, Places, InnerOwned, RequestsInv, Answering,
      Serving, Calling, ReceiveFails, serverVars, linkVars, clientVars
  <1>23. ASSUME NEW c \in Clients, Leave(c) PROVE RequestsInv'
    <2>1. CloseEffect(c, "left")
      BY <1>23, CloseFacts DEF Leave
    <2>2. QED
      BY <1>23, <2>1 DEF TypeOK, Places, InnerOwned, RequestsInv, Answering,
        Serving, Calling, Leave, CloseEffect, serverVars, linkVars, clientVars
  <1>24. ASSUME NEW c \in Clients, Abandon(c) PROVE RequestsInv'
    <2>1. CloseEffect(c, "abandoned")
      BY <1>24, CloseFacts DEF Abandon
    <2>2. QED
      BY <1>24, <2>1 DEF TypeOK, Places, InnerOwned, RequestsInv, Answering,
        Serving, Calling, Abandon, CloseEffect, serverVars, linkVars,
        clientVars
  <1>25. CASE UNCHANGED vars
    BY <1>25 DEF TypeOK, Places, InnerOwned, RequestsInv, Answering,
      Serving, Calling, vars, serverVars, linkVars, clientVars
  <1>26. QED
    BY <1>1, <1>2, <1>3, <1>4, <1>5, <1>6, <1>7, <1>8, <1>9, <1>10, <1>11,
      <1>12, <1>13, <1>14, <1>15, <1>16, <1>17, <1>18, <1>19, <1>20, <1>21,
      <1>22, <1>23, <1>24, <1>25, SessionEndsCases DEF Next, ServerStep,
      ClientStep

-----------------------------------------------------------------------------
(* What holds of servers that are started once.                             *)

\* RunningServerIsReachable, and that the file stays until start has begun.
ReachInv ==
    /\ RunningServerIsReachable
    /\ \A s \in Servers : server[s] = "unborn" => starts[s] = 0
    /\ \A s \in Servers : Running(s) => starts[s] > 0
    /\ \A s \in Servers : server[s] = "stopped" /\ starts[s] = 0 => path = s

\* The client that a handler waits with is in its own server's backlog.
InnerInv ==
    \A s \in Servers : inner[s] # NoOne =>
        /\ Calling(inner[s])
        /\ unread[inner[s]] = "nothing"
        /\ Contains(backlog[s], inner[s])

\* Every step keeps running servers reachable.
LEMMA ReachStep ==
    TypeOK /\ MaxStarts <= 1 /\ ReachInv /\ [Next]_vars => ReachInv'
  <1> SUFFICES ASSUME TypeOK, MaxStarts <= 1, ReachInv, [Next]_vars PROVE ReachInv'
    OBVIOUS
  <1>1. ASSUME NEW s \in Servers, Construct(s) PROVE ReachInv'
    BY <1>1 DEF TypeOK, ReachInv, RunningServerIsReachable, Running,
      Serving, Answering, Construct, serverVars, linkVars, clientVars
  <1>2. ASSUME NEW s \in Servers, Start(s) PROVE ReachInv'
    BY <1>2 DEF TypeOK, ReachInv, RunningServerIsReachable, Running,
      Serving, Answering, Start, serverVars, linkVars, clientVars
  <1>3. ASSUME NEW s \in Servers, Accept(s) PROVE ReachInv'
    BY <1>3 DEF TypeOK, ReachInv, RunningServerIsReachable, Running,
      Serving, Answering, Accept, serverVars, linkVars, clientVars
  <1>4. ASSUME NEW s \in Servers, HandleRequest(s) PROVE ReachInv'
    BY <1>4 DEF TypeOK, ReachInv, RunningServerIsReachable, Running,
      Serving, Answering, HandleRequest, serverVars, linkVars, clientVars
  <1>5. ASSUME NEW s \in Servers, HandlerThrows(s) PROVE ReachInv'
    <2>1. DismissEffect(s)
      BY <1>5, DismissFacts DEF HandlerThrows
    <2>2. QED
      BY <1>5, <2>1 DEF TypeOK, ReachInv, RunningServerIsReachable, Running,
        Serving, Answering, HandlerThrows, DismissEffect, serverVars,
        linkVars, clientVars
  <1>6. ASSUME NEW s \in Servers, WriteResponse(s) PROVE ReachInv'
    <2>1. DismissEffect(s)
      BY <1>6, DismissFacts DEF WriteResponse
    <2>2. QED
      BY <1>6, <2>1 DEF TypeOK, ReachInv, RunningServerIsReachable, Running,
        Serving, Answering, WriteResponse, DismissEffect, serverVars,
        linkVars, clientVars
  <1>7. ASSUME NEW s \in Servers, WritePart(s) PROVE ReachInv'
    <2>1. DismissEffect(s)
      BY <1>7, DismissFacts DEF WritePart
    <2>2. QED
      BY <1>7, <2>1 DEF TypeOK, ReachInv, RunningServerIsReachable, Running,
        Serving, Answering, WritePart, DismissEffect, serverVars, linkVars,
        clientVars
  <1>8. ASSUME NEW s \in Servers, WriteFails(s) PROVE ReachInv'
    <2>1. DismissEffect(s)
      BY <1>8, DismissFacts DEF WriteFails, ReturnError
    <2>2. QED
      BY <1>8, <2>1 DEF TypeOK, ReachInv, RunningServerIsReachable, Running,
        Serving, Answering, WriteFails, ReturnError, DismissEffect,
        serverVars, linkVars, clientVars
  <1>9. ASSUME NEW s \in Servers, SessionCloses(s) PROVE ReachInv'
    BY <1>9 DEF TypeOK, ReachInv, RunningServerIsReachable, Running,
      Serving, Answering, SessionCloses, serverVars, linkVars, clientVars
  <1>10. ASSUME NEW s \in Servers, SessionFails(s) PROVE ReachInv'
    BY <1>10 DEF TypeOK, ReachInv, RunningServerIsReachable, Running,
      Serving, Answering, SessionFails, serverVars, linkVars, clientVars
  <1>11. ASSUME NEW s \in Servers, NEW c \in Clients, HandlerCalls(s, c)
         PROVE  ReachInv'
    BY <1>11 DEF TypeOK, ReachInv, RunningServerIsReachable, Running,
      Serving, Answering, HandlerCalls, serverVars, linkVars, clientVars
  <1>12. ASSUME NEW s \in Servers, AcceptFails(s) PROVE ReachInv'
    <2>1. DismissEffect(s)
      BY <1>12, DismissFacts DEF AcceptFails, ReturnError
    <2>2. QED
      BY <1>12, <2>1 DEF TypeOK, ReachInv, RunningServerIsReachable,
        Running, Serving, Answering, AcceptFails, ReturnError, DismissEffect,
        serverVars, linkVars, clientVars
  <1>13. ASSUME NEW s \in Servers, Destroy(s) PROVE ReachInv'
    <2>1. DismissEffect(s)
      BY <1>13, DismissFacts DEF Destroy, Vanish
    <2>2. QED
      BY <1>13, <2>1 DEF TypeOK, ReachInv, RunningServerIsReachable,
        Running, Serving, Answering, Destroy, Vanish, DismissEffect,
        serverVars, linkVars, clientVars
  <1>14. ASSUME NEW s \in Servers, Crash(s) PROVE ReachInv'
    <2>1. DismissEffect(s)
      BY <1>14, DismissFacts DEF Crash, Vanish
    <2>2. QED
      BY <1>14, <2>1 DEF TypeOK, ReachInv, RunningServerIsReachable,
        Running, Serving, Answering, Crash, Vanish, DismissEffect, serverVars,
        linkVars, clientVars
  <1>15. ASSUME NEW c \in Clients, Connect(c) PROVE ReachInv'
    BY <1>15 DEF TypeOK, ReachInv, RunningServerIsReachable, Running,
      Serving, Answering, Connect, serverVars, linkVars, clientVars
  <1>16. ASSUME NEW c \in Clients, Request(c) PROVE ReachInv'
    BY <1>16 DEF TypeOK, ReachInv, RunningServerIsReachable, Running,
      Serving, Answering, Request, serverVars, linkVars, clientVars
  <1>17. ASSUME NEW c \in Clients, RequestBlocks(c) PROVE ReachInv'
    BY <1>17 DEF TypeOK, ReachInv, RunningServerIsReachable, Running,
      Serving, Answering, RequestBlocks, serverVars, linkVars, clientVars
  <1>18. ASSUME NEW c \in Clients, RequestRest(c) PROVE ReachInv'
    BY <1>18 DEF TypeOK, ReachInv, RunningServerIsReachable, Running,
      Serving, Answering, RequestRest, serverVars, linkVars, clientVars
  <1>19. ASSUME NEW c \in Clients, RequestFails(c) PROVE ReachInv'
    BY <1>19 DEF TypeOK, ReachInv, RunningServerIsReachable, Running,
      Serving, Answering, RequestFails, serverVars, linkVars, clientVars
  <1>20. ASSUME NEW c \in Clients, ReceiveReply(c) PROVE ReachInv'
    BY <1>20 DEF TypeOK, ReachInv, RunningServerIsReachable, Running,
      Serving, Answering, ReceiveReply, serverVars, linkVars, clientVars
  <1>21. ASSUME NEW c \in Clients, ReceivePart(c) PROVE ReachInv'
    BY <1>21 DEF TypeOK, ReachInv, RunningServerIsReachable, Running,
      Serving, Answering, ReceivePart, serverVars, linkVars, clientVars
  <1>22. ASSUME NEW c \in Clients, ReceiveFails(c) PROVE ReachInv'
    BY <1>22 DEF TypeOK, ReachInv, RunningServerIsReachable, Running,
      Serving, Answering, ReceiveFails, serverVars, linkVars, clientVars
  <1>23. ASSUME NEW c \in Clients, Leave(c) PROVE ReachInv'
    <2>1. CloseEffect(c, "left")
      BY <1>23, CloseFacts DEF Leave
    <2>2. QED
      BY <1>23, <2>1 DEF TypeOK, ReachInv, RunningServerIsReachable,
        Running, Serving, Answering, Leave, CloseEffect, serverVars, linkVars,
        clientVars
  <1>24. ASSUME NEW c \in Clients, Abandon(c) PROVE ReachInv'
    <2>1. CloseEffect(c, "abandoned")
      BY <1>24, CloseFacts DEF Abandon
    <2>2. QED
      BY <1>24, <2>1 DEF TypeOK, ReachInv, RunningServerIsReachable,
        Running, Serving, Answering, Abandon, CloseEffect, serverVars,
        linkVars, clientVars
  <1>25. CASE UNCHANGED vars
    BY <1>25 DEF TypeOK, ReachInv, RunningServerIsReachable, Running,
      Serving, Answering, vars, serverVars, linkVars, clientVars
  <1>26. QED
    BY <1>1, <1>2, <1>3, <1>4, <1>5, <1>6, <1>7, <1>8, <1>9, <1>10, <1>11,
      <1>12, <1>13, <1>14, <1>15, <1>16, <1>17, <1>18, <1>19, <1>20, <1>21,
      <1>22, <1>23, <1>24, <1>25, SessionEndsCases DEF Next, ServerStep,
      ClientStep

\* Every step keeps handlers waiting on their own servers.
LEMMA InnerWaits ==
    TypeOK /\ Places /\ InnerOwned /\ InPlace /\ ReachInv /\ InnerInv /\ [Next]_vars => InnerInv'
  <1> SUFFICES ASSUME TypeOK, Places, InnerOwned, InPlace, ReachInv, InnerInv, [Next]_vars PROVE InnerInv'
    OBVIOUS
  <1>1. ASSUME NEW s \in Servers, Construct(s) PROVE InnerInv'
    BY <1>1 DEF TypeOK, Places, InnerOwned, InnerInv, Calling, Construct,
      serverVars, linkVars, clientVars
  <1>2. ASSUME NEW s \in Servers, Start(s) PROVE InnerInv'
    BY <1>2 DEF TypeOK, Places, InnerOwned, InnerInv, Calling, Start,
      serverVars, linkVars, clientVars
  <1>3. ASSUME NEW s \in Servers, Accept(s) PROVE InnerInv'
    BY <1>3, TailFacts DEF TypeOK, Places, InnerOwned, InnerInv, Calling,
      Accept, serverVars, linkVars, clientVars
  <1>4. ASSUME NEW s \in Servers, HandleRequest(s) PROVE InnerInv'
    BY <1>4 DEF TypeOK, Places, InnerOwned, InnerInv, Calling,
      HandleRequest, serverVars, linkVars, clientVars
  <1>5. ASSUME NEW s \in Servers, HandlerThrows(s) PROVE InnerInv'
    <2>1. DismissEffect(s)
      BY <1>5, DismissFacts DEF HandlerThrows
    <2>2. QED
      BY <1>5, <2>1 DEF TypeOK, Places, InnerOwned, InnerInv, Calling,
        HandlerThrows, DismissEffect, HandlerDone, serverVars, linkVars,
        clientVars
  <1>6. ASSUME NEW s \in Servers, WriteResponse(s) PROVE InnerInv'
    <2>1. DismissEffect(s)
      BY <1>6, DismissFacts DEF WriteResponse
    <2>2. QED
      BY <1>6, <2>1 DEF TypeOK, Places, InnerOwned, InnerInv, Calling,
        WriteResponse, DismissEffect, serverVars, linkVars, clientVars
  <1>7. ASSUME NEW s \in Servers, WritePart(s) PROVE InnerInv'
    <2>1. DismissEffect(s)
      BY <1>7, DismissFacts DEF WritePart
    <2>2. QED
      BY <1>7, <2>1 DEF TypeOK, Places, InnerOwned, InnerInv, Calling,
        WritePart, DismissEffect, serverVars, linkVars, clientVars
  <1>8. ASSUME NEW s \in Servers, WriteFails(s) PROVE InnerInv'
    <2>1. DismissEffect(s)
      BY <1>8, DismissFacts DEF WriteFails, ReturnError
    <2>2. QED
      BY <1>8, <2>1 DEF TypeOK, Places, InnerOwned, InnerInv, Calling,
        WriteFails, ReturnError, DismissEffect, serverVars, linkVars,
        clientVars
  <1>9. ASSUME NEW s \in Servers, SessionCloses(s) PROVE InnerInv'
    BY <1>9 DEF TypeOK, Places, InnerOwned, InnerInv, Calling,
      SessionCloses, serverVars, linkVars, clientVars
  <1>10. ASSUME NEW s \in Servers, SessionFails(s) PROVE InnerInv'
    BY <1>10 DEF TypeOK, Places, InnerOwned, InnerInv, Calling,
      SessionFails, serverVars, linkVars, clientVars
  <1>11. ASSUME NEW s \in Servers, NEW c \in Clients, HandlerCalls(s, c)
         PROVE  InnerInv'
    <2>1. CallEffect(s, c)
      BY <1>11, CallFacts
    <2>2. path = s
      BY <2>1 DEF CallEffect, ReachInv, RunningServerIsReachable, Running, Serving, Answering
    <2>3. backlog' = [backlog EXCEPT ![s] = Append(backlog[s], c)]
      BY <2>1, <2>2 DEF CallEffect
    <2>4. unread[c] = "nothing"
      BY <2>1 DEF CallEffect, InPlace
    <2>5. Contains(backlog'[s], c) /\ \A t \in Servers : t # s => backlog'[t] = backlog[t]
      BY <2>3, AppendFacts DEF TypeOK
    <2>6. ASSUME NEW t \in Servers, inner'[t] # NoOne
          PROVE  /\ client'[inner'[t]] \in {"blocked", "waiting"}
                 /\ unread'[inner'[t]] = "nothing"
                 /\ Contains(backlog'[t], inner'[t])
      <3>1. CASE t = s
        BY <2>1, <2>4, <2>5, <3>1 DEF CallEffect, TypeOK
      <3>2. CASE t # s
        <4>1. inner'[t] = inner[t] /\ inner[t] \in Clients /\ backlog'[t] = backlog[t]
          BY <2>1, <2>5, <2>6, <3>2 DEF CallEffect, TypeOK
        <4>2. /\ client[inner[t]] \in {"blocked", "waiting"}
              /\ unread[inner[t]] = "nothing"
              /\ Contains(backlog[t], inner[t])
          BY <2>6, <4>1 DEF InnerInv, Calling
        <4>3. inner[t] # c
          BY <2>1, <4>2 DEF CallEffect
        <4>4. QED
          BY <2>1, <4>1, <4>2, <4>3 DEF CallEffect
      <3>3. QED
        BY <3>1, <3>2
    <2>7. QED
      BY <2>6 DEF InnerInv, Calling
  <1>12. ASSUME NEW s \in Servers, AcceptFails(s) PROVE InnerInv'
    <2>1. DismissEffect(s)
      BY <1>12, DismissFacts DEF AcceptFails, ReturnError
    <2>2. QED
      BY <1>12, <2>1 DEF TypeOK, Places, InnerOwned, InnerInv, Calling,
        AcceptFails, ReturnError, DismissEffect, serverVars, linkVars,
        clientVars
  <1>13. ASSUME NEW s \in Servers, Destroy(s) PROVE InnerInv'
    <2>1. DismissEffect(s)
      BY <1>13, DismissFacts DEF Destroy, Vanish
    <2>2. QED
      BY <1>13, <2>1, EmptyFacts DEF TypeOK, Places, InnerOwned, InnerInv,
        Calling, Destroy, Vanish, DismissEffect, serverVars, linkVars,
        clientVars
  <1>14. ASSUME NEW s \in Servers, Crash(s) PROVE InnerInv'
    <2>1. DismissEffect(s)
      BY <1>14, DismissFacts DEF Crash, Vanish
    <2>2. QED
      BY <1>14, <2>1, EmptyFacts DEF TypeOK, Places, InnerOwned, InnerInv,
        Calling, Crash, Vanish, DismissEffect, serverVars, linkVars,
        clientVars
  <1>15. ASSUME NEW c \in Clients, Connect(c) PROVE InnerInv'
    BY <1>15, AppendFacts DEF TypeOK, Places, InnerOwned, InnerInv, Calling,
      Connect, serverVars, linkVars, clientVars
  <1>16. ASSUME NEW c \in Clients, Request(c) PROVE InnerInv'
    BY <1>16 DEF TypeOK, Places, InnerOwned, InnerInv, Calling, Request,
      Free, serverVars, linkVars, clientVars
  <1>17. ASSUME NEW c \in Clients, RequestBlocks(c) PROVE InnerInv'
    BY <1>17 DEF TypeOK, Places, InnerOwned, InnerInv, Calling,
      RequestBlocks, Free, serverVars, linkVars, clientVars
  <1>18. ASSUME NEW c \in Clients, RequestRest(c) PROVE InnerInv'
    BY <1>18 DEF TypeOK, Places, InnerOwned, InnerInv, Calling, RequestRest,
      serverVars, linkVars, clientVars
  <1>19. ASSUME NEW c \in Clients, RequestFails(c) PROVE InnerInv'
    BY <1>19 DEF TypeOK, Places, InnerOwned, InnerInv, Calling,
      RequestFails, Connected, serverVars, linkVars, clientVars
  <1>20. ASSUME NEW c \in Clients, ReceiveReply(c) PROVE InnerInv'
    BY <1>20 DEF TypeOK, Places, InnerOwned, InnerInv, Calling,
      ReceiveReply, serverVars, linkVars, clientVars
  <1>21. ASSUME NEW c \in Clients, ReceivePart(c) PROVE InnerInv'
    BY <1>21 DEF TypeOK, Places, InnerOwned, InnerInv, Calling, ReceivePart,
      serverVars, linkVars, clientVars
  <1>22. ASSUME NEW c \in Clients, ReceiveFails(c) PROVE InnerInv'
    BY <1>22 DEF TypeOK, Places, InnerOwned, InnerInv, Calling,
      ReceiveFails, Connected, serverVars, linkVars, clientVars
  <1>23. ASSUME NEW c \in Clients, Leave(c) PROVE InnerInv'
    <2>1. CloseEffect(c, "left")
      BY <1>23, CloseFacts DEF Leave
    <2>2. QED
      BY <1>23, <2>1 DEF TypeOK, Places, InnerOwned, InnerInv, Calling,
        Leave, CloseEffect, Free, serverVars, linkVars, clientVars
  <1>24. ASSUME NEW c \in Clients, Abandon(c) PROVE InnerInv'
    <2>1. CloseEffect(c, "abandoned")
      BY <1>24, CloseFacts DEF Abandon
    <2>2. QED
      BY <1>24, <2>1 DEF TypeOK, Places, InnerOwned, InnerInv, Calling,
        Abandon, CloseEffect, Free, serverVars, linkVars, clientVars
  <1>25. CASE UNCHANGED vars
    BY <1>25 DEF TypeOK, Places, InnerOwned, InnerInv, Calling, vars,
      serverVars, linkVars, clientVars
  <1>26. QED
    BY <1>1, <1>2, <1>3, <1>4, <1>5, <1>6, <1>7, <1>8, <1>9, <1>10, <1>11,
      <1>12, <1>13, <1>14, <1>15, <1>16, <1>17, <1>18, <1>19, <1>20, <1>21,
      <1>22, <1>23, <1>24, <1>25, SessionEndsCases DEF Next, ServerStep,
      ClientStep

-----------------------------------------------------------------------------
(* The theorems.                                                            *)

Inv ==
    /\ TypeOK /\ Places /\ InnerOwned /\ InPlace /\ ResetInv
    /\ FailureInv /\ PoliteClientsKeepServerUp /\ RequestsInv

InvOnce == ReachInv /\ InnerInv

\* The invariant holds in every reachable state, whatever the number of starts.
LEMMA Inductive == Spec => []Inv
  <1>1. Init => Inv
    <2>1. SUFFICES ASSUME Init PROVE Inv
      OBVIOUS
    <2>2. TypeOK
      BY <2>1 DEF Init, TypeOK, Serving, Answering
    <2>3. Places /\ InnerOwned /\ RequestsInv
      BY <2>1, EmptyFacts DEF Init, Places, InnerOwned, RequestsInv
    <2>4. InPlace /\ ResetInv
      BY <2>1 DEF Init, InPlace, ResetInv, Answered
    <2>5. FailureInv /\ PoliteClientsKeepServerUp
      BY <2>1 DEF Init, FailureInv, FailureFreesPath, PoliteClientsKeepServerUp
    <2>6. QED
      BY <2>2, <2>3, <2>4, <2>5 DEF Inv
  <1>2. Inv /\ [Next]_vars => Inv'
    BY TypeStep, PlacesStep, InnerStep, InPlaceStep, ResetStep, FailureStep, PoliteStep,
       RequestsStep DEF Inv
  <1>3. QED
    BY <1>1, <1>2, PTL DEF Spec

\* With one start at most, a running server stays reachable as well.
LEMMA InductiveOnce == ASSUME MaxStarts <= 1 PROVE Spec => []InvOnce
  <1>1. Init => InvOnce
    BY DEF Init, InvOnce, ReachInv, InnerInv, RunningServerIsReachable, Running, Serving,
           Answering
  <1>2. Inv /\ InvOnce /\ [Next]_vars => InvOnce'
    BY ReachStep, InnerWaits DEF Inv, InvOnce
  <1>3. QED
    BY <1>1, <1>2, Inductive, PTL DEF Spec

\* Every variable of the servers and clients keeps its type.
THEOREM TypeCorrect == Spec => []TypeOK
  <1>1. Inv => TypeOK
    BY DEF Inv
  <1>2. QED
    BY <1>1, Inductive, PTL

\* A failed server leaves the path to others, however often it was started.
THEOREM FailureFreesPathCorrect == Spec => []FailureFreesPath
  <1>1. Inv => FailureFreesPath
    BY DEF Inv, FailureInv
  <1>2. QED
    BY <1>1, Inductive, PTL

\* A session fails only for a client that goes away inside a call, or after it
\* read a reply in part.
THEOREM PoliteClientsKeepServerUpCorrect == Spec => []PoliteClientsKeepServerUp
  <1>1. Inv => PoliteClientsKeepServerUp
    BY DEF Inv
  <1>2. QED
    BY <1>1, Inductive, PTL

\* No request is lost on a connection that lives.
THEOREM NoLostRequestCorrect == Spec => []NoLostRequest
  <1>1. ASSUME Inv, NEW c \in Clients, client[c] = "waiting", Connected(c)
        PROVE  requests[c] > 0 \/ unread[c] # "nothing" \/ Answered(c)
    <2>1. PICK s \in Servers : session[s] = c \/ Contains(backlog[s], c)
      BY <1>1 DEF Connected
    <2>2. QED
      BY <1>1, <2>1 DEF Inv, RequestsInv, Answered
  <1>2. Inv => NoLostRequest
    BY <1>1 DEF NoLostRequest, Answered
  <1>3. QED
    BY <1>2, Inductive, PTL

\* A client that keeps its place in the stream and its server never block each
\* other, whatever the other clients do.
THEOREM WritesBlockAfterPartialReadCorrect == Spec => []WritesBlockAfterPartialRead
  <1>1. ASSUME Inv, NEW s \in Servers, Deadlocked(s) PROVE astray[session[s]]
    <2>1. session[s] \in Clients /\ Answered(session[s])
      BY <1>1 DEF Deadlocked, Inv, TypeOK, Serving, Answering, Answered
    <2>2. client[session[s]] = "blocked" /\ InPlace
      BY <1>1 DEF Deadlocked, Inv
    <2>3. QED
      BY <2>1, <2>2 DEF InPlace
  <1>2. Inv => WritesBlockAfterPartialRead
    BY <1>1 DEF WritesBlockAfterPartialRead
  <1>3. QED
    BY <1>2, Inductive, PTL

\* While a server runs, the path leads to it, if servers are started once.
THEOREM RunningServerIsReachableCorrect ==
    ASSUME MaxStarts <= 1 PROVE Spec => []RunningServerIsReachable
  <1>1. InvOnce => RunningServerIsReachable
    BY DEF InvOnce, ReachInv
  <1>2. QED
    BY <1>1, InductiveOnce, PTL

\* A handler's call of its own server waits until the server ends, if servers
\* are started once.
THEOREM InnerCallNeverSettlesCorrect ==
    ASSUME MaxStarts <= 1 PROVE Spec => []InnerCallNeverSettles
  <1>1. InvOnce => InnerCallNeverSettles
    BY DEF InvOnce, InnerInv, InnerCallNeverSettles
  <1>2. QED
    BY <1>1, InductiveOnce, PTL
=============================================================================
