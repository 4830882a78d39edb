---------------------------- MODULE NavTreeProofs ----------------------------
(***************************************************************************)
(* Proofs about NavTree: the types, that every node is made once, and that *)
(* the quiet tree shows the link last looked for, for every tree and every *)
(* index.                                                                  *)
(***************************************************************************)
EXTENDS NavTree, DataLemmas

(* The inductive invariant *)

Requests ==
    [kind : {"index"}, link : Links]
        \cup [kind : {"show"}, data : Opens, node : Nodes, at : 1 .. MaxPath,
              hash : Hashes \cup {NoHash}]
        \cup [kind : {"expand"}, data : Opens]

(* What is requested is a node's script, or the index; a walk goes on along *)
(* breadcrumbs that are there.                                              *)
RequestsOK ==
    /\ pending \in Seq(Requests)
    /\ \A k \in DOMAIN pending : pending[k].kind = "show" => crumbs \in Paths

(* Until the index is there nothing is made, and nothing else requested. *)
IndexFirst ==
    ~index =>
        /\ visited = {} /\ selected = {}
        /\ \A k \in DOMAIN pending : pending[k].kind = "index"

(* The selected nodes are made, and have the link that g leads to. *)
Shows(g) == \A n \in selected : made[n] = 1 /\ LinkOf[n] = LinkOf[Target[g]]

(* The breadcrumbs of the entry of link g, and the node before place i. *)
Way(g) == Breadcrumbs[Entry(g)]
Stop(g, i) == Reached(Way(g), Root, 1)[i]

(* Request k is the navigation's: it asks for the index, or for a script on *)
(* the way from the root to the goal, along the shared breadcrumbs.         *)
UnderWay(k) ==
    \/ pending[k] = [kind |-> "index", link |-> goal] /\ ~index
    \/ /\ pending[k].kind = "show"
       /\ crumbs = Way(goal) /\ pending[k].at \in DOMAIN crumbs
       /\ pending[k].node = Stop(goal, pending[k].at)
       /\ pending[k].hash = Entry(goal).hash
       /\ Shows(goal)

(* A navigation that nothing disturbed is over and shows its goal, or has *)
(* one request under way, the only one that is not a click's.               *)
NavigationOK ==
    ~disturbed =>
        \/ ~Navigating /\ selected # {} /\ Shows(goal)
        \/ \E k \in DOMAIN pending :
            /\ UnderWay(k)
            /\ \A j \in DOMAIN pending : j # k => pending[j].kind = "expand"

TreeInv == TypeOK /\ RequestsOK /\ IndexFirst /\ NodesMadeOnce /\ NavigationOK

------------------------------------------------------------------------------
(* The tree *)

\* The child of a place of a path is a node, or there is none.
LEMMA ChildType ==
    ASSUME NEW n, NEW i, NEW path
    PROVE  /\ Child(n, i, path) \in Nodes \cup {Nowhere}
           /\ Child(n, i, path) # Nowhere =>
                /\ n \in Opens /\ Child(n, i, path) \in Nodes
                /\ Child(n, i, path) \in Range(Kids[n])
  BY NavTreeAssumption DEF NavTreeAssumption, Child, Opens, Range

\* A node is the child of one node at most, and of its Parent; the root of none.
LEMMA ParentIs ==
    ASSUME NEW n \in Nodes, NEW k \in Range(Kids[n])
    PROVE  k \in Nodes \ {Root} /\ Parent[k] = n
  <1>1. k \in Nodes \ {Root}
    BY NavTreeAssumption DEF NavTreeAssumption, Range
  <1>2. \E p \in Nodes : \A q \in Nodes : q = p <=> k \in Range(Kids[q])
    BY <1>1, NavTreeAssumption DEF NavTreeAssumption
  <1>3. \A q \in Nodes : k \in Range(Kids[q]) => q = n
    BY <1>2
  <1>4. Parent[k] = CHOOSE p \in Nodes : k \in Range(Kids[p])
    BY <1>1 DEF Parent
  <1>5. QED
    BY <1>1, <1>3, <1>4

\* Every node but the root is a child of its Parent.
LEMMA ParentHas ==
    ASSUME NEW k \in Nodes \ {Root}
    PROVE  Parent[k] \in Nodes /\ k \in Range(Kids[Parent[k]]) /\ Parent[k] \in Opens
  <1>1. \E p \in Nodes : k \in Range(Kids[p])
    BY NavTreeAssumption DEF NavTreeAssumption
  <1>2. PICK p \in Nodes : k \in Range(Kids[p])
    BY <1>1
  <1>3. Parent[k] = p
    BY <1>2, ParentIs
  <1>4. Kids[p] # <<>>
    BY <1>2 DEF Range
  <1>5. QED
    BY <1>2, <1>3, <1>4 DEF Opens

------------------------------------------------------------------------------
(* Walks *)

\* The nodes of a walk: the same up to at, then each a child of the one before.
LEMMA ReachedIs ==
    ASSUME NEW path, NEW from \in Nodes \cup {Nowhere}, NEW at \in Nat
    PROVE  /\ Reached(path, from, at) \in [Nat -> Nodes \cup {Nowhere}]
           /\ \A i \in 0 .. at : Reached(path, from, at)[i] = from
           /\ \A i \in Nat : i >= at =>
                Reached(path, from, at)[i + 1] = Child(Reached(path, from, at)[i], i, path)
  <1> DEFINE V == Nodes \cup {Nowhere}
             Step(i, v) == IF i + 1 <= at THEN from ELSE Child(v, i, path)
             step == [i \in Nat |-> [v \in V |-> Step(i, v)]]
             Is(N) == N = [i \in Nat |-> IF i <= at THEN from ELSE Child(N[i - 1], i - 1, path)]
             R == Reached(path, from, at)
  <1>1. \A i \in Nat : \A v \in V : Step(i, v) \in V
    BY ChildType
  <1>2. step \in [Nat -> [V -> V]]
    BY <1>1
  <1> HIDE DEF V, Step, step
  <1>3. \E f : IsRecursion(f, V, from, step)
    <2>1. from \in V
      BY DEF V
    <2>2. QED
      BY <1>2, <2>1, PrimitiveRecursion
  <1>4. PICK f \in [Nat -> V] : f[0] = from /\ \A i \in Nat : f[i + 1] = Step(i, f[i])
    BY <1>3 DEF step, IsRecursion
  <1> USE DEF V, Step
  <1>5. \A i \in Nat : f[i] = IF i <= at THEN from ELSE Child(f[i - 1], i - 1, path)
    <2> SUFFICES ASSUME NEW i \in Nat
                 PROVE  f[i] = IF i <= at THEN from ELSE Child(f[i - 1], i - 1, path)
      OBVIOUS
    <2>1. CASE i = 0
      BY <1>4, <2>1
    <2>2. CASE i # 0
      <3>1. i - 1 \in Nat /\ (i - 1) + 1 = i
        BY <2>2
      <3>2. f[i] = Step(i - 1, f[i - 1])
        BY <1>4, <3>1
      <3>3. QED
        BY <3>1, <3>2
    <2>3. QED
      BY <2>1, <2>2
  <1>6. Is(f)
    BY <1>4, <1>5
  <1>7. R = CHOOSE N : Is(N)
    BY DEF Reached
  <1>8. Is(R)
    BY <1>6, <1>7
  <1>9. \A i \in Nat : R[i] = IF i <= at THEN from ELSE Child(R[i - 1], i - 1, path)
    BY <1>8
  <1>10. R \in [Nat -> V]
    <2>1. \A i \in Nat : R[i] \in V
      BY <1>9, ChildType
    <2>2. DOMAIN R = Nat /\ R = [i \in Nat |-> R[i]]
      BY <1>8
    <2>3. QED
      BY <2>1, <2>2
  <1>11. \A i \in Nat : i >= at => R[i + 1] = Child(R[i], i, path)
    BY <1>9
  <1>12. QED
    BY <1>9, <1>10, <1>11

\* The breadcrumbs of a link are a path, of as many places as a walk counts.
LEMMA BreadcrumbsIs ==
    ASSUME NEW entry \in Links
    PROVE  /\ Breadcrumbs[entry] \in Paths /\ Breadcrumbs[entry] \in Seq(Nat \ {0})
           /\ Len(Breadcrumbs[entry]) \in 1 .. MaxPath
           /\ entry \notin DOMAIN Index => Breadcrumbs[entry] = <<1>>
  <1> DEFINE rest == IF entry \in DOMAIN Index THEN Index[entry] ELSE <<>>
             path == <<1>> \o rest
  <1>1. Breadcrumbs[entry] = path
    BY DEF Breadcrumbs
  <1>2. rest \in Seq(Nat \ {0}) /\ Len(rest) \in Nat /\ Len(rest) < MaxPath
    BY NavTreeAssumption DEF NavTreeAssumption
  <1>3. <<1>> \in Seq(Nat \ {0}) /\ Len(<<1>>) = 1
    OBVIOUS
  <1> HIDE DEF rest
  <1>4. path \in Seq(Nat \ {0}) /\ Len(path) = 1 + Len(rest)
    BY ONLY <1>2, <1>3, Joined
  <1>5. Len(path) \in 1 .. MaxPath
    BY <1>2, <1>4, NavTreeAssumption DEF NavTreeAssumption
  <1>6. entry \notin DOMAIN Index => path = <<1>>
    BY DEF rest
  <1>7. Breadcrumbs[entry] \in Paths
    BY DEF Paths
  <1>8. QED
    BY <1>1, <1>4, <1>5, <1>6, <1>7

\* The entry a link is looked up under: its own, or that of its page.
LEMMA EntryIs ==
    ASSUME NEW link \in Links
    PROVE  /\ Entry(link) \in Links /\ Entry(link).hash \in Hashes \cup {NoHash}
           /\ link \in DOMAIN Index => Entry(link) = link
           /\ Entry(link).hash # NoHash => Entry(link) = link /\ link \in DOMAIN Index
  BY DEF Entry, Links

\* Where a walk ends: w is what Walk says of it, N the nodes on its way.
WalkTo(w, path, data, N, at) ==
    /\ w.at \in at .. MaxPath /\ (w.at <= Len(path) \/ w.at = at)
    /\ \A j \in at .. w.at - 1 : N[j] \in Opens \cap data
    /\ w.node = N[w.at]
    /\ w.walked = {N[j] : j \in at .. w.at - 1}
                    \cup (IF w.node \in Opens \cap data THEN {w.node} ELSE {})
    /\ \/ w.end = "leaf" /\ w.node \notin Opens
       \/ w.end = "script" /\ w.node \in Opens \ data /\ w.next = w.node
       \/ /\ w.node \in Opens \cap data /\ w.at >= Len(path)
          /\ w.next = Child(w.node, w.at, path)
          /\ \/ w.end = "error" /\ w.next = Nowhere
             \/ w.end = "script" /\ w.next \in Opens \ data
             \/ w.end = "select" /\ w.next # Nowhere /\ w.next \notin Opens \ data

\* A walk ends, at the first place from which it cannot go on.
LEMMA WalkEnds ==
    ASSUME NEW path \in Seq(Nat \ {0}), Len(path) \in 1 .. MaxPath, NEW data,
           NEW from, NEW at \in 1 .. MaxPath
    PROVE  WalkTo(Walk(path, data, from, at), path, data, Reached(path, from, at), at)
  <1> DEFINE N == Reached(path, from, at)
             Ends(i) == i >= Len(path) \/ N[i] \notin Opens \cap data
             First(i) == Ends(i) /\ \A j \in at .. i - 1 : ~Ends(j)
             last == CHOOSE i \in at .. at + Len(path) : First(i)
             n == N[last]
             c == Child(n, last, path)
             Result(end, next, walked) ==
                [end |-> end, node |-> n, next |-> next, at |-> last,
                 walked |-> {N[j] : j \in at .. last - 1} \cup walked]
             w == Walk(path, data, from, at)
  <1>1. w = IF n \notin Opens THEN Result("leaf", n, {})
            ELSE IF n \notin data THEN Result("script", n, {})
            ELSE IF c = Nowhere THEN Result("error", c, {n})
            ELSE IF c \in Opens \ data THEN Result("script", c, {n})
            ELSE Result("select", c, {n})
    BY DEF Walk
  <1>2. Len(path) \in Nat /\ at \in Nat /\ Len(path) <= MaxPath /\ at <= MaxPath
        /\ MaxPath \in Nat
    BY NavTreeAssumption DEF NavTreeAssumption
  <1> HIDE DEF N
  <1>3. \E i \in at .. at + Len(path) : First(i)
    <2> DEFINE T == {i \in Nat : i >= at /\ Ends(i)}
    <2>1. at + Len(path) \in T
      BY <1>2
    <2>2. PICK i \in T : \A j \in T : i <= j
      BY <2>1, LeastNumber
    <2>3. i \in at .. at + Len(path)
      BY <1>2, <2>1, <2>2
    <2>4. First(i)
      BY <1>2, <2>2
    <2>5. QED
      BY <2>3, <2>4
  <1>4. last \in at .. at + Len(path) /\ First(last)
    BY <1>3
  <1> HIDE DEF last
  <1>5. last \in at .. MaxPath /\ (last <= Len(path) \/ last = at)
    <2>1. last > at => ~Ends(last - 1)
      BY <1>2, <1>4
    <2>2. QED
      BY <1>2, <1>4, <2>1
  <1>6. \A j \in at .. last - 1 : N[j] \in Opens \cap data
    BY <1>4
  <1>7. n \in Opens \cap data => last >= Len(path)
    BY <1>4
  <1> HIDE DEF w, n, c
  <1>8. w.at = last /\ w.node = n
    BY <1>1
  <1>9. w.walked = {N[j] : j \in at .. last - 1}
                        \cup (IF n \in Opens \cap data THEN {n} ELSE {})
    BY <1>1
  <1>10. \/ w.end = "leaf" /\ n \notin Opens
         \/ w.end = "script" /\ n \in Opens \ data /\ w.next = n
         \/ /\ n \in Opens \cap data /\ w.next = c
            /\ \/ w.end = "error" /\ w.next = Nowhere
               \/ w.end = "script" /\ w.next \in Opens \ data
               \/ w.end = "select" /\ w.next # Nowhere /\ w.next \notin Opens \ data
    BY <1>1
  <1>11. n = N[last] /\ c = Child(n, last, path)
    BY DEF n, c
  <1> HIDE DEF Ends, First, Result
  <1>12. WalkTo(w, path, data, N, at)
    BY <1>5, <1>6, <1>7, <1>8, <1>9, <1>10, <1>11 DEF WalkTo
  <1>13. QED
    BY <1>12 DEF w, N

\* The table of walks holds the walks.
LEMMA WalksAre ==
    ASSUME NEW path \in Paths, NEW data, Opens \ Lazy \subseteq data, data \subseteq Opens,
           NEW from \in Nodes, NEW at \in 1 .. MaxPath
    PROVE  Walks[path][data][from][at] = Walk(path, data, from, at)
  <1> DEFINE Loadable == {(Opens \ Lazy) \cup scripts : scripts \in SUBSET Lazy}
  <1>1. data \in Loadable
    <2>1. data = (Opens \ Lazy) \cup (data \cap Lazy)
      OBVIOUS
    <2>2. QED
      BY <2>1
  <1> HIDE DEF Loadable
  <1> DEFINE At(p, d, f) == [a \in 1 .. MaxPath |-> Walk(p, d, f, a)]
             From(p, d) == [f \in Nodes |-> At(p, d, f)]
             Data(p) == [d \in Loadable |-> From(p, d)]
  <1>2. Walks = [p \in Paths |-> Data(p)]
    BY Zenon DEF Walks, Loadable
  <1>3. Walks[path] = Data(path)
    BY <1>2, Zenon
  <1>4. Walks[path][data] = From(path, data)
    BY <1>1, <1>3, Zenon
  <1>5. Walks[path][data][from] = At(path, data, from)
    BY <1>4, Zenon
  <1>6. QED
    BY <1>5, Zenon

------------------------------------------------------------------------------
(* What the operations do *)

\* The children of the visited nodes are the nodes whose Parent is visited.
LEMMA MadeIs ==
    ASSUME NEW n \in Nodes, NEW V, V \subseteq Nodes
    PROVE  (\E p \in V : n \in Range(Kids[p])) <=> (n # Root /\ Parent[n] \in V)
  <1>1. CASE n = Root
    BY <1>1, NavTreeAssumption DEF NavTreeAssumption
  <1>2. CASE n # Root
    BY <1>2, ParentIs, ParentHas
  <1>3. QED
    BY <1>1, <1>2

\* getNode makes the children of nodes not visited before, each of them once.
LEMMA GetNodeMakesOnce ==
    ASSUME TypeOK, NodesMadeOnce, NEW walked, walked \subseteq Nodes, getNode(walked)
    PROVE  /\ visited' = visited \cup walked
           /\ made' \in [Nodes -> Nat] /\ NodesMadeOnce'
           /\ \A n \in Nodes : made[n] = 1 => made'[n] = 1
           /\ \A n \in Exists(walked) : n \in Nodes /\ made'[n] = 1
  <1> DEFINE In(n, V) == n # Root /\ Parent[n] \in V
  <1>1. visited \subseteq Nodes
    BY DEF TypeOK, Opens
  <1>2. visited' = visited \cup walked
    BY DEF getNode
  <1>3. \A n \in Nodes : made[n] = IF In(n, visited) THEN 1 ELSE 0
    BY <1>1, MadeIs DEF NodesMadeOnce
  <1>4. \A n \in Nodes : made'[n] = made[n] + IF In(n, walked \ visited) THEN 1 ELSE 0
    BY DEF getNode
  <1>5. made' = [n \in Nodes |-> made[n] + IF In(n, walked \ visited) THEN 1 ELSE 0]
    BY DEF getNode
  <1>6. \A n \in Nodes : made'[n] = IF In(n, visited') THEN 1 ELSE 0
    BY <1>2, <1>3, <1>4
  <1>7. made' \in [Nodes -> Nat]
    BY <1>3, <1>5
  <1>8. NodesMadeOnce'
    <2>1. visited' \subseteq Nodes
      BY <1>1, <1>2
    <2>2. QED
      BY <1>6, <2>1, MadeIs DEF NodesMadeOnce
  <1>9. \A n \in Nodes : made[n] = 1 => made'[n] = 1
    BY <1>2, <1>3, <1>6
  <1>10. \A n \in Exists(walked) : n \in Nodes /\ In(n, visited')
    BY <1>2, <1>3 DEF Exists, MadeBy
  <1>11. QED
    BY <1>2, <1>6, <1>7, <1>8, <1>9, <1>10

\* What showNode selects when the walk w has arrived.
Arrives(w, hash, was, others) ==
    /\ pending' = others
    /\ w.end \in {"select", "leaf"}
    /\ \E exists \in SUBSET Nodes :
        /\ \A n \in exists : made'[n] = 1
        /\ w.end = "select" => w.next \in exists
        /\ selectAndHighlight(IF w.end = "select" THEN w.next ELSE Nowhere, hash, exists, was)

\* What showNode leaves after the walk w.
Leaves(w, from, at, hash, path, data, others, was) ==
    /\ WalkTo(w, path, data, Reached(path, from, at), at)
    /\ \/ Arrives(w, hash, was, others)
       \/ w.end = "error" /\ selected' = was /\ pending' = others
       \/ /\ w.end = "script" /\ selected' = was
          /\ Request(w.next, w.node, w.at, hash) \in Requests
          /\ pending' = Append(others, Request(w.next, w.node, w.at, hash))

\* Whatever showNode finds, what it leaves is well typed; it has arrived,
\* has lost its way, or waits for a script more.
LEMMA ShowNodeDoes ==
    ASSUME TypeOK, NodesMadeOnce, RequestsOK,
           NEW from \in Nodes, NEW at \in 1 .. MaxPath, NEW hash \in Hashes \cup {NoHash},
           NEW path \in Paths, NEW data, loaded \subseteq data, data \subseteq Opens,
           NEW others \in Seq(Requests), Len(others) <= MaxPending,
           NEW was, was \subseteq Nodes,
           showNode(from, at, hash, path, data, others, was)
    PROVE  /\ loaded' = data /\ visited' \subseteq data /\ expanded' \subseteq visited'
           /\ selected' \subseteq Nodes /\ animating' \in BOOLEAN
           /\ made' \in [Nodes -> Nat] /\ NodesMadeOnce'
           /\ \A n \in Nodes : made[n] = 1 => made'[n] = 1
           /\ pending' \in Seq(Requests) /\ Len(pending') <= MaxPending
           /\ \E w : Leaves(w, from, at, hash, path, data, others, was)
  <1> DEFINE N == Reached(path, from, at)
             w == Walk(path, data, from, at)
             more == IF w.end = "select" /\ url.page \in MainPages
                     THEN {w.next} \cap Opens ELSE {}
             opens == w.walked \cup more
             next == IF w.end = "select" THEN w.next ELSE Nowhere
             request == Request(w.next, w.node, w.at, hash)
  <1>1. Opens \ Lazy \subseteq data /\ visited \subseteq data /\ expanded \subseteq visited
        /\ Opens \subseteq Nodes
    BY DEF TypeOK, Opens
  <1>2. Walks[path][data][from][at] = w
    BY <1>1, WalksAre
  <1>3. path \in Seq(Nat \ {0}) /\ Len(path) \in 1 .. MaxPath
    BY BreadcrumbsIs DEF Paths
  <1>4. WalkTo(w, path, data, N, at)
    BY <1>3, WalkEnds
  <1> HIDE DEF w
  <1>5. /\ loaded' = data /\ getNode(opens) /\ expanded' = expanded \cup opens
        /\ \/ /\ w.end \in {"select", "leaf"}
              /\ selectAndHighlight(next, hash, Exists(opens), was)
              /\ pending' = others
           \/ /\ w.end = "error"
              /\ selected' = was /\ pending' = others
              /\ UNCHANGED animating
           \/ /\ w.end = "script"
              /\ getScript(request, others)
              /\ selected' = was
              /\ UNCHANGED animating
    BY <1>2 DEF showNode
  <1> HIDE DEF next, request
  <1>6. w.walked \subseteq Opens \cap data
    BY <1>4 DEF WalkTo
  <1>7. more \subseteq Opens \cap data
    BY <1>4 DEF WalkTo
  <1>8. opens \subseteq Opens \cap data
    BY <1>6, <1>7
  <1> HIDE DEF opens
  <1>9. /\ visited' = visited \cup opens
        /\ made' \in [Nodes -> Nat] /\ NodesMadeOnce'
        /\ \A n \in Nodes : made[n] = 1 => made'[n] = 1
        /\ \A n \in Exists(opens) : n \in Nodes /\ made'[n] = 1
    BY <1>1, <1>5, <1>8, GetNodeMakesOnce
  <1>10. w.end = "select" => w.next \in Exists(opens)
    <2> SUFFICES ASSUME w.end = "select" PROVE w.next \in Exists(opens)
      OBVIOUS
    <2>1. w.node \in opens /\ w.next = Child(w.node, w.at, path) /\ w.next # Nowhere
      BY <1>4 DEF WalkTo, opens
    <2>2. w.node \in Nodes /\ w.next \in Range(Kids[w.node])
      BY <1>1, <1>8, <2>1, ChildType
    <2>3. w.next \in Nodes \ {Root} /\ Parent[w.next] \in opens
      BY <2>1, <2>2, ParentIs
    <2>4. CASE Parent[w.next] \in visited
      <3>1. made[w.next] = 1
        BY <1>1, <2>3, <2>4, MadeIs DEF NodesMadeOnce, TypeOK
      <3>2. QED
        BY <2>3, <3>1 DEF Exists
    <2>5. CASE Parent[w.next] \notin visited
      BY <2>3, <2>5 DEF Exists, MadeBy
    <2>6. QED
      BY <2>4, <2>5
  <1>11. w.end = "script" => request \in Requests
    <2>1. w.end = "script" => /\ w.next \in Opens /\ w.node \in Nodes
                             /\ w.at \in 1 .. MaxPath
      BY <1>1, <1>4 DEF WalkTo
    <2>2. QED
      BY <2>1 DEF request, Request, Requests
  <1>12. \/ Arrives(w, hash, was, others)
         \/ w.end = "error" /\ selected' = was /\ pending' = others
         \/ /\ w.end = "script" /\ selected' = was /\ request \in Requests
            /\ Len(others) < MaxPending /\ pending' = Append(others, request)
    BY <1>5, <1>9, <1>10, <1>11 DEF Arrives, getScript, next
  <1>13. selected' \subseteq Nodes /\ animating' \in BOOLEAN
    BY <1>5, <1>9 DEF selectAndHighlight, gotoAnchor, TypeOK
  <1>14. pending' \in Seq(Requests) /\ Len(pending') <= MaxPending
    <2>1. CASE pending' = others
      BY <2>1
    <2>2. CASE /\ request \in Requests /\ Len(others) < MaxPending
               /\ pending' = Append(others, request)
      BY <2>2, Appended, NavTreeAssumption DEF NavTreeAssumption
    <2>3. QED
      BY <1>12, <2>1, <2>2 DEF Arrives
  <1>15. visited' \subseteq data /\ expanded' \subseteq visited'
    BY <1>1, <1>5, <1>8, <1>9
  <1>16. QED
    BY <1>4, <1>5, <1>9, <1>12, <1>13, <1>14, <1>15 DEF request, Leaves

------------------------------------------------------------------------------
(* The way to the goal *)

\* The way a path leads from the root.
LEMMA FromRoot ==
    ASSUME NEW path
    PROVE  /\ Reached(path, Root, 1)[1] = Root
           /\ \A i \in Nat \ {0} :
                Reached(path, Root, 1)[i + 1] = Child(Reached(path, Root, 1)[i], i, path)
  <1>1. Root \in Nodes \cup {Nowhere} /\ 1 \in Nat
    BY NavTreeAssumption DEF NavTreeAssumption
  <1> DEFINE R == Reached(path, Root, 1)
  <1>2. /\ \A i \in 0 .. 1 : R[i] = Root
        /\ \A i \in Nat : i >= 1 => R[i + 1] = Child(R[i], i, path)
    BY ONLY <1>1, ReachedIs
  <1> HIDE DEF R
  <1>3. R[1] = Root /\ \A i \in Nat \ {0} : R[i + 1] = Child(R[i], i, path)
    BY <1>2
  <1>4. QED
    BY <1>3 DEF R

\* Along its breadcrumbs a link leads down the tree to its Target, which has
\* the link itself if that has a hash in the index.
LEMMA TargetIs ==
    ASSUME NEW g \in Links
    PROVE  /\ Stop(g, 1) = Root /\ Way(g) \in Paths
           /\ Len(Way(g)) \in 1 .. MaxPath /\ DOMAIN Way(g) = 1 .. Len(Way(g))
           /\ \A i \in 1 .. Len(Way(g)) :
                /\ Stop(g, i) \in Opens /\ Stop(g, i + 1) \in Nodes
                /\ Stop(g, i + 1) = Child(Stop(g, i), i, Way(g))
           /\ Target[g] = Stop(g, Len(Way(g)) + 1) /\ Target[g] \in Nodes
           /\ Entry(g).hash # NoHash => LinkOf[Target[g]] = g
  <1> DEFINE P == Way(g)
             R == Reached(P, Root, 1)
  <1> DEFINE e == Entry(g)
  <1>1. /\ e \in Links
        /\ e.hash # NoHash => e = g /\ e \in DOMAIN Index
    BY EntryIs
  <1>2. /\ P \in Paths /\ P \in Seq(Nat \ {0}) /\ Len(P) \in 1 .. MaxPath
        /\ DOMAIN P = 1 .. Len(P)
        /\ e \notin DOMAIN Index => P = <<1>>
    BY <1>1, BreadcrumbsIs DEF Way
  <1>3. /\ Root \in Nodes /\ Nowhere \notin Nodes /\ Kids \in [Nodes -> Seq(Nodes)]
        /\ Kids[Root] # <<>>
    BY NavTreeAssumption DEF NavTreeAssumption
  <1>4. R[1] = Root /\ \A i \in Nat \ {0} : R[i + 1] = Child(R[i], i, P)
    BY FromRoot
  <1>5. \A i \in 1 .. Len(P) : R[i + 1] # Nowhere
    <2>1. CASE e \in DOMAIN Index
      <3>1. \A entry \in DOMAIN Index : LET path == Breadcrumbs[entry]
                                        IN  \A i \in DOMAIN path : Reached(path, Root, 1)[i + 1] # Nowhere
        BY IndexAssumption, Zenon DEF IndexAssumption
      <3>2. \A i \in DOMAIN P : R[i + 1] # Nowhere
        BY <2>1, <3>1, Zenon DEF Way
      <3>3. QED
        BY <1>2, <3>2
    <2>2. CASE e \notin DOMAIN Index
      <3>1. P = <<1>> /\ R[1] = Root
        BY <1>2, <1>4, <2>2
      <3>2. R[2] = Child(Root, 1, <<1>>)
        BY <1>4, <3>1
      <3>3. 1 \in DOMAIN Kids[Root] /\ Kids[Root][1] \in Nodes
        BY <1>3
      <3>4. Child(Root, 1, <<1>>) = Kids[Root][1]
        BY <1>3, <3>3 DEF Child
      <3>5. QED
        BY <1>3, <3>1, <3>2, <3>3, <3>4
    <2>3. QED
      BY <2>1, <2>2
  <1>6. \A i \in 1 .. Len(P) :
            R[i] \in Opens /\ R[i + 1] = Child(R[i], i, P) /\ R[i + 1] \in Nodes
    <2> SUFFICES ASSUME NEW i \in 1 .. Len(P)
                 PROVE  R[i] \in Opens /\ R[i + 1] = Child(R[i], i, P) /\ R[i + 1] \in Nodes
      OBVIOUS
    <2>1. i \in Nat \ {0}
      BY <1>2
    <2>2. R[i + 1] = Child(R[i], i, P) /\ R[i + 1] # Nowhere
      BY <1>4, <1>5, <2>1
    <2>3. QED
      BY <2>2, ChildType
  <1>7. Target[g] = R[Len(P) + 1]
    BY DEF Target, Way
  <1>8. e.hash # NoHash => LinkOf[Target[g]] = g
    <2> SUFFICES ASSUME e.hash # NoHash PROVE LinkOf[Target[g]] = g
      OBVIOUS
    <2>1. e = g /\ e \in DOMAIN Index
      BY <1>1
    <2>2. \A entry \in DOMAIN Index : LET path == Breadcrumbs[entry]
                                      IN  entry.hash # NoHash =>
                                            LinkOf[Reached(path, Root, 1)[Len(path) + 1]] = entry
      BY IndexAssumption, Zenon DEF IndexAssumption
    <2>3. LinkOf[R[Len(P) + 1]] = e
      BY <2>1, <2>2, Zenon DEF Way
    <2>4. QED
      BY <1>7, <2>1, <2>3
  <1>9. QED
    BY <1>2, <1>4, <1>6, <1>7, <1>8 DEF Stop

\* A walk that goes on from a place the way to the goal passes stays on it.
LEMMA SameWay ==
    ASSUME NEW path, NEW at \in Nat, at >= 1,
           NEW from \in Nodes, from = Reached(path, Root, 1)[at]
    PROVE  \A i \in Nat : i >= at => Reached(path, from, at)[i] = Reached(path, Root, 1)[i]
  <1> DEFINE R == Reached(path, Root, 1)
             N == Reached(path, from, at)
             S == {i \in Nat : i >= at => N[i] = R[i]}
  <1>1. /\ \A i \in 0 .. at : N[i] = from
        /\ \A i \in Nat : i >= at => N[i + 1] = Child(N[i], i, path)
        /\ \A i \in Nat \ {0} : R[i + 1] = Child(R[i], i, path)
    <2>1. /\ \A i \in 0 .. at : N[i] = from
          /\ \A i \in Nat : i >= at => N[i + 1] = Child(N[i], i, path)
      BY ReachedIs
    <2>2. QED
      BY <2>1, FromRoot
  <1> HIDE DEF R, N
  <1>2. from = R[at]
    BY DEF R
  <1>3. 0 \in S
    OBVIOUS
  <1>4. ASSUME NEW i \in Nat, i \in S PROVE i + 1 \in S
    <2>1. CASE i + 1 < at
      BY <2>1
    <2>2. CASE i + 1 = at
      BY <1>1, <1>2, <2>2
    <2>3. CASE i >= at
      BY <1>1, <1>4, <2>3
    <2>4. QED
      BY <2>1, <2>2, <2>3
  <1> HIDE DEF S
  <1>5. Nat \subseteq S
    BY <1>3, <1>4, SetInduction
  <1>6. QED
    BY <1>5 DEF S, R, N

\* A walk on the way to the goal ends there, or waits on the way.
LEMMA WalkOnTheWay ==
    ASSUME NEW g \in Links, NEW data, NEW at \in 1 .. Len(Way(g)),
           NEW w, WalkTo(w, Way(g), data, Reached(Way(g), Stop(g, at), at), at)
    PROVE  /\ w.end \in {"select", "script"}
           /\ w.at \in 1 .. Len(Way(g)) /\ w.node = Stop(g, w.at)
           /\ w.end = "select" => w.next = Target[g]
  <1> DEFINE P == Way(g)
             from == Stop(g, at)
             N == Reached(P, from, at)
  <1>1. /\ Len(P) \in 1 .. MaxPath
        /\ \A i \in 1 .. Len(P) :
            /\ Stop(g, i) \in Opens /\ Stop(g, i + 1) \in Nodes
            /\ Stop(g, i + 1) = Child(Stop(g, i), i, P)
        /\ Target[g] = Stop(g, Len(P) + 1)
    BY TargetIs
  <1>2. from \in Nodes /\ Nowhere \notin Nodes /\ MaxPath \in Nat
    BY <1>1, NavTreeAssumption DEF Opens, NavTreeAssumption
  <1>3. at \in Nat /\ at >= 1
    BY <1>1, <1>2
  <1>4. \A i \in Nat : i >= at => N[i] = Stop(g, i)
    BY <1>2, <1>3, SameWay DEF Stop
  <1>5. /\ w.at \in at .. MaxPath /\ (w.at <= Len(P) \/ w.at = at) /\ w.node = N[w.at]
        /\ \/ w.end = "leaf" /\ w.node \notin Opens
           \/ w.end = "script"
           \/ /\ w.at >= Len(P) /\ w.next = Child(w.node, w.at, P)
              /\ (w.end = "error" /\ w.next = Nowhere) \/ w.end = "select"
    BY DEF WalkTo
  <1> HIDE DEF P, N, from
  <1>6. w.at \in 1 .. Len(P) /\ w.at \in Nat /\ w.at >= at
    BY <1>1, <1>2, <1>3, <1>5 DEF P
  <1>7. w.node = Stop(g, w.at)
    BY <1>4, <1>5, <1>6
  <1>8. w.node \in Opens /\ Child(w.node, w.at, P) = Stop(g, w.at + 1)
        /\ Stop(g, w.at + 1) # Nowhere
    BY <1>1, <1>2, <1>6, <1>7
  <1>9. w.end \in {"select", "script"}
    BY <1>5, <1>8
  <1>10. w.end = "select" => w.at = Len(P) /\ w.next = Stop(g, w.at + 1)
    BY <1>1, <1>2, <1>5, <1>6, <1>8
  <1>11. QED
    BY <1>1, <1>6, <1>7, <1>9, <1>10 DEF P

\* Where the walk has arrived, what is selected is the goal.
LEMMA GoalIsSelected ==
    ASSUME TypeOK, NEW g \in Links, NEW exists, exists \subseteq Nodes,
           \A n \in exists : made'[n] = 1, Target[g] \in exists,
           NEW was, \A n \in was : made'[n] = 1 /\ LinkOf[n] = LinkOf[Target[g]],
           selectAndHighlight(Target[g], Entry(g).hash, exists, was)
    PROVE  selected' # {} /\ Shows(g)'
  <1> DEFINE hash == Entry(g).hash
             anchors == {m \in exists : hash # NoHash /\
                            LinkOf[m] = [page |-> url.page, hash |-> hash]}
  <1>1. selected' = was \cup (IF anchors # {} THEN anchors ELSE {Target[g]} \cap Nodes)
    BY DEF selectAndHighlight
  <1>2. ASSUME NEW m \in anchors PROVE LinkOf[m] = LinkOf[Target[g]]
    <2>1. hash # NoHash /\ LinkOf[m].hash = hash /\ m \in Nodes
      OBVIOUS
    <2>2. LinkOf[Target[g]] = g /\ Target[g] \in Nodes
      BY <2>1, TargetIs
    <2>3. g.hash = hash
      BY <2>1, EntryIs
    <2>4. QED
      BY <2>1, <2>2, <2>3, IndexAssumption DEF IndexAssumption
  <1>3. \A n \in selected' : made'[n] = 1 /\ LinkOf[n] = LinkOf[Target[g]]
    BY <1>1, <1>2
  <1>4. selected' # {}
    BY <1>1
  <1>5. QED
    BY <1>3, <1>4 DEF Shows

\* A walk on the way to the goal, when only clicks have requests beside it, ends
\* the navigation or goes on with it.
LEMMA ShowNodeNavigates ==
    ASSUME TypeOK, NodesMadeOnce, RequestsOK,
           NEW g \in Links, NEW at \in 1 .. Len(Way(g)),
           NEW data, loaded \subseteq data, data \subseteq Opens,
           NEW others \in Seq(Requests), Len(others) <= MaxPending,
           \A j \in DOMAIN others : others[j].kind = "expand",
           NEW was, was \subseteq Nodes,
           \A n \in was : made[n] = 1 /\ LinkOf[n] = LinkOf[Target[g]],
           showNode(Stop(g, at), at, Entry(g).hash, Way(g), data, others, was),
           goal' = g, crumbs' = Way(g)
    PROVE  NavigationOK'
  <1> DEFINE P == Way(g)
             from == Stop(g, at)
             hash == Entry(g).hash
  <1>1. /\ P \in Paths /\ Len(P) \in 1 .. MaxPath /\ DOMAIN P = 1 .. Len(P)
        /\ \A i \in 1 .. Len(P) : Stop(g, i) \in Opens
    BY TargetIs
  <1>2. at \in 1 .. MaxPath /\ from \in Nodes
    BY <1>1, NavTreeAssumption DEF NavTreeAssumption, Opens
  <1>3. hash \in Hashes \cup {NoHash}
    BY EntryIs
  <1>4. showNode(from, at, hash, P, data, others, was)
    OBVIOUS
  <1> HIDE DEF hash, P, from
  <1>5. /\ \A n \in Nodes : made[n] = 1 => made'[n] = 1
        /\ \E w : Leaves(w, from, at, hash, P, data, others, was)
    BY <1>1, <1>2, <1>3, <1>4, ShowNodeDoes
  <1>6. PICK w : Leaves(w, from, at, hash, P, data, others, was)
    BY <1>5
  <1>7. /\ WalkTo(w, P, data, Reached(P, from, at), at)
        /\ \/ Arrives(w, hash, was, others)
           \/ w.end = "error" /\ selected' = was /\ pending' = others
           \/ /\ w.end = "script" /\ selected' = was
              /\ Request(w.next, w.node, w.at, hash) \in Requests
              /\ pending' = Append(others, Request(w.next, w.node, w.at, hash))
    BY <1>6 DEF Leaves
  <1>8. /\ w.end \in {"select", "script"}
        /\ w.at \in 1 .. Len(P) /\ w.node = Stop(g, w.at)
        /\ w.end = "select" => w.next = Target[g]
    BY <1>7, WalkOnTheWay DEF P, from
  <1>9. \A n \in was : made'[n] = 1 /\ LinkOf[n] = LinkOf[Target[g]]
    BY <1>5
  <1>10. CASE w.end = "select"
    <2>1. Arrives(w, hash, was, others)
      BY <1>7, <1>10
    <2>2. PICK exists \in SUBSET Nodes :
            /\ \A n \in exists : made'[n] = 1
            /\ Target[g] \in exists
            /\ selectAndHighlight(Target[g], hash, exists, was)
      BY <1>8, <1>10, <2>1 DEF Arrives
    <2>3. selected' # {} /\ Shows(g)'
      BY <1>9, <2>2, GoalIsSelected DEF hash
    <2>4. pending' = others
      BY <2>1 DEF Arrives
    <2>5. ~Navigating'
      BY <2>4 DEF Navigating
    <2>6. QED
      BY <2>3, <2>5 DEF NavigationOK, Shows
  <1>11. CASE w.end = "script"
    <2> DEFINE r == Request(w.next, w.node, w.at, hash)
               k == Len(others) + 1
    <2>1. r \in Requests /\ pending' = Append(others, r) /\ selected' = was
      BY <1>7, <1>11 DEF Arrives
    <2>2. r.kind = "show" /\ r.at = w.at /\ r.node = w.node /\ r.hash = hash
      BY DEF Request
    <2> HIDE DEF r
    <2>3. /\ DOMAIN pending' = 1 .. k /\ DOMAIN others = 1 .. Len(others) /\ k \in 1 .. k
          /\ \A j \in 1 .. Len(others) : pending'[j] = others[j]
          /\ pending'[k] = r
      BY <2>1, Appended
    <2>4. Shows(goal)'
      BY <1>9, <2>1 DEF Shows
    <2>5. /\ pending'[k].kind = "show" /\ pending'[k].hash = Entry(goal').hash
          /\ pending'[k].at \in DOMAIN crumbs' /\ crumbs' = Way(goal')
          /\ pending'[k].node = Stop(goal', pending'[k].at)
      BY <1>1, <1>8, <2>2, <2>3 DEF P, hash
    <2>6. UnderWay(k)'
      BY <2>4, <2>5 DEF UnderWay
    <2>7. \A j \in DOMAIN pending' : j # k => pending'[j].kind = "expand"
      BY <2>3
    <2>8. QED
      BY <2>3, <2>6, <2>7 DEF NavigationOK
  <1>12. QED
    BY <1>8, <1>10, <1>11

------------------------------------------------------------------------------
(* The invariant is kept, action by action *)

\* Requests by their kind.
LEMMA RequestIs ==
    ASSUME NEW r \in Requests
    PROVE  /\ r.kind \in {"index", "show", "expand"}
           /\ r.kind = "index" => r.link \in Links
           /\ r.kind = "show" => /\ r.data \in Opens /\ r.node \in Nodes
                                /\ r.at \in 1 .. MaxPath /\ r.hash \in Hashes \cup {NoHash}
           /\ r.kind = "expand" => r.data \in Opens
  BY DEF Requests

\* A request under way is a navigation's.
LEMMA UnderWayNavigates ==
    ASSUME NEW k \in DOMAIN pending, UnderWay(k)
    PROVE  Navigating
  BY DEF UnderWay, Navigating

\* When no navigation is under way and nothing disturbed one, the goal is shown.
LEMMA QuietShows ==
    ASSUME NavigationOK, ~Navigating, ~disturbed
    PROVE  selected # {} /\ Shows(goal)
  BY UnderWayNavigates DEF NavigationOK

\* A node that is shown is made, which takes the index.
LEMMA VisibleIs ==
    ASSUME TypeOK, IndexFirst, NodesMadeOnce, NEW n \in Nodes, Visible(n)
    PROVE  made[n] = 1 /\ index = TRUE
  <1>1. made[n] > 0
    BY DEF Visible
  <1>2. made[n] = 1 /\ visited # {}
    BY <1>1 DEF NodesMadeOnce
  <1>3. QED
    BY <1>2 DEF IndexFirst, TypeOK

\* The link a navigation looks for is one of the documentation.
LEMMA StrippedIs ==
    ASSUME NEW link \in Links
    PROVE  (IF link.hash \in LineHashes THEN [link EXCEPT !.hash = NoHash] ELSE link) \in Links
  BY DEF Links

\* Steps that leave the tree, its requests and the selection alone.
LEMMA TreeStays ==
    ASSUME TreeInv, UNCHANGED <<treeVars, goalVars, selected>>,
           url' \in Links, cached' \in Links \cup {NoLink},
           changed' \in BOOLEAN, sync' \in BOOLEAN, animating' \in BOOLEAN,
           sync' <=> cached' = NoLink
    PROVE  TreeInv'
  <1>1. /\ UNCHANGED <<index, loaded, visited, made, expanded, pending>>
        /\ UNCHANGED <<crumbs, goal, disturbed, selected>>
    BY DEF treeVars, goalVars
  <1>2. TypeOK'
    BY <1>1 DEF TreeInv, TypeOK
  <1>3. RequestsOK' /\ IndexFirst' /\ NodesMadeOnce'
    BY <1>1 DEF TreeInv, RequestsOK, IndexFirst, NodesMadeOnce
  <1>4. Navigating' <=> Navigating
    BY <1>1 DEF Navigating
  <1>5. Shows(goal)' <=> Shows(goal)
    BY <1>1 DEF Shows
  <1>6. ASSUME NEW k \in DOMAIN pending, UnderWay(k) PROVE UnderWay(k)'
    BY <1>1, <1>5, <1>6 DEF UnderWay
  <1>7. NavigationOK'
    BY <1>1, <1>4, <1>5, <1>6 DEF TreeInv, NavigationOK
  <1>8. QED
    BY <1>2, <1>3, <1>7 DEF TreeInv

\* Steps that show a node keep the types, whatever else they change.
LEMMA ShowNodeTypes ==
    ASSUME TypeOK, NodesMadeOnce, RequestsOK,
           NEW from \in Nodes, NEW at \in 1 .. MaxPath, NEW hash \in Hashes \cup {NoHash},
           NEW path \in Paths, NEW data, loaded \subseteq data, data \subseteq Opens,
           NEW others \in Seq(Requests), Len(others) <= MaxPending,
           NEW was, was \subseteq Nodes,
           showNode(from, at, hash, path, data, others, was),
           UNCHANGED <<url, cached, sync>>, crumbs' \in Paths, goal' \in Links,
           changed' \in BOOLEAN, index' = TRUE, disturbed' \in BOOLEAN
    PROVE  TypeOK' /\ RequestsOK' /\ IndexFirst' /\ NodesMadeOnce'
  <1>1. /\ loaded' = data /\ visited' \subseteq data /\ expanded' \subseteq visited'
        /\ selected' \subseteq Nodes /\ animating' \in BOOLEAN
        /\ made' \in [Nodes -> Nat] /\ NodesMadeOnce'
        /\ pending' \in Seq(Requests) /\ Len(pending') <= MaxPending
    <2>1. loaded' = data
      BY DEF showNode
    <2>a. visited' \subseteq data /\ expanded' \subseteq visited'
      BY ShowNodeDoes
    <2>2. selected' \subseteq Nodes /\ animating' \in BOOLEAN
      BY ShowNodeDoes
    <2>3. made' \in [Nodes -> Nat] /\ NodesMadeOnce'
      BY ShowNodeDoes
    <2>4. pending' \in Seq(Requests) /\ Len(pending') <= MaxPending
      BY ShowNodeDoes
    <2>5. QED
      BY <2>1, <2>a, <2>2, <2>3, <2>4
  <1>2. crumbs' \in Seq(Nat \ {0})
    BY BreadcrumbsIs DEF Paths
  <1>3. TypeOK'
    BY <1>1, <1>2 DEF TypeOK
  <1>4. RequestsOK' /\ IndexFirst'
    BY <1>1 DEF RequestsOK, IndexFirst
  <1>5. QED
    BY <1>1, <1>3, <1>4

\* gotoNode shows the node the link's breadcrumbs lead to.
LEMMA GotoNodeShows ==
    ASSUME NEW link \in Links, NEW data, NEW others, NEW was,
           gotoNode(link, data, others, was)
    PROVE  /\ crumbs' = Way(link) /\ Way(link) \in Paths
           /\ Entry(link).hash \in Hashes \cup {NoHash}
           /\ 1 \in 1 .. Len(Way(link)) /\ 1 \in 1 .. MaxPath
           /\ Stop(link, 1) = Root /\ Root \in Nodes
           /\ showNode(Stop(link, 1), 1, Entry(link).hash, Way(link), data, others, was)
           /\ showNode(Root, 1, Entry(link).hash, Way(link), data, others, was)
  <1>1. /\ Stop(link, 1) = Root /\ Way(link) \in Paths /\ Len(Way(link)) \in 1 .. MaxPath
    BY TargetIs
  <1>2. Entry(link).hash \in Hashes \cup {NoHash}
    BY EntryIs
  <1>3. Root \in Nodes /\ MaxPath \in Nat \ {0}
    BY NavTreeAssumption DEF NavTreeAssumption
  <1>4. /\ crumbs' = Way(link)
        /\ showNode(Root, 1, Entry(link).hash, Way(link), data, others, was)
    BY DEF gotoNode, Way
  <1>5. 1 \in 1 .. Len(Way(link)) /\ 1 \in 1 .. MaxPath
    BY <1>1, <1>3
  <1>6. QED
    BY <1>1, <1>2, <1>3, <1>4, <1>5

\* The first state, and that of every new page.
LEMMA PageOpens ==
    ASSUME NEW link \in Links, NEW kept \in Links \cup {NoLink}, OpenPage(link, kept)
    PROVE  TreeInv'
  <1> DEFINE wanted == IF kept = NoLink THEN link ELSE kept
             r == [kind |-> "index", link |-> goal']
  <1>1. goal' \in Links
    <2>1. wanted \in Links
      OBVIOUS
    <2>2. QED
      BY <2>1, StrippedIs DEF OpenPage
  <1>2. pending' = <<r>> /\ r \in Requests
    BY <1>1 DEF OpenPage, Requests
  <1>3. DOMAIN pending' = {1} /\ pending'[1] = r /\ pending' \in Seq(Requests) /\ Len(pending') = 1
    BY <1>2
  <1>4. /\ visited' = {} /\ selected' = {} /\ index' = FALSE /\ expanded' = {}
        /\ loaded' = Opens \ Lazy /\ made' = [n \in Nodes |-> 0] /\ crumbs' = <<>>
        /\ changed' = FALSE /\ disturbed' = FALSE /\ animating' = FALSE
        /\ url' = link /\ cached' = kept /\ sync' = (kept = NoLink)
    BY DEF OpenPage
  <1>5. TypeOK'
    <2>1. MaxPending >= 1 /\ crumbs' \in Seq(Nat \ {0})
      BY <1>4, NavTreeAssumption DEF NavTreeAssumption
    <2>2. QED
      BY <1>1, <1>3, <1>4, <2>1 DEF TypeOK
  <1>6. RequestsOK' /\ IndexFirst' /\ NodesMadeOnce'
    <2>1. RequestsOK'
      BY <1>3 DEF RequestsOK
    <2>2. IndexFirst'
      <3>1. pending' # <<>> /\ \A k \in DOMAIN pending' : pending'[k].kind = "index"
        BY <1>2, <1>3
      <3>2. QED
        BY <1>4, <3>1 DEF IndexFirst
    <2>3. NodesMadeOnce'
      BY <1>4 DEF NodesMadeOnce
    <2>4. QED
      BY <2>1, <2>2, <2>3
  <1>7. NavigationOK'
    BY <1>3, <1>4 DEF NavigationOK, UnderWay
  <1>8. QED
    BY <1>5, <1>6, <1>7 DEF TreeInv

\* A click on an anchor's node shows it, and its link is the goal.
LEMMA ClickAnchorKeeps ==
    ASSUME TreeInv, NEW n \in Nodes, ClickAnchor(n)
    PROVE  TreeInv'
  <1>1. TypeOK /\ RequestsOK /\ IndexFirst /\ NodesMadeOnce /\ NavigationOK
    BY DEF TreeInv
  <1>2. /\ UNCHANGED <<sync, crumbs, index, loaded, visited, made, expanded, pending>>
        /\ Visible(n) /\ LinkOf[n].hash # NoHash
        /\ cached' = IF sync THEN cached ELSE LinkOf[n]
        /\ selected' = IF n \in selected THEN selected ELSE {n}
        /\ animating' \in {animating, TRUE}
        /\ url' = LinkOf[n] /\ changed' = (changed \/ url # LinkOf[n])
        /\ goal' = LinkOf[n]
        /\ disturbed' = (Navigating \/ (disturbed /\ n \in selected))
    BY DEF ClickAnchor, treeVars, storeLink, gotoAnchor
  <1>3. made[n] = 1 /\ index = TRUE
    BY <1>1, <1>2, VisibleIs
  <1>4. LinkOf[n] \in Links /\ NoLink \notin Links
    BY NavTreeAssumption DEF NavTreeAssumption
  <1>5. TypeOK'
    BY <1>1, <1>2, <1>4 DEF TypeOK, Navigating
  <1>6. RequestsOK' /\ NodesMadeOnce'
    BY <1>1, <1>2 DEF RequestsOK, NodesMadeOnce
  <1>7. IndexFirst'
    BY <1>2, <1>3 DEF IndexFirst
  <1>8. NavigationOK'
    <2> SUFFICES ASSUME ~disturbed' PROVE ~Navigating' /\ selected' # {} /\ Shows(goal)'
      BY DEF NavigationOK
    <2>1. ~Navigating /\ (disturbed => n \notin selected)
      BY <1>2
    <2>2. ~Navigating'
      BY <1>2, <2>1 DEF Navigating
    <2>3. LinkOf[Target[LinkOf[n]]] = LinkOf[n]
      <3>1. LinkOf[n] \in DOMAIN Index
        BY <1>2, IndexAssumption DEF IndexAssumption
      <3>2. Entry(LinkOf[n]) = LinkOf[n]
        BY <1>4, <3>1, EntryIs
      <3>3. QED
        BY <1>2, <1>4, <3>2, TargetIs
    <2>4. CASE n \in selected
      <3>1. \A m \in selected : made[m] = 1 /\ LinkOf[m] = LinkOf[Target[goal]]
        BY <1>1, <2>1, <2>4, QuietShows DEF Shows
      <3>2. LinkOf[n] = LinkOf[Target[goal]]
        BY <2>4, <3>1
      <3>3. \A m \in selected : made[m] = 1 /\ LinkOf[m] = LinkOf[Target[LinkOf[n]]]
        BY <2>3, <3>1, <3>2
      <3>4. QED
        BY <1>2, <2>2, <2>4, <3>3 DEF Shows
    <2>5. CASE n \notin selected
      BY <1>2, <1>3, <2>2, <2>3, <2>5 DEF Shows
    <2>6. QED
      BY <2>4, <2>5
  <1>9. QED
    BY <1>5, <1>6, <1>7, <1>8 DEF TreeInv

\* Where nodes are made and clicks request scripts, a navigation stays as it was:
\* others are the requests it had, but for one of a click at most.
LEMMA ExpandsOnly ==
    ASSUME NavigationOK,
           UNCHANGED <<index, crumbs, goal, disturbed, selected>>,
           \A n \in Nodes : made[n] = 1 => made'[n] = 1, selected \subseteq Nodes,
           \A k \in DOMAIN pending : pending[k].kind # "expand" =>
                \E j \in DOMAIN pending' : pending'[j] = pending[k],
           \A j \in DOMAIN pending' : pending'[j].kind # "expand" =>
                \E k \in DOMAIN pending :
                    /\ pending[k] = pending'[j]
                    /\ \A i \in DOMAIN pending' :
                        i # j /\ pending'[i].kind # "expand" =>
                            \E l \in DOMAIN pending : l # k /\ pending[l] = pending'[i]
    PROVE  NavigationOK'
  <1> SUFFICES ASSUME ~disturbed
               PROVE  \/ ~Navigating' /\ selected' # {} /\ Shows(goal)'
                      \/ \E k \in DOMAIN pending' :
                            /\ UnderWay(k)'
                            /\ \A j \in DOMAIN pending' : j # k => pending'[j].kind = "expand"
    BY DEF NavigationOK
  <1>1. Shows(goal) => Shows(goal)'
    BY DEF Shows
  <1>2. CASE ~Navigating /\ selected # {} /\ Shows(goal)
    BY <1>1, <1>2 DEF Navigating
  <1>3. ASSUME NEW k \in DOMAIN pending, UnderWay(k),
               \A j \in DOMAIN pending : j # k => pending[j].kind = "expand"
        PROVE  \E j \in DOMAIN pending' :
                    /\ UnderWay(j)'
                    /\ \A i \in DOMAIN pending' : i # j => pending'[i].kind = "expand"
    <2>1. pending[k].kind # "expand"
      BY <1>3 DEF UnderWay
    <2>2. PICK j \in DOMAIN pending' : pending'[j] = pending[k]
      BY <2>1
    <2>3. UnderWay(j)'
      BY <1>1, <1>3, <2>2 DEF UnderWay
    <2>4. ASSUME NEW i \in DOMAIN pending', i # j PROVE pending'[i].kind = "expand"
      <3> SUFFICES ASSUME pending'[i].kind # "expand" PROVE FALSE
        OBVIOUS
      <3>1. PICK m \in DOMAIN pending :
                /\ pending[m] = pending'[j]
                /\ \E l \in DOMAIN pending : l # m /\ pending[l] = pending'[i]
        BY <2>1, <2>2, <2>4
      <3>2. m = k
        BY <1>3, <2>1, <2>2, <3>1
      <3>3. QED
        BY <1>3, <3>1, <3>2
    <2>5. QED
      BY <2>3, <2>4
  <1>4. QED
    BY <1>2, <1>3 DEF NavigationOK

\* A click on an arrow closes its node, opens it, or requests its script.
LEMMA ExpandToggleKeeps ==
    ASSUME TreeInv, NEW n \in Nodes, expandToggle(n)
    PROVE  TreeInv'
  <1> DEFINE r == [kind |-> "expand", data |-> n]
  <1>1. TypeOK /\ RequestsOK /\ IndexFirst /\ NodesMadeOnce /\ NavigationOK
    BY DEF TreeInv
  <1>2. /\ UNCHANGED <<index, loaded, url, changed, cached, sync>>
        /\ UNCHANGED <<crumbs, goal, disturbed, selected, animating>>
        /\ n \in Opens /\ Visible(n)
    BY DEF expandToggle, addressVars, goalVars, shownVars
  <1>3. index = TRUE
    BY <1>1, <1>2, VisibleIs
  <1>4. pending \in Seq(Requests) /\ selected \subseteq Nodes
    BY <1>1 DEF RequestsOK, TypeOK
  <1>5. CASE /\ pending' = pending /\ getNode({n}) /\ n \in loaded
             /\ expanded' = expanded \cup {n}
    <2>1. /\ visited' = visited \cup {n}
          /\ made' \in [Nodes -> Nat] /\ NodesMadeOnce'
          /\ \A m \in Nodes : made[m] = 1 => made'[m] = 1
      BY <1>1, <1>5, GetNodeMakesOnce
    <2>2. TypeOK' /\ RequestsOK'
      BY <1>1, <1>2, <1>5, <2>1 DEF TypeOK, RequestsOK
    <2>3. IndexFirst'
      BY <1>2, <1>3 DEF IndexFirst
    <2>4. NavigationOK'
      BY <1>1, <1>2, <1>4, <1>5, <2>1, ExpandsOnly
    <2>5. QED
      BY <2>1, <2>2, <2>3, <2>4 DEF TreeInv
  <1>6. CASE UNCHANGED <<visited, made, expanded>> /\ getScript(r, pending)
    <2>1. r \in Requests /\ r.kind = "expand"
      BY <1>2 DEF Requests
    <2> HIDE DEF r
    <2>2. /\ pending' \in Seq(Requests) /\ Len(pending') = Len(pending) + 1
          /\ Len(pending) < MaxPending /\ Len(pending) \in Nat
          /\ DOMAIN pending' = 1 .. Len(pending) + 1 /\ DOMAIN pending = 1 .. Len(pending)
          /\ \A k \in 1 .. Len(pending) : pending'[k] = pending[k]
          /\ pending'[Len(pending) + 1] = r
      BY <1>4, <1>6, <2>1, Appended DEF getScript
    <2>3. TypeOK'
      BY <1>1, <1>2, <1>6, <2>2, NavTreeAssumption DEF TypeOK, NavTreeAssumption
    <2>4. RequestsOK'
      BY <1>1, <1>2, <2>1, <2>2 DEF RequestsOK
    <2>5. IndexFirst' /\ NodesMadeOnce'
      BY <1>1, <1>2, <1>3, <1>6 DEF IndexFirst, NodesMadeOnce
    <2>6. \A j \in DOMAIN pending' : pending'[j].kind # "expand" =>
                j \in DOMAIN pending /\ pending'[j] = pending[j]
      BY <2>1, <2>2
    <2>7. \A k \in DOMAIN pending : k \in DOMAIN pending' /\ pending'[k] = pending[k]
      BY <2>2
    <2>8. NavigationOK'
      BY <1>1, <1>2, <1>4, <1>6, <2>6, <2>7, ExpandsOnly
    <2>9. QED
      BY <2>3, <2>4, <2>5, <2>8 DEF TreeInv
  <1>7. CASE /\ expanded' = expanded \ {n}
             /\ UNCHANGED <<visited, made, pending>>
    <2>1. TypeOK'
      BY <1>1, <1>2, <1>7 DEF TypeOK
    <2>2. RequestsOK' /\ IndexFirst' /\ NodesMadeOnce'
      BY <1>1, <1>2, <1>3, <1>7 DEF RequestsOK, IndexFirst, NodesMadeOnce
    <2>3. NavigationOK'
      BY <1>1, <1>2, <1>4, <1>7, ExpandsOnly
    <2>4. QED
      BY <2>1, <2>2, <2>3 DEF TreeInv
  <1>8. QED
    BY <1>5, <1>6, <1>7 DEF expandToggle, expandNode

\* A hashchange is handled: the selection it keeps shows the address already.
LEMMA HashChangeKeeps ==
    ASSUME TreeInv, HashChange
    PROVE  TreeInv'
  <1> DEFINE there == \E n \in selected : url.hash # NoHash /\ LinkOf[n] = url
             was == IF there THEN selected ELSE {}
             wanted == IF cached = NoLink THEN url ELSE cached
             to == IF wanted.hash \in LineHashes THEN [wanted EXCEPT !.hash = NoHash]
                   ELSE wanted
             r == [kind |-> "index", link |-> to]
  <1>1. TypeOK /\ RequestsOK /\ IndexFirst /\ NodesMadeOnce /\ NavigationOK
    BY DEF TreeInv
  <1>2. UNCHANGED <<url, cached, sync>> /\ changed' = FALSE
    BY DEF HashChange
  <1>3. /\ pending \in Seq(Requests) /\ Len(pending) <= MaxPending
        /\ selected \subseteq Nodes /\ was \subseteq Nodes
        /\ url \in Links /\ cached \in Links \cup {NoLink}
        /\ loaded \subseteq Opens /\ Opens \ Lazy \subseteq loaded
    BY <1>1 DEF TypeOK, RequestsOK
  <1>4. to \in Links
    <2>1. wanted \in Links
      BY <1>3
    <2>2. QED
      BY <2>1, StrippedIs
  <1>5. CASE animating
    <2>1. UNCHANGED <<treeVars, goalVars, shownVars>>
      BY <1>5 DEF HashChange
    <2>2. UNCHANGED <<treeVars, goalVars, selected, animating>>
      BY <2>1 DEF shownVars
    <2>3. url' \in Links /\ cached' \in Links \cup {NoLink} /\ (sync' <=> cached' = NoLink)
          /\ changed' \in BOOLEAN /\ sync' \in BOOLEAN /\ animating' \in BOOLEAN
      BY <1>1, <1>2, <2>2 DEF TypeOK
    <2>4. QED
      BY <2>2, <2>3, TreeStays
  <1>6. CASE ~animating
    <2>1. navTo(url, was)
      BY <1>6, Zenon DEF HashChange
    <2>2. /\ goal' = to
          /\ disturbed' = (Navigating \/ (was # {} /\ (disturbed \/ wanted # url)))
          /\ IF index
             THEN gotoNode(to, loaded, pending, was) /\ UNCHANGED index
             ELSE /\ getScript(r, pending) /\ selected' = was
                  /\ UNCHANGED <<index, loaded, visited, made, expanded, crumbs, animating>>
      BY <2>1 DEF navTo
    <2>3. disturbed' \in BOOLEAN
      BY <2>2 DEF Navigating
    <2>4. CASE index
      <3>1. gotoNode(to, loaded, pending, was) /\ index' = TRUE
        BY <1>1, <2>2, <2>4 DEF TypeOK
      <3> HIDE DEF was, to, wanted
      <3>2. /\ crumbs' = Way(to) /\ Way(to) \in Paths
            /\ Entry(to).hash \in Hashes \cup {NoHash}
            /\ 1 \in 1 .. Len(Way(to)) /\ 1 \in 1 .. MaxPath
            /\ Root \in Nodes
            /\ showNode(Stop(to, 1), 1, Entry(to).hash, Way(to), loaded, pending, was)
            /\ showNode(Root, 1, Entry(to).hash, Way(to), loaded, pending, was)
        BY <1>4, <3>1, GotoNodeShows
      <3>3. TypeOK' /\ RequestsOK' /\ IndexFirst' /\ NodesMadeOnce'
        BY <1>1, <1>2, <1>3, <1>4, <2>2, <2>3, <3>1, <3>2, ShowNodeTypes
      <3>4. NavigationOK'
        <4> SUFFICES ASSUME ~disturbed' PROVE NavigationOK'
          BY DEF NavigationOK
        <4>1. ~Navigating /\ (was # {} => ~disturbed /\ wanted = url)
          BY <2>2
        <4>2. \A j \in DOMAIN pending : pending[j].kind = "expand"
          BY <4>1 DEF Navigating
        <4>3. \A n \in was : made[n] = 1 /\ LinkOf[n] = LinkOf[Target[to]]
          <5> SUFFICES ASSUME was # {}
                       PROVE  \A n \in was : made[n] = 1 /\ LinkOf[n] = LinkOf[Target[to]]
            OBVIOUS
          <5>1. was = selected /\ \E n \in selected : url.hash # NoHash /\ LinkOf[n] = url
            BY DEF was
          <5>2. PICK n \in selected : url.hash # NoHash /\ LinkOf[n] = url
            BY <5>1
          <5>3. Shows(goal)
            BY <1>1, <4>1, QuietShows
          <5>4. \A m \in selected : made[m] = 1 /\ LinkOf[m] = url
            BY <5>2, <5>3 DEF Shows
          <5>5. url \in DOMAIN Index /\ url.hash \notin LineHashes
            BY <1>3, <5>2, IndexAssumption DEF IndexAssumption
          <5>6. to = url
            BY <4>1, <5>5 DEF to
          <5>7. LinkOf[Target[url]] = url
            BY <1>3, <5>2, <5>5, EntryIs, TargetIs
          <5>8. QED
            BY <5>1, <5>4, <5>6, <5>7
        <4>4. QED
          BY <1>1, <1>3, <1>4, <2>2, <3>2, <4>2, <4>3, ShowNodeNavigates
      <3>5. QED
        BY <3>3, <3>4 DEF TreeInv
    <2>5. CASE ~index
      <3>1. /\ visited = {} /\ selected = {}
            /\ \A k \in DOMAIN pending : pending[k].kind = "index"
        BY <1>1, <2>5 DEF IndexFirst
      <3>3. r \in Requests /\ r.kind = "index"
        BY <1>4 DEF Requests
      <3>4. /\ getScript(r, pending) /\ selected' = {}
            /\ UNCHANGED <<index, loaded, visited, made, expanded, crumbs, animating>>
        BY <2>2, <2>5, <3>1
      <3> HIDE DEF r
      <3>5. /\ pending' \in Seq(Requests) /\ Len(pending') = Len(pending) + 1
            /\ Len(pending) < MaxPending /\ Len(pending) \in Nat
            /\ DOMAIN pending' = 1 .. Len(pending) + 1 /\ DOMAIN pending = 1 .. Len(pending)
            /\ \A k \in 1 .. Len(pending) : pending'[k] = pending[k]
            /\ pending'[Len(pending) + 1] = r
        BY <1>3, <3>3, <3>4, Appended DEF getScript
      <3>6. Len(pending') <= MaxPending
        BY <3>5, NavTreeAssumption DEF NavTreeAssumption
      <3>7. \A k \in DOMAIN pending' : pending'[k].kind = "index"
        BY <3>1, <3>3, <3>5
      <3>8. TypeOK'
        BY <1>1, <1>2, <1>4, <2>2, <2>3, <3>4, <3>6 DEF TypeOK
      <3>9. RequestsOK' /\ NodesMadeOnce'
        BY <1>1, <3>4, <3>5, <3>7 DEF RequestsOK, NodesMadeOnce
      <3>10. IndexFirst'
        BY <3>1, <3>4, <3>6, <3>7 DEF IndexFirst
      <3>11. NavigationOK'
        <4> SUFFICES ASSUME ~disturbed' PROVE NavigationOK'
          BY DEF NavigationOK
        <4>1. ~Navigating
          BY <2>2, <2>3
        <4>2. pending = <<>>
          <5> SUFFICES ASSUME pending # <<>> PROVE FALSE
            OBVIOUS
          <5>1. 1 \in DOMAIN pending
            BY <1>3
          <5>2. QED
            BY <3>1, <4>1, <5>1 DEF Navigating
        <4>3. DOMAIN pending' = {1} /\ pending'[1] = r
          BY <3>5, <4>2
        <4>4. r = [kind |-> "index", link |-> goal'] /\ ~index'
          BY <2>2, <2>5, <3>4 DEF r
        <4>5. UnderWay(1)'
          BY <4>3, <4>4 DEF UnderWay
        <4>6. QED
          BY <4>3, <4>5 DEF NavigationOK
      <3>12. QED
        BY <3>8, <3>9, <3>10, <3>11 DEF TreeInv
    <2>6. QED
      BY <2>4, <2>5
  <1>7. QED
    BY <1>5, <1>6

\* A script has run: the index, one a walk waited for, or one of a click.
LEMMA ScriptLoadsKeeps ==
    ASSUME TreeInv, NEW k \in DOMAIN pending, ScriptLoads(k)
    PROVE  TreeInv'
  <1> DEFINE done == pending[k]
             others == RemoveAt(pending, k)
             Place(j) == IF j < k THEN j ELSE j + 1
  <1>1. TypeOK /\ RequestsOK /\ IndexFirst /\ NodesMadeOnce /\ NavigationOK
    BY DEF TreeInv
  <1>2. /\ pending \in Seq(Requests) /\ Len(pending) <= MaxPending
        /\ selected \subseteq Nodes /\ loaded \subseteq Opens /\ goal \in Links
        /\ disturbed \in BOOLEAN /\ changed \in BOOLEAN
        /\ done.kind = "show" => crumbs \in Paths
    BY <1>1 DEF TypeOK, RequestsOK
  <1>3. UNCHANGED <<url, changed, cached, sync, goal, disturbed>>
    BY DEF ScriptLoads, addressVars
  <1>4. /\ done \in Requests
        /\ others \in Seq(Requests) /\ Len(others) = Len(pending) - 1
        /\ DOMAIN others = 1 .. Len(pending) - 1 /\ DOMAIN pending = 1 .. Len(pending)
        /\ Len(pending) \in Nat
        /\ \A j \in 1 .. Len(pending) - 1 : others[j] = pending[Place(j)]
    BY <1>2, Removed
  <1>5. Len(others) <= MaxPending
    BY <1>2, <1>4, NavTreeAssumption DEF NavTreeAssumption
  <1>6. \A j \in DOMAIN others : Place(j) \in DOMAIN pending /\ Place(j) # k
    BY <1>4
  <1>7. /\ done.kind \in {"index", "show", "expand"}
        /\ done.kind = "index" => done.link \in Links
        /\ done.kind = "show" => /\ done.data \in Opens /\ done.node \in Nodes
                                /\ done.at \in 1 .. MaxPath
                                /\ done.hash \in Hashes \cup {NoHash}
        /\ done.kind = "expand" => done.data \in Opens
    BY <1>4, RequestIs
  <1>8. done.kind # "index" => index = TRUE
    BY <1>1 DEF IndexFirst, TypeOK
  \* Of a navigation under way no other request is left.
  <1>9. ASSUME ~disturbed, done.kind # "expand"
        PROVE  UnderWay(k) /\ \A j \in DOMAIN others : others[j].kind = "expand"
    <2>1. Navigating
      BY <1>9 DEF Navigating
    <2>2. PICK m \in DOMAIN pending :
            UnderWay(m) /\ \A j \in DOMAIN pending : j # m => pending[j].kind = "expand"
      BY <1>1, <1>9, <2>1 DEF NavigationOK
    <2>3. m = k
      BY <1>9, <2>2
    <2>4. QED
      BY <1>4, <1>6, <2>2, <2>3
  <1>10. \/ done.kind = "index" /\ index' = TRUE /\ gotoNode(done.link, loaded, others, selected)
         \/ /\ done.kind = "show"
            /\ showNode(done.node, done.at, done.hash, crumbs, Arrived(done.data), others, selected)
            /\ UNCHANGED <<index, crumbs>>
         \/ /\ done.kind = "expand"
            /\ loaded' = Arrived(done.data)
            /\ IF done.data \in expanded
               THEN pending' = others /\ UNCHANGED <<visited, made, expanded>>
               ELSE expandNode(done.data, loaded', others)
            /\ UNCHANGED <<index, crumbs, shownVars>>
    BY DEF ScriptLoads
  <1>11. done.kind # "index" => loaded \subseteq Arrived(done.data) /\ Arrived(done.data) \subseteq Opens
                              /\ done.data \in Arrived(done.data)
    BY <1>2, <1>7 DEF Arrived
  <1> HIDE DEF done, others
  <1>12. CASE done.kind = "index"
    <2> DEFINE link == done.link
    <2>1. gotoNode(link, loaded, others, selected) /\ index' = TRUE /\ link \in Links
      BY <1>7, <1>10, <1>12
    <2> HIDE DEF link
    <2>2. /\ crumbs' = Way(link) /\ Way(link) \in Paths
          /\ Entry(link).hash \in Hashes \cup {NoHash}
          /\ 1 \in 1 .. Len(Way(link)) /\ 1 \in 1 .. MaxPath
          /\ Root \in Nodes
          /\ showNode(Stop(link, 1), 1, Entry(link).hash, Way(link), loaded, others, selected)
          /\ showNode(Root, 1, Entry(link).hash, Way(link), loaded, others, selected)
      BY <2>1, GotoNodeShows
    <2>3. TypeOK' /\ RequestsOK' /\ IndexFirst' /\ NodesMadeOnce'
      BY <1>1, <1>2, <1>3, <1>4, <1>5, <2>1, <2>2, ShowNodeTypes
    <2>4. NavigationOK'
      <3> SUFFICES ASSUME ~disturbed PROVE NavigationOK'
        BY <1>3 DEF NavigationOK
      <3>1. UnderWay(k) /\ \A j \in DOMAIN others : others[j].kind = "expand"
        BY <1>9, <1>12
      <3>2. link = goal /\ ~index
        BY <1>12, <3>1 DEF UnderWay, done, link
      <3>3. selected = {}
        BY <1>1, <3>2 DEF IndexFirst
      <3>4. goal' = link /\ \A n \in selected : made[n] = 1 /\ LinkOf[n] = LinkOf[Target[link]]
        BY <1>3, <3>2, <3>3
      <3>5. QED
        BY <1>1, <1>2, <1>4, <1>5, <2>1, <2>2, <3>1, <3>4, ShowNodeNavigates
    <2>5. QED
      BY <2>3, <2>4 DEF TreeInv
  <1>13. CASE done.kind = "show"
    <2>1. showNode(done.node, done.at, done.hash, crumbs, Arrived(done.data), others, selected)
          /\ crumbs' = crumbs /\ index' = TRUE
      BY <1>8, <1>10, <1>13
    <2>2. TypeOK' /\ RequestsOK' /\ IndexFirst' /\ NodesMadeOnce'
      BY <1>1, <1>2, <1>3, <1>4, <1>5, <1>7, <1>11, <1>13, <2>1, ShowNodeTypes
    <2>3. NavigationOK'
      <3> SUFFICES ASSUME ~disturbed PROVE NavigationOK'
        BY <1>3 DEF NavigationOK
      <3>1. UnderWay(k) /\ \A j \in DOMAIN others : others[j].kind = "expand"
        BY <1>9, <1>13
      <3>2. /\ crumbs = Way(goal) /\ done.at \in DOMAIN Way(goal)
            /\ done.node = Stop(goal, done.at) /\ done.hash = Entry(goal).hash
            /\ Shows(goal)
        BY <1>13, <3>1 DEF UnderWay, done
      <3>3. done.at \in 1 .. Len(Way(goal))
        BY <1>2, <3>2, TargetIs
      <3>4. showNode(Stop(goal, done.at), done.at, Entry(goal).hash, Way(goal),
                     Arrived(done.data), others, selected)
        BY <2>1, <3>2
      <3>5. goal' = goal /\ crumbs' = Way(goal)
        BY <1>3, <2>1, <3>2
      <3>6. \A n \in selected : made[n] = 1 /\ LinkOf[n] = LinkOf[Target[goal]]
        BY <3>2 DEF Shows
      <3>7. QED
        BY <1>1, <1>2, <1>4, <1>5, <1>11, <1>13, <3>1, <3>3, <3>4, <3>5, <3>6, ShowNodeNavigates
    <2>4. QED
      BY <2>2, <2>3 DEF TreeInv
  <1>14. CASE done.kind = "expand"
    <2>1. /\ loaded' = Arrived(done.data) /\ pending' = others
          /\ UNCHANGED <<index, crumbs, selected, animating>>
          /\ \/ UNCHANGED <<visited, made, expanded>>
             \/ getNode({done.data}) /\ expanded' = expanded \cup {done.data}
      BY <1>10, <1>11, <1>14 DEF expandNode, shownVars
    <2>2. /\ visited \subseteq visited' /\ visited' \subseteq visited \cup {done.data}
          /\ expanded' \subseteq visited' /\ made' \in [Nodes -> Nat] /\ NodesMadeOnce'
          /\ \A n \in Nodes : made[n] = 1 => made'[n] = 1
      <3>1. CASE UNCHANGED <<visited, made, expanded>>
        BY <1>1, <3>1 DEF TypeOK, NodesMadeOnce
      <3>2. CASE getNode({done.data}) /\ expanded' = expanded \cup {done.data}
        <4>1. {done.data} \subseteq Nodes
          BY <1>7, <1>14 DEF Opens
        <4>2. /\ visited' = visited \cup {done.data}
              /\ made' \in [Nodes -> Nat] /\ NodesMadeOnce'
              /\ \A n \in Nodes : made[n] = 1 => made'[n] = 1
          BY <1>1, <3>2, <4>1, GetNodeMakesOnce
        <4>3. QED
          BY <1>1, <3>2, <4>2 DEF TypeOK
      <3>3. QED
        BY <2>1, <3>1, <3>2
    <2>3. TypeOK'
      BY <1>1, <1>2, <1>3, <1>5, <1>11, <1>14, <2>1, <2>2 DEF TypeOK
    <2>4. RequestsOK'
      BY <1>1, <1>4, <1>6, <2>1 DEF RequestsOK
    <2>5. IndexFirst'
      BY <1>8, <1>14, <2>1 DEF IndexFirst
    <2>6. NavigationOK'
      <3>1. ASSUME NEW m \in DOMAIN pending, pending[m].kind # "expand"
            PROVE  \E j \in DOMAIN others : others[j] = pending[m]
        <4>1. m # k
          BY <1>14, <3>1 DEF done
        <4>2. CASE m < k
          BY <1>4, <4>2
        <4>3. CASE m > k
          <5>1. m - 1 \in DOMAIN others /\ Place(m - 1) = m
            BY <1>4, <4>3
          <5>2. QED
            BY <1>4, <5>1
        <4>4. QED
          BY <1>4, <4>1, <4>2, <4>3
      <3>2. \A i, j \in DOMAIN others : i # j => Place(i) # Place(j)
        BY <1>4
      <3>3. \A j \in DOMAIN others : pending[Place(j)] = others[j]
        BY <1>4
      <3> HIDE DEF Place
      <3>4. \A j \in DOMAIN others : others[j].kind # "expand" =>
                \E m \in DOMAIN pending :
                    /\ pending[m] = others[j]
                    /\ \A i \in DOMAIN others :
                        i # j /\ others[i].kind # "expand" =>
                            \E l \in DOMAIN pending : l # m /\ pending[l] = others[i]
        BY <1>6, <3>2, <3>3
      <3>5. QED
        BY <1>1, <1>2, <1>3, <2>1, <2>2, <3>1, <3>4, ExpandsOnly
    <2>7. QED
      BY <2>2, <2>3, <2>4, <2>5, <2>6 DEF TreeInv
  <1>15. QED
    BY <1>7, <1>12, <1>13, <1>14

\* A script has failed: without a click's request a navigation stays as it was,
\* and without its own it is disturbed.
LEMMA ScriptFailsKeeps ==
    ASSUME TreeInv, NEW k \in DOMAIN pending, ScriptFails(k)
    PROVE  TreeInv'
  <1> DEFINE others == RemoveAt(pending, k)
             Place(j) == IF j < k THEN j ELSE j + 1
  <1>1. TypeOK /\ RequestsOK /\ IndexFirst /\ NodesMadeOnce /\ NavigationOK
    BY DEF TreeInv
  <1>2. /\ pending' = others /\ disturbed' = (disturbed \/ pending[k].kind # "expand")
        /\ UNCHANGED <<index, loaded, visited, made, expanded, crumbs, goal,
                       url, changed, cached, sync, selected, animating>>
    BY DEF ScriptFails, addressVars, shownVars
  <1>3. pending \in Seq(Requests) /\ Len(pending) <= MaxPending /\ disturbed \in BOOLEAN
    BY <1>1 DEF TypeOK, RequestsOK
  <1>4. /\ others \in Seq(Requests) /\ Len(others) = Len(pending) - 1
        /\ DOMAIN others = 1 .. Len(pending) - 1 /\ DOMAIN pending = 1 .. Len(pending)
        /\ Len(pending) \in Nat
        /\ \A j \in 1 .. Len(pending) - 1 : others[j] = pending[Place(j)]
    BY <1>3, Removed
  <1>5. Len(others) <= MaxPending
    BY <1>3, <1>4, NavTreeAssumption DEF NavTreeAssumption
  <1>6. \A j \in DOMAIN others : Place(j) \in DOMAIN pending /\ Place(j) # k
    BY <1>4
  <1>7. \A j \in DOMAIN others : pending[Place(j)] = others[j]
    BY <1>4
  <1>8. \A i, j \in DOMAIN others : i # j => Place(i) # Place(j)
    BY <1>4
  <1>9. ASSUME NEW m \in DOMAIN pending, m # k
        PROVE  \E j \in DOMAIN others : others[j] = pending[m]
    <2>1. CASE m < k
      BY <1>4, <2>1
    <2>2. CASE m > k
      <3>1. m - 1 \in DOMAIN others /\ Place(m - 1) = m
        BY <1>4, <2>2
      <3>2. QED
        BY <1>4, <3>1
    <2>3. QED
      BY <1>4, <1>9, <2>1, <2>2
  <1> HIDE DEF others, Place
  <1>10. TypeOK'
    BY <1>1, <1>2, <1>3, <1>5 DEF TypeOK
  <1>11. RequestsOK'
    BY <1>1, <1>2, <1>4, <1>6, <1>7 DEF RequestsOK
  <1>12. IndexFirst' /\ NodesMadeOnce'
    BY <1>1, <1>2, <1>6, <1>7 DEF IndexFirst, NodesMadeOnce
  <1>13. NavigationOK'
    <2> SUFFICES ASSUME ~disturbed' PROVE NavigationOK'
      BY DEF NavigationOK
    <2>1. UNCHANGED disturbed /\ pending[k].kind = "expand"
      BY <1>2, <1>3
    <2>2. \A m \in DOMAIN pending : pending[m].kind # "expand" =>
                \E j \in DOMAIN others : others[j] = pending[m]
      BY <1>9, <2>1
    <2>3. \A j \in DOMAIN others : others[j].kind # "expand" =>
            \E m \in DOMAIN pending :
                /\ pending[m] = others[j]
                /\ \A i \in DOMAIN others :
                    i # j /\ others[i].kind # "expand" =>
                        \E l \in DOMAIN pending : l # m /\ pending[l] = others[i]
      BY <1>6, <1>7, <1>8
    <2>4. \A n \in Nodes : made[n] = 1 => made'[n] = 1
      BY <1>2
    <2>5. selected \subseteq Nodes
      BY <1>1 DEF TypeOK
    <2>6. QED
      BY <1>1, <1>2, <2>1, <2>2, <2>3, <2>4, <2>5, ExpandsOnly
  <1>14. QED
    BY <1>10, <1>11, <1>12, <1>13 DEF TreeInv

------------------------------------------------------------------------------
(* Theorems *)

\* The invariant holds in the first states and is kept by every step.
THEOREM TreeInvariant == Spec => []TreeInv
  <1>1. Init => TreeInv
    <2> SUFFICES ASSUME Init PROVE TreeInv
      OBVIOUS
    <2> DEFINE r == [kind |-> "index", link |-> goal]
    <2>1. goal \in Links
      BY StrippedIs DEF Init
    <2>2. pending = <<r>> /\ r \in Requests
      BY <2>1 DEF Init, Requests
    <2>3. /\ DOMAIN pending = {1} /\ pending[1] = r /\ pending \in Seq(Requests)
          /\ Len(pending) = 1 /\ pending # <<>>
      BY <2>2
    <2>4. /\ visited = {} /\ selected = {} /\ index = FALSE /\ expanded = {}
          /\ loaded = Opens \ Lazy /\ made = [n \in Nodes |-> 0] /\ crumbs = <<>>
          /\ changed = FALSE /\ disturbed = FALSE /\ animating = FALSE
          /\ url \in Links /\ cached = NoLink /\ sync = TRUE
      BY DEF Init
    <2>5. MaxPending >= 1 /\ crumbs \in Seq(Nat \ {0})
      BY <2>4, NavTreeAssumption DEF NavTreeAssumption
    <2>6. TypeOK
      BY <2>1, <2>3, <2>4, <2>5 DEF TypeOK
    <2>7. RequestsOK /\ IndexFirst
      BY <2>3, <2>4 DEF RequestsOK, IndexFirst
    <2>8. NodesMadeOnce
      BY <2>4 DEF NodesMadeOnce
    <2>9. NavigationOK
      BY <2>3, <2>4 DEF NavigationOK, UnderWay
    <2>10. QED
      BY <2>6, <2>7, <2>8, <2>9 DEF TreeInv
  <1>2. TreeInv /\ [Next]_vars => TreeInv'
    <2> SUFFICES ASSUME TreeInv, [Next]_vars PROVE TreeInv'
      OBVIOUS
    <2>0. TypeOK
      BY DEF TreeInv
    <2>1. ASSUME NEW hash \in Hashes \cup {NoHash}, FollowHash(hash) PROVE TreeInv'
      <3>1. /\ url' \in Links /\ changed' = TRUE
            /\ UNCHANGED <<cached, sync, treeVars, goalVars, selected, animating>>
        BY <2>0, <2>1 DEF FollowHash, shownVars, TypeOK, Links
      <3>2. QED
        BY <2>0, <3>1, TreeStays DEF TypeOK
    <2>2. ASSUME NEW n \in Nodes, ClickAnchor(n) \/ ClickLink(n) \/ expandToggle(n)
          PROVE  TreeInv'
      <3>1. LinkOf[n] \in Links
        BY NavTreeAssumption DEF NavTreeAssumption
      <3>2. ASSUME ClickLink(n) PROVE TreeInv'
        <4> DEFINE kept == IF sync THEN cached ELSE LinkOf[n]
        <4>1. OpenPage(LinkOf[n], kept)
          BY <3>2 DEF ClickLink
        <4>2. kept \in Links \cup {NoLink}
          BY <2>0, <3>1 DEF TypeOK
        <4> HIDE DEF kept
        <4>3. QED
          BY <3>1, <4>1, <4>2, PageOpens
      <3>3. QED
        BY <2>2, <3>2, ClickAnchorKeeps, ExpandToggleKeeps
    <2>3. ASSUME NEW link \in Links, OpenPage(link, cached) PROVE TreeInv'
      <3>1. cached \in Links \cup {NoLink}
        BY <2>0 DEF TypeOK
      <3>2. QED
        BY <2>3, <3>1, PageOpens
    <2>4. CASE navSync
      <3>1. /\ sync' = ~sync /\ cached' = IF sync THEN url ELSE NoLink
            /\ UNCHANGED <<url, changed, treeVars, goalVars, selected, animating>>
        BY <2>4 DEF navSync, shownVars
      <3>2. NoLink \notin Links /\ url \in Links
        BY <2>0, NavTreeAssumption DEF NavTreeAssumption, TypeOK
      <3>3. QED
        BY <2>0, <3>1, <3>2, TreeStays DEF TypeOK
    <2>5. CASE AnimationEnds
      <3>1. /\ animating' = FALSE
            /\ UNCHANGED <<url, changed, cached, sync, treeVars, goalVars, selected>>
        BY <2>5 DEF AnimationEnds, addressVars
      <3>2. QED
        BY <2>0, <3>1, TreeStays DEF TypeOK
    <2>6. CASE UNCHANGED vars
      <3>1. UNCHANGED <<url, changed, cached, sync, treeVars, goalVars, selected, animating>>
        BY <2>6 DEF vars, addressVars, shownVars
      <3>2. QED
        BY <2>0, <3>1, TreeStays DEF TypeOK
    <2>7. QED
      BY <2>1, <2>2, <2>3, <2>4, <2>5, <2>6, HashChangeKeeps, ScriptLoadsKeeps,
         ScriptFailsKeeps
      DEF Next, Reader, Browser
  <1>3. QED
    BY <1>1, <1>2, PTL DEF Spec

\* The variables keep their ranges, and the icon says what the next page will do:
\* the panel follows exactly when the cookie keeps no link.
THEOREM TypeOKCorrect == Spec => []TypeOK
  BY TreeInvariant, PTL DEF TreeInv

\* Whatever navigations and clicks waited for the same script, each node of the
\* tree was made once if its parent was visited, and not otherwise.
THEOREM NodesMadeOnceCorrect == Spec => []NodesMadeOnce
  BY TreeInvariant, PTL DEF TreeInv

\* When no navigation is under way and nothing disturbed one, the tree shows the
\* link last looked for, whichever scripts had to come first.
THEOREM QuietTreeFollowsCorrect == Spec => []QuietTreeFollows
  <1>1. TreeInv => QuietTreeFollows
    BY QuietShows DEF TreeInv, QuietTreeFollows, Shows
  <1>2. QED
    BY <1>1, TreeInvariant, PTL
=============================================================================
