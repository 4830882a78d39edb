------------------------------- MODULE NavTree -------------------------------
(***************************************************************************)
(* The navigation tree of the published documentation (docs/html/          *)
(* navtree.js, with the settings of cookie.js).                            *)
(*                                                                         *)
(* The tree is made as it is needed: the children of some nodes are in     *)
(* scripts of their own, and so is the index that leads from a link to the *)
(* node that stands for it.  A navigation looks its link up and walks down *)
(* the tree; where it meets a script that is not there it requests it and  *)
(* goes on when it has run, reading the breadcrumbs every navigation       *)
(* shares; if the script is missing it never goes on.  Meanwhile the       *)
(* reader opens nodes, follows links and changes the address.              *)
(***************************************************************************)
EXTENDS Integers, Sequences, SequencesExt, FiniteSets

CONSTANTS
    Nodes, Root,    \* the nodes, and o.node, the root nobody sees
    Kids,           \* the children of each node, in order
    Lazy,           \* the nodes whose children are in a script
    LinkOf,         \* the link of each node: [page, hash]
    Index,          \* the breadcrumbs of the links that have an entry
    Pages,          \* the pages of the documentation
    MainPages,      \* those that open the node they select
    Hashes,         \* the anchors an address can name
    LineHashes,     \* those that name a line of a source file
    NoHash, NoLink, Nowhere,
    MaxPath,        \* bound on the breadcrumbs of a link
    MaxPending      \* bound on scripts requested at once

Links == [page : Pages, hash : Hashes \cup {NoHash}]

NavTreeAssumption ==
    /\ Root \in Nodes /\ Lazy \subseteq Nodes \ {Root} /\ Nowhere \notin Nodes
    /\ Kids \in [Nodes -> Seq(Nodes)] /\ Kids[Root] # <<>>
    /\ LinkOf \in [Nodes -> Links]
    /\ \A k \in Nodes \ {Root} : \E p \in Nodes : \A q \in Nodes :
            q = p <=> k \in Range(Kids[q])
    /\ \A q \in Nodes : Root \notin Range(Kids[q])
    /\ DOMAIN Index \subseteq Links /\ Index \in [DOMAIN Index -> Seq(Nat \ {0})]
    /\ LineHashes \subseteq Hashes /\ NoHash \notin Hashes /\ NoLink \notin Links
    /\ MaxPath \in Nat \ {0}
    /\ \A link \in DOMAIN Index : Len(Index[link]) < MaxPath
    /\ MaxPending \in Nat \ {0}
ASSUME NavTreeAssumption

VARIABLES
    url,        \* the address: [page, hash]
    changed,    \* a hashchange event waits to be handled
    cached,     \* the link the cookie keeps
    sync,       \* the panel follows the page
    index,      \* the script of the index has run
    loaded,     \* the nodes whose children's data is there
    visited,    \* the nodes whose children were made
    made,       \* how often each node was made
    expanded,   \* the open nodes
    crumbs,     \* the breadcrumbs
    pending,    \* the scripts requested, and what goes on when they have run
    selected,   \* the selected nodes
    animating,  \* the page scrolls to an anchor
    goal,       \* the link the last navigation looked for
    disturbed   \* that navigation was begun before an older one had ended, or with a
                \* selection kept for the address while the cookie leads elsewhere, or
                \* a script some navigation waited for has failed since

addressVars == <<url, changed, cached, sync>>
treeVars == <<index, loaded, visited, made, expanded, pending>>
goalVars == <<crumbs, goal, disturbed>>
shownVars == <<selected, animating>>
vars == <<addressVars, treeVars, goalVars, shownVars>>

------------------------------------------------------------------------------
(* The tree *)

Opens == {n \in Nodes : Kids[n] # <<>>}

Child(n, i, path) ==
    IF n \in Nodes /\ i \in DOMAIN path /\ path[i] \in DOMAIN Kids[n]
    THEN Kids[n][path[i]] ELSE Nowhere

Parent == [k \in Nodes \ {Root} |-> CHOOSE p \in Nodes : k \in Range(Kids[p])]

\* Fault: nodes that were visited are made again.
getNode_Again(walked) ==
    /\ visited' = visited \cup walked
    /\ made' = [n \in Nodes |-> made[n] + IF n # Root /\ Parent[n] \in walked THEN 1 ELSE 0]

\* Fault: visits are not recorded.
getNode_Unrecorded(walked) ==
    /\ visited' = visited
    /\ made' = [n \in Nodes |-> made[n] + IF n # Root /\ Parent[n] \in walked THEN 1 ELSE 0]

(* getNode, of each node of walked not visited yet: its children are made. *)
MadeBy(walked) == {k \in Nodes \ {Root} : Parent[k] \in walked \ visited}

getNode(walked) ==
    /\ visited' = visited \cup walked
    /\ made' = [n \in Nodes |-> made[n] + IF n # Root /\ Parent[n] \in walked \ visited
                                           THEN 1 ELSE 0]

Exists(walked) == {n \in Nodes : made[n] > 0} \cup MadeBy(walked)

\* Fault: childrenData keeps the name of its script when the script has run.
Arrived_Forgotten(data) == loaded

(* getData: what a script brought is there from then on. *)
Arrived(data) == loaded \cup {data}

getScript(request, others) ==
    /\ Len(others) < MaxPending
    /\ pending' = Append(others, request)

(* The script of node data, after which the walk goes on from node n. *)
Request(data, n, i, hash) ==
    [kind |-> "show", data |-> data, node |-> n, at |-> i, hash |-> hash]

------------------------------------------------------------------------------
(* Navigating *)

(* gotoNode: a link without an entry is looked up without its hash, and a  *)
(* page without one leads to the first node.                               *)
Entry(link) == IF link \in DOMAIN Index THEN link ELSE [link EXCEPT !.hash = NoHash]

Breadcrumbs ==
    [entry \in Links |-> <<1>> \o IF entry \in DOMAIN Index THEN Index[entry] ELSE <<>>]

Paths == {Breadcrumbs[entry] : entry \in Links}

(* The node before each place of a path that goes on from node from at at. *)
Reached(path, from, at) ==
    LET N[i \in Nat] == IF i <= at THEN from ELSE Child(N[i - 1], i - 1, path)
    IN  N

(* The data of navtreedata.js, navtreeindex0.js and the scripts of children: *)
(* the index leads down the tree, and with a hash to a node of that link;    *)
(* the links of nodes that have one are indexed, name no line of a source    *)
(* file and share their hash with no other page.                             *)
IndexAssumption ==
    /\ \A entry \in DOMAIN Index :
        LET path == Breadcrumbs[entry]
            N == Reached(path, Root, 1)
        IN  /\ \A i \in DOMAIN path : N[i + 1] # Nowhere
            /\ entry.hash # NoHash => LinkOf[N[Len(path) + 1]] = entry
    /\ \A n \in Nodes : LinkOf[n].hash # NoHash =>
        /\ LinkOf[n] \in DOMAIN Index /\ LinkOf[n].hash \notin LineHashes
        /\ \A m \in Nodes : LinkOf[m].hash = LinkOf[n].hash => LinkOf[m] = LinkOf[n]
ASSUME IndexAssumption

(* showNode, the walk alone: from node n along the path from place i on. It *)
(* ends at the node to select (next, a child of node), where it needs the   *)
(* script of next (node itself, or the child to select), or off the tree.   *)
Walk(path, data, from, at) ==
    LET N == Reached(path, from, at)
        Ends(i) == i >= Len(path) \/ N[i] \notin Opens \cap data
        last == CHOOSE i \in at .. at + Len(path) :
                    Ends(i) /\ \A j \in at .. i - 1 : ~Ends(j)
        n == N[last]
        c == Child(n, last, path)
        Result(end, next, walked) ==
            [end |-> end, node |-> n, next |-> next, at |-> last,
             walked |-> {N[j] : j \in at .. last - 1} \cup walked]
    IN  IF n \notin Opens THEN Result("leaf", n, {})
        ELSE IF n \notin data THEN Result("script", n, {})
        ELSE IF c = Nowhere THEN Result("error", c, {n})
        ELSE IF c \in Opens \ data THEN Result("script", c, {n})
        ELSE Result("select", c, {n})

(* The same, tabulated for TLC. *)
Walks ==
    [path \in Paths |-> [data \in {(Opens \ Lazy) \cup scripts : scripts \in SUBSET Lazy} |->
        [from \in Nodes |-> [at \in 1 .. MaxPath |-> Walk(path, data, from, at)]]]]

(* gotoAnchor: the page begins to scroll, unless it has no such anchor. *)
gotoAnchor == animating' \in {animating, TRUE}

(* selectAndHighlight: the made nodes of the address with this hash, or     *)
(* else the node arrived at; nothing is deselected.                         *)
selectAndHighlight(n, hash, exists, was) ==
    LET anchors == {m \in exists : hash # NoHash /\
                        LinkOf[m] = [page |-> url.page, hash |-> hash]}
    IN  /\ selected' = was \cup (IF anchors # {} THEN anchors ELSE {n} \cap Nodes)
        /\ IF anchors # {} THEN gotoAnchor ELSE UNCHANGED animating

(* showNode.  data are the nodes whose children are there, others the      *)
(* requests still under way, was the selection so far.                     *)
showNode(from, at, hash, path, data, others, was) ==
    \E walk \in {Walks[path][data][from][at]} :
    \E opens \in {walk.walked \cup
                    (IF walk.end = "select" /\ url.page \in MainPages
                     THEN {walk.next} \cap Opens ELSE {})} :
        /\ loaded' = data
        /\ getNode(opens)
        /\ expanded' = expanded \cup opens
        /\ \/ /\ walk.end \in {"select", "leaf"}
              /\ selectAndHighlight(IF walk.end = "select" THEN walk.next ELSE Nowhere,
                                    hash, Exists(opens), was)
              /\ pending' = others
           \/ /\ walk.end = "error"
              /\ selected' = was /\ pending' = others
              /\ UNCHANGED animating
           \/ /\ walk.end = "script"
              /\ getScript(Request(walk.next, walk.node, walk.at, hash), others)
              /\ selected' = was
              /\ UNCHANGED animating

gotoNode(link, data, others, was) ==
    LET entry == Entry(link)
    IN  /\ crumbs' = Breadcrumbs[entry]
        /\ showNode(Root, 1, entry.hash, Breadcrumbs[entry], data, others, was)

Navigating == \E k \in DOMAIN pending : pending[k].kind # "expand"

(* navTo and gotoUrl: the cookie's link comes before the page's; a line of  *)
(* a source file is not looked up.                                          *)
navTo(link, was) ==
    LET wanted == IF cached = NoLink THEN link ELSE cached
        to == IF wanted.hash \in LineHashes THEN [wanted EXCEPT !.hash = NoHash] ELSE wanted
    IN  /\ goal' = to
        /\ disturbed' = (Navigating \/ (was # {} /\ (disturbed \/ wanted # link)))
        /\ IF index
           THEN /\ gotoNode(to, loaded, pending, was)
                /\ UNCHANGED index
           ELSE /\ getScript([kind |-> "index", link |-> to], pending)
                /\ selected' = was
                /\ UNCHANGED <<index, loaded, visited, made, expanded, crumbs, animating>>

\* Fault: the selection is never dropped.
HashChange_Keeps ==
    /\ changed
    /\ changed' = FALSE
    /\ IF animating
       THEN UNCHANGED <<treeVars, goalVars, shownVars>>
       ELSE navTo(url, selected)
    /\ UNCHANGED <<url, cached, sync>>

(* hashchange: the selection is dropped unless the anchor's node has it; an *)
(* event that comes while the page scrolls is ignored.                      *)
HashChange ==
    /\ changed
    /\ changed' = FALSE
    /\ IF animating
       THEN UNCHANGED <<treeVars, goalVars, shownVars>>
       ELSE LET there == \E n \in selected : url.hash # NoHash /\ LinkOf[n] = url
            IN  navTo(url, IF there THEN selected ELSE {})
    /\ UNCHANGED <<url, cached, sync>>

------------------------------------------------------------------------------
(* The reader *)

(* A link inside the page, or the browser's back button. *)
FollowHash(hash) ==
    /\ hash # url.hash
    /\ url' = [url EXCEPT !.hash = hash]
    /\ changed' = TRUE
    /\ UNCHANGED <<cached, sync, treeVars, goalVars, shownVars>>

storeLink(link, following) == cached' = IF following THEN cached ELSE link

Visible(n) == made[n] > 0 /\ Parent[n] \in expanded

(* A click on a node that stands for an anchor of this page selects it,    *)
(* scrolls to it and changes the address.                                  *)
ClickAnchor(n) ==
    /\ Visible(n) /\ LinkOf[n].hash # NoHash /\ LinkOf[n].page = url.page
    /\ storeLink(LinkOf[n], sync)
    /\ selected' = IF n \in selected THEN selected ELSE {n}
    /\ gotoAnchor
    /\ url' = LinkOf[n]
    /\ changed' = (changed \/ url # LinkOf[n])
    /\ goal' = LinkOf[n]
    /\ disturbed' = (Navigating \/ (disturbed /\ n \in selected))
    /\ UNCHANGED <<sync, treeVars, crumbs>>

(* expandNode: a node whose children are in a script opens when it has run. *)
expandNode(n, data, others) ==
    \/ /\ n \in data
       /\ getNode({n})
       /\ expanded' = expanded \cup {n}
       /\ pending' = others
    \/ /\ n \notin data
       /\ getScript([kind |-> "expand", data |-> n], others)
       /\ UNCHANGED <<visited, made, expanded>>

(* A click on a node's arrow. *)
expandToggle(n) ==
    /\ n \in Opens /\ Visible(n)
    /\ \/ /\ n \in expanded
          /\ expanded' = expanded \ {n}
          /\ UNCHANGED <<visited, made, pending>>
       \/ /\ n \notin expanded
          /\ expandNode(n, loaded, pending)
    /\ UNCHANGED <<index, loaded, addressVars, goalVars, shownVars>>

(* The icon: the panel keeps the page it shows, or follows again. *)
navSync ==
    /\ sync' = ~sync
    /\ cached' = IF sync THEN url ELSE NoLink
    /\ UNCHANGED <<url, changed, treeVars, goalVars, shownVars>>

------------------------------------------------------------------------------
(* The browser *)

(* A script has run, and its onload function with it; any of those under *)
(* way may be the next.                                                  *)
ScriptLoads(k) ==
    /\ k \in DOMAIN pending
    /\ LET done == pending[k]
           others == RemoveAt(pending, k)
       IN  \/ /\ done.kind = "index"
              /\ index' = TRUE
              /\ gotoNode(done.link, loaded, others, selected)
           \/ /\ done.kind = "show"
              /\ showNode(done.node, done.at, done.hash, crumbs,
                          Arrived(done.data), others, selected)
              /\ UNCHANGED <<index, crumbs>>
           \/ /\ done.kind = "expand"
              /\ loaded' = Arrived(done.data)
              /\ IF done.data \in expanded
                 THEN pending' = others /\ UNCHANGED <<visited, made, expanded>>
                 ELSE expandNode(done.data, loaded', others)
              /\ UNCHANGED <<index, crumbs, shownVars>>
    /\ UNCHANGED <<addressVars, goal, disturbed>>

(* A script is missing or does not arrive.  getScript asks to be told only  *)
(* of one that has run: what waits for this one never goes on, and nobody   *)
(* requests it again but a later click or navigation.                       *)
ScriptFails(k) ==
    /\ k \in DOMAIN pending
    /\ pending' = RemoveAt(pending, k)
    /\ disturbed' = (disturbed \/ pending[k].kind # "expand")
    /\ UNCHANGED <<index, loaded, visited, made, expanded, crumbs, goal,
                   addressVars, shownVars>>

AnimationEnds ==
    /\ animating
    /\ animating' = FALSE
    /\ UNCHANGED <<addressVars, treeVars, goalVars, selected>>

(* A page is opened, from the tree or otherwise: the tree starts anew, the  *)
(* icon shows what the cookie says, and the page's link, or the cookie's, is *)
(* navigated to, for which the index is requested.                          *)
OpenPage(link, kept) ==
    /\ url' = link /\ changed' = FALSE
    /\ cached' = kept /\ sync' = (kept = NoLink)
    /\ index' = FALSE /\ loaded' = Opens \ Lazy /\ visited' = {}
    /\ made' = [n \in Nodes |-> 0] /\ expanded' = {} /\ crumbs' = <<>>
    /\ goal' = (LET wanted == IF kept = NoLink THEN link ELSE kept
                IN  IF wanted.hash \in LineHashes THEN [wanted EXCEPT !.hash = NoHash]
                    ELSE wanted)
    /\ pending' = <<[kind |-> "index", link |-> goal']>>
    /\ disturbed' = FALSE /\ selected' = {} /\ animating' = FALSE

ClickLink(n) ==
    /\ Visible(n) /\ (LinkOf[n].hash = NoHash \/ LinkOf[n].page # url.page)
    /\ OpenPage(LinkOf[n], IF sync THEN cached ELSE LinkOf[n])

Init ==
    /\ url \in Links /\ changed = FALSE
    /\ cached = NoLink /\ sync = TRUE
    /\ index = FALSE /\ loaded = Opens \ Lazy /\ visited = {}
    /\ made = [n \in Nodes |-> 0] /\ expanded = {} /\ crumbs = <<>>
    /\ goal = IF url.hash \in LineHashes THEN [url EXCEPT !.hash = NoHash] ELSE url
    /\ pending = <<[kind |-> "index", link |-> goal]>>
    /\ disturbed = FALSE /\ selected = {} /\ animating = FALSE

Reader ==
    \/ \E hash \in Hashes \cup {NoHash} : FollowHash(hash)
    \/ \E n \in Nodes : ClickAnchor(n) \/ ClickLink(n) \/ expandToggle(n)
    \/ \E link \in Links : OpenPage(link, cached)
    \/ navSync

Browser ==
    \/ HashChange \/ AnimationEnds
    \/ \E k \in DOMAIN pending : ScriptLoads(k) \/ ScriptFails(k)

Next == Reader \/ Browser

(* The script requested first runs or fails, and so in its turn does every  *)
(* other: a request ends, and nothing says that its script runs.            *)
Fairness == WF_vars(ScriptFails(1) \/ ScriptLoads(1))

Spec == Init /\ [][Next]_vars /\ Fairness

------------------------------------------------------------------------------
(* Properties *)

(* The variables' ranges; the icon says what the next page of this tab will *)
(* do, through clicks, navigations and new pages: the panel follows exactly *)
(* when no link is kept.                                                    *)
TypeOK ==
    /\ url \in Links /\ cached \in Links \cup {NoLink} /\ goal \in Links
    /\ {changed, sync, index, disturbed, animating} \subseteq BOOLEAN
    /\ Opens \ Lazy \subseteq loaded /\ loaded \subseteq Opens
    /\ visited \subseteq loaded /\ expanded \subseteq visited
    /\ selected \subseteq Nodes
    /\ sync <=> cached = NoLink
    /\ made \in [Nodes -> Nat]
    /\ crumbs \in Seq(Nat \ {0})
    /\ Len(pending) <= MaxPending

(* Every child of a visited node was made exactly once, and no other node, *)
(* however many navigations and clicks waited for the same script.         *)
NodesMadeOnce ==
    \A n \in Nodes :
        made[n] = IF \E p \in visited : n \in Range(Kids[p]) THEN 1 ELSE 0

(* The node the index leads to from a link, and its fallbacks. *)
Target ==
    [link \in Links |->
        LET path == Breadcrumbs[Entry(link)]
        IN  Reached(path, Root, 1)[Len(path) + 1]]

(* When no navigation is under way, the selected nodes are those of the link *)
(* last looked for, whichever scripts had to come first and whatever was     *)
(* opened, closed or synchronised meanwhile.  Not claimed when navigations   *)
(* overlapped, nor when a script one waited for has failed.                  *)
QuietTreeFollows ==
    ~Navigating /\ ~disturbed =>
        /\ selected # {}
        /\ \A n \in selected : made[n] = 1 /\ LinkOf[n] = LinkOf[Target[goal]]

(* Once no click or navigation begins to wait, the waits there are end, though *)
(* each script that runs may ask for one more and navigations that overlap go  *)
(* on along each other's breadcrumbs: none is requested over and over.  Only a *)
(* new page, whose index has yet to come, ends a wait otherwise.               *)
LoadsEnd ==
    <>[][Len(pending') <= Len(pending)]_pending => []<>(pending = <<>> \/ ~index)
=============================================================================
