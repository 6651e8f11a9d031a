-------------------------------- MODULE Searches --------------------------------
(***************************************************************************)
(* The questions about paths that Graph answers with a work list: has_path *)
(* with a bound and with a condition, find_sinks, in_direct_assign_chain   *)
(* and route (src/graph.cc), and is_pipelined (src/fsm.cc:277), which asks *)
(* route.  One state machine runs one of them on one graph.                *)
(*                                                                         *)
(* They differ in what they look as if they shared: has_path pops the node *)
(* pushed last and looks at visited when it pushes, the others take the    *)
(* first node and look at visited when they take it; depth bounds a        *)
(* distance in route and find_sinks, and a number of pops in has_path.     *)
(*                                                                         *)
(* out[n] is edges_to of n, in its order.                                  *)
(***************************************************************************)
EXTENDS Integers, Sequences, FiniteSets, SequencesExt, Reachability

ASSUME NodeAssumption == IsFiniteSet(Node)

EdgeTypes == {"Blocking", "NonBlocking", "Slice", "Control"}
EdgeTo == [to : Node, type : EdgeTypes]

VARIABLES
    out,            \* edges_to of each node
    type,           \* Node::type
    query,          \* which search, from, to and depth
    stage,          \* "search", "trace", "done" or "failed"
    work,           \* the stack nodes, the queue working_set
    seen,           \* visited
    level,          \* known_depth, level_nodes: a function on the nodes met
    trace,          \* trace of route: a function on the nodes met
    found,          \* whether the target was met
    pops,           \* count of has_path
    result,         \* what find_sinks returns
    at, path        \* temp and path of route

asked == <<out, type, query>>
searchVars == <<asked, stage, work, seen, level, trace, found, pops, result, at, path>>

-------------------------------------------------------------------------------
\* std::unordered_map::emplace leaves an entry that is there as it is.
Emplaced(map, keys, v) == [k \in DOMAIN map \cup keys |-> IF k \in DOMAIN map THEN map[k] ELSE v]

\* The nodes that the edges at some places lead to, in the order of the edges.
Targets(edges, places) ==
    LET pushed[i \in 0..Len(edges)] ==
            IF i = 0 THEN <<>>
            ELSE IF i \in places THEN Append(pushed[i - 1], edges[i].to) ELSE pushed[i - 1]
    IN  pushed[Len(edges)]

\* Where the edges from m to n are.
Between(m, n) == {i \in DOMAIN out[m] : out[m][i].to = n}

FirstEdge(m, n) == out[m][CHOOSE i \in Between(m, n) : \A j \in Between(m, n) : i <= j]

\* Over edges_from of n, each edge by its origin and its place there.
NumDirectAssign(n) ==
    Cardinality({e \in UNION {{m} \X Between(m, n) : m \in Node} :
                     out[e[1]][e[2]].type \in {"Blocking", "NonBlocking"}})

-------------------------------------------------------------------------------
(* Slips that are easy to make in this code, kept to show that the         *)
(* properties below notice them.                                           *)
OnlyData(e) == e.type # "Control"
OneLess(n) == query.depth > 0 /\ level[n] >= query.depth
PeekOnly == work
FollowAll(n) == Targets(out[n], DOMAIN out[n] \ Between(n, query.to))
SkipsLast == \E i \in 1..(Len(path) - 2) :
                 path[i + 1] = query.to /\ FirstEdge(path[i], path[i + 1]).type = "NonBlocking"
-------------------------------------------------------------------------------
(* What the searches follow.                                               *)

NotControl(e) == e.type # "Control"

\* The predicate of is_pipelined: "only for fan out one".
Allowed(e) == e.type # "Control" /\ type[e.to] \notin {"Control", "Net"}

\* "just to make sure that this is the only assignment we have"
OnlyAssignment(m) == type[m] = "Assign" /\ NumDirectAssign(m) = 1

Bounded == query.search = "has_path"
Stacked == {"has_path", "has_path if"}
Queued == {"find_sinks", "chain", "route"}

\* in_direct_assign_chain looks first whether its two nodes are one.
SearchInit == /\ out \in [Node -> Seq(EdgeTo)]
              /\ type \in [Node -> {"Assign", "Control", "Net", "Register"}]
              /\ query \in [search : Stacked \cup Queued, from : Node, to : Node, depth : Nat]
              /\ found = (query.search = "chain" /\ query.from = query.to)
              /\ stage = IF found THEN "done" ELSE "search"
              /\ work = <<query.from>>
              /\ seen = {}
              /\ level = [n \in {query.from} |-> 0]
              /\ trace = <<>>
              /\ pops = 0
              /\ result = <<>>
              /\ at = query.to
              /\ path = <<>>

Searching(searches) == stage = "search" /\ query.search \in searches /\ ~found

Visit(n) == seen \cup {n}

-------------------------------------------------------------------------------
(* has_path: a stack.                                                      *)

WithinBound == ~Bounded \/ pops < query.depth

Follows(e) == Bounded \/ NotControl(e)

\* The visited node itself is marked after its successors were pushed.
Unvisited(n) ==
    Targets(out[n], {i \in DOMAIN out[n] : out[n][i].to \notin seen /\ Follows(out[n][i])})

PopLast == /\ Searching(Stacked)
           /\ work # <<>>
           /\ WithinBound
           /\ pops' = pops + 1
           /\ IF Last(work) = query.to
              THEN /\ found' = TRUE
                   /\ work' = Front(work)
                   /\ UNCHANGED seen
              ELSE /\ work' = Front(work) \o Unvisited(Last(work))
                   /\ seen' = Visit(Last(work))
                   /\ UNCHANGED found
           /\ UNCHANGED <<asked, stage, level, trace, result, at, path>>

-------------------------------------------------------------------------------
(* find_sinks, in_direct_assign_chain and route: a queue.                  *)

First == Head(work)

TooDeep(n) == query.depth > 0 /\ level[n] > query.depth

Dequeue(searches) == Searching(searches) /\ work # <<>>

Rest == Tail(work)

PassVisited == /\ Dequeue(Queued)
               /\ First \in seen
               /\ work' = Rest
               /\ UNCHANGED <<asked, stage, seen, level, trace, found, pops, result, at, path>>

PassDeep == /\ Dequeue({"find_sinks", "route"})
            /\ First \notin seen
            /\ TooDeep(First)
            /\ work' = Rest
            /\ seen' = Visit(First)
            /\ UNCHANGED <<asked, stage, level, trace, found, pops, result, at, path>>

Sinks(n) == Targets(out[n], {i \in DOMAIN out[n] : NotControl(out[n][i])})

ExpandSinks == /\ Dequeue({"find_sinks"})
               /\ First \notin seen /\ ~TooDeep(First)
               /\ seen' = Visit(First)
               /\ level' = Emplaced(level, ToSet(Sinks(First)), level[First] + 1)
               /\ work' = Rest \o Sinks(First)
               /\ result' = Append(result, First)
               /\ UNCHANGED <<asked, stage, trace, found, pops, at, path>>

ChainedTo(n) ==
    Targets(out[n], {i \in DOMAIN out[n] : NotControl(out[n][i]) /\ OnlyAssignment(out[n][i].to)})

ExpandChain == /\ Dequeue({"chain"})
               /\ First \notin seen
               /\ seen' = Visit(First)
               /\ found' = (query.to \in ToSet(Sinks(First)))
               /\ work' = Rest \o ChainedTo(First)
               /\ UNCHANGED <<asked, stage, level, trace, pops, result, at, path>>

\* The edges up to the first one that meets the target, where the loop breaks.
Looked(n) == {i \in DOMAIN out[n] : \A j \in Between(n, query.to) : i <= j}

\* A node is remembered in trace before the predicate is asked.
Traced(n) == Emplaced(trace, {out[n][i].to : i \in Looked(n)}, n)

Followed(n) ==
    Targets(out[n], {i \in Looked(n) : out[n][i].to # query.to /\ Allowed(out[n][i])})

ExpandRoute == /\ Dequeue({"route"})
               /\ First \notin seen /\ ~TooDeep(First)
               /\ seen' = Visit(First)
               /\ trace' = Traced(First)
               /\ found' = (Between(First, query.to) # {})
               /\ work' = Rest \o Followed(First)
               /\ level' = Emplaced(level, ToSet(Followed(First)), level[First] + 1)
               /\ UNCHANGED <<asked, stage, pops, result, at, path>>

-------------------------------------------------------------------------------
LoopEnds == /\ stage = "search"
            /\ found \/ work = <<>> \/ ~WithinBound
            /\ stage' = IF query.search = "route" /\ query.to \in DOMAIN trace
                        THEN "trace" ELSE "done"
            /\ UNCHANGED <<asked, work, seen, level, trace, found, pops, result, at, path>>

\* route goes back from the target; the path leaves out the node it came from.
TraceBack == /\ stage = "trace"
             /\ at # query.from /\ at \in DOMAIN trace
             /\ path' = <<at>> \o path
             /\ at' = trace[at]
             /\ UNCHANGED <<asked, stage, work, seen, level, trace, found, pops, result>>

\* assert_(temp == from, "unable to compute trace")
TraceEnds == /\ stage = "trace"
             /\ at = query.from \/ at \notin DOMAIN trace
             /\ stage' = IF at = query.from THEN "done" ELSE "failed"
             /\ UNCHANGED <<asked, work, seen, level, trace, found, pops, result, at, path>>

SearchNext == \/ PopLast \/ PassVisited \/ PassDeep \/ ExpandSinks \/ ExpandChain \/ ExpandRoute
        \/ LoopEnds \/ TraceBack \/ TraceEnds

SearchSpec == SearchInit /\ [][SearchNext]_searchVars

\* The searches are calls of one thread.
FairSearch == SearchSpec /\ WF_searchVars(SearchNext)

\* is_pipelined: an edge on the path that is not blocking, into the target.
IsPipelined == \E i \in 1..(Len(path) - 1) :
                   path[i + 1] = query.to /\ FirstEdge(path[i], path[i + 1]).type = "NonBlocking"

-------------------------------------------------------------------------------
\* The graph of some of the edges.
Along(edges) == [n \in Node |-> {e.to : e \in ToSet(out[n]) \cap edges}]

DataEdges == {e \in EdgeTo : NotControl(e)}

\* Where the searches come to, and where they come to with d edges at most.
Reached(graph) == ReachableFrom(graph, {query.from})

Near(graph) ==
    LET near[d \in Nat] ==
            IF d = 0 THEN {query.from} ELSE near[d - 1] \cup UNION {graph[n] : n \in near[d - 1]}
    IN  near

InDepth(graph) == IF query.depth = 0 THEN Reached(graph) ELSE Near(graph)[query.depth]

Done(search) == stage = "done" /\ query.search = search

NumEdges == Cardinality(UNION {{n} \X DOMAIN out[n] : n \in Node})

NoSelfLoop == \A n \in Node : Between(n, n) = {}

\* has_path never finds a path that is not there, and misses none when max_depth is
\* more than the number of edges, although what it counts are pops.
HasPathExact ==
    /\ Done("has_path") => /\ found => query.to \in Reached(Along(EdgeTo))
                           /\ NoSelfLoop /\ query.depth > NumEdges =>
                                 found = (query.to \in Reached(Along(EdgeTo)))
    /\ Done("has_path if") => found = (query.to \in Reached(Along(DataEdges)))

\* in_direct_assign_chain finds a walk of which every inner node is an assignment and has
\* no other driver, of however many, and no other walk.
ChainExact ==
    Done("chain") =>
        LET inner == Reached(Along({e \in DataEdges : /\ type[e.to] = "Assign"
                                                       /\ NumDirectAssign(e.to) = 1}))
        IN  found = \/ query.from = query.to
                    \/ \E n \in inner : query.to \in Along(DataEdges)[n]

\* The three searches that only say yes or no say what is so.
AnswersExact == HasPathExact /\ ChainExact

\* find_sinks returns every node within the depth once, and none before one that is
\* nearer: the first event among them is one nearest to the reset pin.  (No node is
\* farther than there are nodes.)
SinksNearestFirst ==
    Done("find_sinks") =>
        LET near == Near(Along(DataEdges))
        IN  /\ ToSet(result) = InDepth(Along(DataEdges))
            /\ \A i, j \in DOMAIN result : i < j =>
                  /\ result[i] # result[j]
                  /\ \A d \in 0..Cardinality(Node) : result[j] \in near[d] => result[i] \in near[d]

\* Where route may stand when it looks for the target among the successors.
Routed == InDepth(Along({e \in EdgeTo : Allowed(e) /\ e.to # query.to}))

\* route returns a path when there is one within the depth, and only then.  Its path
\* may have an edge that the predicate refuses, since trace is filled first, but it is a
\* walk of the graph, and the predicate lets every node before the target be reached;
\* the trace always leads back ("unable to compute trace").
RouteExact ==
    /\ stage # "failed"
    /\ Done("route") /\ query.from # query.to =>
          /\ (path # <<>>) = \E n \in Routed : Between(n, query.to) # {}
          /\ \A i \in 1..Len(path) :
                LET before == IF i = 1 THEN query.from ELSE path[i - 1]
                IN  Between(before, path[i]) # {} /\ before \in Routed

\* What is_pipelined says is so: some node behind the first one is copied into the
\* second with a non-blocking assignment.  It says so of every chain into a node that
\* has no other kind of driver.
PipelinedExact ==
    Done("route") /\ query.from # query.to =>
        LET last == {n \in Routed : Between(n, query.to) # {}}
            Clocked(n) == {i \in Between(n, query.to) : out[n][i].type = "NonBlocking"}
        IN  /\ IsPipelined => \E n \in last \ {query.from} : Clocked(n) # {}
            /\ (/\ last # {} /\ query.from \notin last
                /\ \A n \in last : Clocked(n) = Between(n, query.to)) => IsPipelined

\* Every search ends, on every graph, and the trace of route leads back to where it
\* began, whatever loops there are on the way.
Ends == <>(stage = "done")
===============================================================================
