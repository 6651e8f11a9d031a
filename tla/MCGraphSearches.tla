---------------------------- MODULE MCGraphSearches ----------------------------
(* The searches of src/graph.cc, one call after the other: the two pass    *)
(* search on every simple graph of four nodes, or a search with a work     *)
(* list from node 1 to node 4 of graphs with loops, edges side by side,    *)
(* and nodes reached in two ways.  The other of the two has nothing to do. *)
EXTENDS ControlLoop, Searches

CONSTANTS r, s, k   \* two variables and a control node

LoopFree == {g \in Graph : \A n \in Node : n \notin g[n]}

\* docs/main.tex: a loop has at least two vertices.
SimpleInit == /\ succ \in LoopFree
              /\ control = {k}
              /\ from = r
              /\ to \in {r, s}
              /\ Init

\* A variable that drives nothing.
NoGraphInit == /\ succ = [n \in Node |-> {}]
               /\ control = {k} /\ from = r /\ to = r
               /\ Init

B(n) == [to |-> n, type |-> "Blocking"]
N(n) == [to |-> n, type |-> "NonBlocking"]
C(n) == [to |-> n, type |-> "Control"]
S(n) == [to |-> n, type |-> "Slice"]

Out1 == {<<>>, <<B(2)>>, <<B(3), B(2)>>, <<C(3), B(2)>>, <<N(2), B(3)>>, <<B(2), B(4)>>, <<C(4), S(2)>>,
         <<B(2), C(3), B(3)>>}
Out2 == {<<>>, <<B(3)>>, <<N(4)>>, <<B(4), N(4)>>, <<B(1), B(3)>>, <<B(3), N(4)>>, <<C(4)>>, <<B(2), B(3)>>}
Out3 == {<<>>, <<N(4)>>, <<B(4)>>, <<S(2), N(4)>>, <<C(2), B(1)>>, <<N(4), C(4)>>}
Out4 == {<<>>, <<B(1), B(2)>>}

Types2 == {"Assign", "Net"}
Types3 == {"Assign", "Control"}

Asked(searches, depths) == [search : searches, from : {1}, to : {4}, depth : depths]

Queries == Asked({"has_path"}, {0, 2, 4, 9}) \cup Asked({"has_path if"}, {0})
           \cup Asked({"find_sinks", "route"}, {0, 1, 2})
           \cup Asked({"chain"}, {0})
           \cup [search : {"chain"}, from : {1}, to : {1}, depth : {0}]

WorkListInit == /\ \E a \in Out1, b \in Out2, c \in Out3, d \in Out4 : out = <<a, b, c, d>>
                /\ \E a \in Types2, b \in Types3 : type = <<"Register", a, b, "Register">>
                /\ query \in Queries
                /\ SearchInit

\* in_direct_assign_chain from a node to itself.
NoQueryInit == /\ out = [n \in Node |-> <<>>]
               /\ type = [n \in Node |-> "Register"]
               /\ query \in [search : {"chain"}, from : {1}, to : {1}, depth : {0}]
               /\ SearchInit

MCInit == (SimpleInit /\ NoQueryInit) \/ (NoGraphInit /\ WorkListInit)

MCNext == \/ Next /\ UNCHANGED searchVars
          \/ pc = "done" /\ SearchNext /\ UNCHANGED vars

\* The searches are calls of one thread.
MCFairSpec == MCInit /\ [][MCNext]_<<vars, searchVars>> /\ WF_<<vars, searchVars>>(MCNext)
===============================================================================
