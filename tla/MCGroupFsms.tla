------------------------------ MODULE MCGroupFsms ------------------------------
(* Two machines and a node between them, in every simple graph over the    *)
(* three.                                                                  *)
EXTENDS GroupFsms

CONSTANTS v, w, k

Pairs == {p \in Machines \X Machines : p[1] # p[2]}

MCInit == /\ succ \in {g \in Graph : \A n \in Node : n \notin g[n]}
          /\ Init

MCFairSpec == MCInit /\ [][Next]_vars /\ WF_vars(Caller) /\ \A t \in Worker : WF_vars(Work(t))
===============================================================================
