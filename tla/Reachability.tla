----------------------------- MODULE Reachability -----------------------------
(***************************************************************************)
(* Walks over a set of edges, [from, to, ...] records: the search that     *)
(* core-objects uses on relations (relations/relation-graph.ts) and on     *)
(* formula fields (fields/formula/), and the definition it is held         *)
(* against.                                                                *)
(***************************************************************************)
EXTENDS Integers, FiniteSets

\* What a breadth-first search visits from the nodes of start in n rounds.
Within(edges, start, n) ==
  LET visited[i \in 0..n] ==
        IF i = 0 THEN start
        ELSE visited[i - 1]
               \union {e.to : e \in {e \in edges : e.from \in visited[i - 1]}}
  IN  visited[n]

\* y lies on a path from x: every set that holds x and is closed under the
\* edges holds y.
Leads(edges, x, y) ==
  LET nodes == {x, y} \union {e.from : e \in edges} \union {e.to : e \in edges} IN
  \A S \in SUBSET nodes :
    x \in S /\ (\A e \in edges : e.from \in S => e.to \in S) => y \in S
===============================================================================
