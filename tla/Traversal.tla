----------------------------- MODULE Traversal ------------------------------
(***************************************************************************)
(* The two graph routines every resolver of ordering.rs uses: the depth-   *)
(* first search for a cycle and the topological order that takes the first *)
(* free entry.  Entries are the positions of the requested sequence; an    *)
(* edge leads from an entry to one that must load after it.                *)
(***************************************************************************)
EXTENDS Integers, Sequences, FiniteSets

VARIABLES
  phase,      \* "idle", "walk", "cycle", "acyclic", "sort", "sorted"
  edges,      \* edges[i]: the entries that must load after i
  mark,       \* states of the search: "new", "open" (on the path), "done"
  path,       \* the entries being visited, outermost first
  left,       \* for each of them the successors not looked at yet
  cycle,      \* the cycle found, its first entry repeated at the end
  incoming,   \* how many entries must still load before an entry
  ready,      \* entries that wait for none
  effective   \* the order so far

searching == <<mark, path, left, cycle>>
sorting == <<incoming, ready, effective>>
traversal == <<phase, edges, searching, sorting>>

Graphs(n) == [1..n -> SUBSET (1..n)]
NoEntries == [i \in 1..0 |-> 0]
Entries == DOMAIN edges
Elements(s) == {s[i] : i \in DOMAIN s}

\* Mutant of IsFirst: the last of the entries is taken.
IsLast(i, S) == i \in S /\ \A j \in S : i >= j

IsFirst(i, S) == i \in S /\ \A j \in S : i <= j

Before(i) == {j \in Entries : i \in edges[j]}

Fresh == {i \in Entries : mark[i] = "new"}
Top == Len(path)

-----------------------------------------------------------------------------
Start(graph) ==
  /\ phase' = "walk"
  /\ edges' = graph
  /\ mark' = [i \in DOMAIN graph |-> "new"]
  /\ path' = << >>
  /\ left' = << >>
  /\ cycle' = << >>
  /\ incoming' = [i \in DOMAIN graph |-> 0]
  /\ ready' = {}
  /\ effective' = << >>

\* visit of the first entry no visit has reached yet.
Root ==
  /\ phase = "walk"
  /\ path = << >>
  /\ \E i \in Entries :
       /\ IsFirst(i, Fresh)
       /\ mark' = [mark EXCEPT ![i] = "open"]
       /\ path' = <<i>>
       /\ left' = <<edges[i]>>
  /\ UNCHANGED <<phase, edges, cycle, sorting>>

Looked(j) == [left EXCEPT ![Top] = @ \ {j}]

Descend(j) ==
  /\ mark[j] = "new"
  /\ mark' = [mark EXCEPT ![j] = "open"]
  /\ path' = Append(path, j)
  /\ left' = Append(Looked(j), edges[j])
  /\ UNCHANGED <<phase, cycle>>

Pass(j) ==
  /\ mark[j] = "done"
  /\ left' = Looked(j)
  /\ UNCHANGED <<phase, mark, path, cycle>>

\* Mutant of CloseCycle: the whole path is reported, and what leads to the cycle with it.
CloseWholePath(j) ==
  /\ mark[j] = "open"
  /\ cycle' = Append(path, j)
  /\ phase' = "cycle"
  /\ UNCHANGED <<mark, path, left>>

CloseCycle(j) ==
  /\ mark[j] = "open"
  /\ \E k \in DOMAIN path :
       /\ path[k] = j
       /\ cycle' = Append(SubSeq(path, k, Top), j)
  /\ phase' = "cycle"
  /\ UNCHANGED <<mark, path, left>>

\* The next successor of the innermost visit.
Visit ==
  /\ phase = "walk"
  /\ path # << >>
  /\ \E j \in Entries : IsFirst(j, left[Top]) /\ (Descend(j) \/ Pass(j) \/ CloseCycle(j))
  /\ UNCHANGED <<edges, sorting>>

Leave ==
  /\ phase = "walk"
  /\ path # << >>
  /\ left[Top] = {}
  /\ mark' = [mark EXCEPT ![path[Top]] = "done"]
  /\ path' = SubSeq(path, 1, Top - 1)
  /\ left' = SubSeq(left, 1, Top - 1)
  /\ UNCHANGED <<phase, edges, cycle, sorting>>

NoCycle ==
  /\ phase = "walk"
  /\ path = << >>
  /\ Fresh = {}
  /\ phase' = "acyclic"
  /\ UNCHANGED <<edges, searching, sorting>>

BeginSort ==
  /\ phase = "acyclic"
  /\ phase' = "sort"
  /\ incoming' = [i \in Entries |-> Cardinality(Before(i))]
  /\ ready' = {i \in Entries : Before(i) = {}}
  /\ UNCHANGED <<edges, searching, effective>>

Lowered(i) == [j \in Entries |-> incoming[j] - (IF j \in edges[i] THEN 1 ELSE 0)]

Take ==
  /\ phase = "sort"
  /\ \E i \in Entries :
       /\ IsFirst(i, ready)
       /\ effective' = Append(effective, i)
       /\ incoming' = Lowered(i)
       /\ ready' = (ready \ {i}) \cup {j \in edges[i] : Lowered(i)[j] = 0}
  /\ UNCHANGED <<phase, edges, searching>>

Sorted ==
  /\ phase = "sort"
  /\ ready = {}
  /\ phase' = "sorted"
  /\ UNCHANGED <<edges, searching, sorting>>

Traverse == Root \/ Visit \/ Leave \/ NoCycle \/ BeginSort \/ Take \/ Sorted

TraversalInit ==
  /\ phase = "idle"
  /\ edges = NoEntries
  /\ mark = NoEntries
  /\ path = << >>
  /\ left = << >>
  /\ cycle = << >>
  /\ incoming = NoEntries
  /\ ready = {}
  /\ effective = << >>

\* Any graph may be given after any other.
Traversals ==
  TraversalInit /\ [][Traverse \/ \E n \in Nat : \E g \in Graphs(n) : Start(g)]_traversal

-----------------------------------------------------------------------------
\* The types of the traversal (ordering.rs:148, 173).
TraversalTypeOK ==
  /\ phase \in {"idle", "walk", "cycle", "acyclic", "sort", "sorted"}
  /\ edges \in Graphs(Cardinality(Entries))
  /\ mark \in [Entries -> {"new", "open", "done"}]
  /\ path \in Seq(Entries)
  /\ left \in Seq(SUBSET Entries) /\ Len(left) = Len(path)
  /\ cycle \in Seq(Entries)
  /\ incoming \in [Entries -> Nat]
  /\ ready \subseteq Entries
  /\ effective \in Seq(Entries)

\* A reported cycle is one: each of its entries must load before the next and it ends where
\* it began (ordering.rs:183-187; the message lists these mods in this order).
CycleIsReal ==
  phase = "cycle" =>
    /\ Len(cycle) > 1
    /\ cycle[1] = cycle[Len(cycle)]
    /\ \A k \in 1..(Len(cycle) - 1) : cycle[k + 1] \in edges[cycle[k]]

\* Whatever loads before an entry was placed before it, and nothing is placed twice, at every
\* moment of the sort (ordering.rs:161-169).
OrderRespectsEdges ==
  /\ \A k, m \in DOMAIN effective : k # m => effective[k] # effective[m]
  /\ \A m \in DOMAIN effective : \A i \in Before(effective[m]) :
       \E k \in 1..(m - 1) : effective[k] = i
=============================================================================
