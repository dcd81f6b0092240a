-------------------------- MODULE ActivationProofs --------------------------
(***************************************************************************)
(* From the graph to the running game. Part one: for every graph the       *)
(* search and the topological order of ordering.rs are right: a reported   *)
(* cycle is one, the order respects the edges, leaves no entry out and     *)
(* takes the smallest free one each time. Part two: what the three         *)
(* resolutions of a selection make of it: the order is the best that keeps *)
(* every declaration, a refusal has a cause, the parts resolve to the      *)
(* order of the whole. Part three: the session that runs the document      *)
(* starts and ends every mod with what it requires.                        *)
(***************************************************************************)
EXTENDS Activation, TLAPS, FiniteSetTheorems, SequenceTheorems, WellFoundedInduction

(***************************************************************************)
(* The traversal: types, the path, and the counters. The path is a chain   *)
(* of edges, so a cycle closed on it is one; incoming is the number of     *)
(* predecessors not placed yet, so an entry is free only when all of them  *)
(* are placed.                                                             *)
(***************************************************************************)
Shape == \E n \in Nat : edges \in Graphs(n)

Searched ==
  /\ phase \in {"idle", "walk", "cycle", "acyclic", "sort", "sorted"}
  /\ mark \in [Entries -> {"new", "open", "done"}]
  /\ path \in Seq(Entries)
  /\ left \in Seq(SUBSET Entries)
  /\ Len(left) = Len(path)
  /\ cycle \in Seq(Entries)

\* The path follows edges, and what is left of an entry are successors of it.
Chain ==
  /\ \A k \in 1..(Len(path) - 1) : path[k + 1] \in edges[path[k]]
  /\ \A k \in 1..Len(path) : left[k] \subseteq edges[path[k]]

Placed == Elements(effective)
Waiting(i) == Before(i) \ Placed

\* The counters, and what they mean.
Counted ==
  /\ incoming \in [Entries -> Nat]
  /\ ready \subseteq Entries
  /\ effective \in Seq(Entries)
  /\ phase \in {"sort", "sorted"} =>
       /\ \A i \in Entries : incoming[i] = Cardinality(Waiting(i))
       /\ \A i \in ready : i \notin Placed /\ incoming[i] = 0
  /\ phase \notin {"sort", "sorted"} => effective = << >>

IInv == Shape /\ Searched /\ Chain /\ CycleIsReal /\ Counted /\ OrderRespectsEdges

(***************************************************************************)
(* The predecessors of an entry are finitely many.                         *)
(***************************************************************************)
LEMMA FiniteBefore ==
  ASSUME Shape
  PROVE  /\ IsFiniteSet(Entries)
         /\ \A i : IsFiniteSet(Before(i)) /\ IsFiniteSet(Waiting(i))
<1>1. PICK n \in Nat : edges \in Graphs(n)
  BY DEF Shape
<1>2. Entries = 1..n
  BY <1>1 DEF Graphs, Entries
<1>3. IsFiniteSet(Entries)
  BY <1>2, FS_Interval
<1>4. ASSUME NEW i PROVE IsFiniteSet(Before(i)) /\ IsFiniteSet(Waiting(i))
  <2>1. Before(i) \subseteq Entries /\ Waiting(i) \subseteq Entries
    BY DEF Before, Waiting
  <2> QED
    BY <1>3, <2>1, FS_Subset
<1> QED
  BY <1>3, <1>4

LEMMA EdgesAreEntries ==
  ASSUME Shape, NEW i \in Entries
  PROVE  edges[i] \subseteq Entries
<1>1. PICK n \in Nat : edges \in Graphs(n)
  BY DEF Shape
<1> QED
  BY <1>1 DEF Graphs, Entries

(***************************************************************************)
(* The search.                                                             *)
(***************************************************************************)
LEMMA PathGrows ==
  ASSUME IInv, phase = "walk", path # << >>, NEW j \in Entries, IsFirst(j, left[Top]),
         Descend(j), UNCHANGED <<edges, sorting>>
  PROVE  Searched' /\ Chain'
<1> USE DEF Top
<1>1. /\ path \in Seq(Entries) /\ left \in Seq(SUBSET Entries) /\ Len(left) = Len(path)
      /\ Len(path) \in Nat /\ Len(path) > 0
  BY DEF IInv, Searched
<1>2. j \in left[Len(path)] /\ edges[j] \subseteq Entries
  BY EdgesAreEntries DEF IsFirst, IInv
<1>3. /\ Looked(j) \in Seq(SUBSET Entries) /\ Len(Looked(j)) = Len(path)
      /\ \A k \in 1..Len(path) : Looked(j)[k] \subseteq left[k]
  BY <1>1 DEF Looked
<1>4. /\ path' = Append(path, j) /\ path' \in Seq(Entries) /\ Len(path') = Len(path) + 1
      /\ \A k \in 1..Len(path) : path'[k] = path[k]
      /\ path'[Len(path) + 1] = j
  BY <1>1 DEF Descend
<1>5. /\ left' \in Seq(SUBSET Entries) /\ Len(left') = Len(path) + 1
      /\ \A k \in 1..Len(path) : left'[k] = Looked(j)[k]
      /\ left'[Len(path) + 1] = edges[j]
  BY <1>1, <1>2, <1>3 DEF Descend
<1>6. edges' = edges /\ Entries' = Entries
  BY DEF Entries
<1>7. Searched'
  BY <1>1, <1>4, <1>5, <1>6 DEF IInv, Searched, Descend
<1>8. ASSUME NEW k \in 1..(Len(path') - 1) PROVE path'[k + 1] \in edges[path'[k]]
  <2>1. CASE k = Len(path)
    BY <1>1, <1>2, <1>4, <2>1 DEF IInv, Chain
  <2>2. CASE k # Len(path)
    BY <1>1, <1>4, <2>2 DEF IInv, Chain
  <2> QED
    BY <2>1, <2>2
<1>9. ASSUME NEW k \in 1..Len(path') PROVE left'[k] \subseteq edges[path'[k]]
  <2>1. CASE k = Len(path) + 1
    BY <1>4, <1>5, <2>1
  <2>2. CASE k # Len(path) + 1
    BY <1>1, <1>3, <1>4, <1>5, <2>2 DEF IInv, Chain
  <2> QED
    BY <2>1, <2>2
<1> QED
  BY <1>6, <1>7, <1>8, <1>9 DEF Chain

LEMMA CycleCloses ==
  ASSUME IInv, phase = "walk", path # << >>, NEW j \in Entries, IsFirst(j, left[Top]),
         CloseCycle(j), UNCHANGED <<edges, sorting>>
  PROVE  cycle' \in Seq(Entries) /\ CycleIsReal'
<1> USE DEF Top
<1>1. /\ path \in Seq(Entries) /\ Len(path) \in Nat /\ Len(path) > 0 /\ DOMAIN path = 1..Len(path)
  BY DEF IInv, Searched
<1>2. j \in left[Len(path)] /\ left[Len(path)] \subseteq edges[path[Len(path)]]
  BY <1>1 DEF IsFirst, IInv, Chain
<1>3. PICK k \in 1..Len(path) : path[k] = j /\ cycle' = Append(SubSeq(path, k, Len(path)), j)
  BY <1>1 DEF CloseCycle
<1> DEFINE tail == SubSeq(path, k, Len(path))
           size == Len(path) - k + 1
<1>4. /\ tail \in Seq(Entries) /\ Len(tail) = size /\ size \in Nat /\ size > 0
      /\ \A m \in 1..size : tail[m] = path[k + m - 1]
  BY <1>1, <1>3
<1> HIDE DEF tail
<1>5. /\ cycle' = Append(tail, j) /\ cycle' \in Seq(Entries) /\ Len(cycle') = size + 1
      /\ \A m \in 1..size : cycle'[m] = tail[m]
      /\ cycle'[size + 1] = j
  BY <1>3, <1>4 DEF tail
<1>6. cycle'[1] = j
  BY <1>3, <1>4, <1>5
<1>7. ASSUME NEW m \in 1..(Len(cycle') - 1) PROVE cycle'[m + 1] \in edges[cycle'[m]]
  <2>1. m \in 1..size /\ cycle'[m] = path[k + m - 1] /\ k + m - 1 \in 1..Len(path)
    BY <1>3, <1>4, <1>5
  <2>2. CASE m = size
    BY <1>1, <1>2, <1>5, <2>1, <2>2, <1>3
  <2>3. CASE m # size
    <3>5. m + 1 \in 1..size
      <4>1. m \in Nat /\ m >= 1 /\ m <= size /\ m # size /\ size \in Nat
        BY <1>4, <2>1, <2>3
      <4> HIDE DEF size
      <4> QED
        BY <4>1
    <3>1. cycle'[m + 1] = tail[m + 1]
      BY <1>5, <3>5
    <3>4. tail[m + 1] = path[k + m]
      <4>1. tail[m + 1] = path[k + (m + 1) - 1]
        BY <1>4, <3>5
      <4>2. k + (m + 1) - 1 = k + m
        BY <1>3, <2>1
      <4> QED
        BY <4>1, <4>2
    <3>2. k + m - 1 \in 1..(Len(path) - 1)
      BY <1>1, <1>3, <2>1, <2>3
    <3>3. path[(k + m - 1) + 1] \in edges[path[k + m - 1]]
      BY <3>2 DEF IInv, Chain
    <3> QED
      <4>1. (k + m - 1) + 1 = k + m
        BY <1>3, <2>1
      <4> QED
        BY <2>1, <3>1, <3>3, <3>4, <4>1
  <2> QED
    BY <2>2, <2>3
<1> QED
  BY <1>4, <1>5, <1>6, <1>7 DEF CycleIsReal

\* A step of the search leaves the sort as it was.
LEMMA SearchKeepsSort ==
  ASSUME IInv, UNCHANGED <<edges, sorting>>, phase \notin {"sort", "sorted"},
         phase' \notin {"sort", "sorted"}
  PROVE  Shape' /\ Counted' /\ OrderRespectsEdges'
BY DEF IInv, Shape, Counted, OrderRespectsEdges, Entries, Before, Elements, Graphs, sorting

LEMMA SearchStep ==
  ASSUME IInv, Root \/ Visit \/ Leave \/ NoCycle
  PROVE  IInv'
<1>1. CASE Root
  <2>1. PICK i \in Entries : mark' = [mark EXCEPT ![i] = "open"] /\ path' = <<i>> /\ left' = <<edges[i]>>
    BY <1>1 DEF Root
  <2>2. edges[i] \subseteq Entries
    BY EdgesAreEntries DEF IInv
  <2>3. Shape' /\ Counted' /\ OrderRespectsEdges'
    BY <1>1, SearchKeepsSort DEF Root
  <2>4. Searched' /\ Chain'
    BY <1>1, <2>1, <2>2 DEF Root, IInv, Searched, Chain, Entries
  <2>5. CycleIsReal'
    BY <1>1 DEF Root, CycleIsReal
  <2> QED
    BY <2>3, <2>4, <2>5 DEF IInv
<1>2. CASE Visit
  <2>1. PICK j \in Entries : IsFirst(j, left[Top]) /\ (Descend(j) \/ Pass(j) \/ CloseCycle(j))
    BY <1>2 DEF Visit
  <2>2. phase = "walk" /\ path # << >> /\ UNCHANGED <<edges, sorting>> /\ Entries' = Entries
    BY <1>2 DEF Visit, Entries
  <2>3. phase' \in {"walk", "cycle"}
    BY <2>1, <2>2 DEF Descend, Pass, CloseCycle
  <2>4. Shape' /\ Counted' /\ OrderRespectsEdges'
    BY <2>2, <2>3, SearchKeepsSort
  <2>5. CASE Descend(j)
    <3>1. Searched' /\ Chain'
      BY <2>1, <2>2, <2>5, PathGrows
    <3>2. CycleIsReal'
      BY <2>2, <2>5 DEF Descend, CycleIsReal
    <3> QED
      BY <2>4, <3>1, <3>2 DEF IInv
  <2>6. CASE Pass(j)
    <3>1. /\ path \in Seq(Entries) /\ left \in Seq(SUBSET Entries) /\ Len(left) = Len(path)
          /\ Len(path) \in Nat
      BY DEF IInv, Searched
    <3>2. /\ left' \in Seq(SUBSET Entries) /\ Len(left') = Len(left)
          /\ \A k \in 1..Len(left) : left'[k] \subseteq left[k]
      <4>1. left' = [left EXCEPT ![Len(path)] = left[Len(path)] \ {j}]
        BY <2>6 DEF Pass, Looked, Top
      <4> QED
        BY <2>2, <3>1, <4>1
    <3>3. Searched'
      BY <2>2, <2>6, <3>1, <3>2 DEF Pass, IInv, Searched
    <3>5. Chain'
      <4>1. path' = path /\ edges' = edges
        BY <2>2, <2>6 DEF Pass
      <4> QED
        BY <3>1, <3>2, <4>1 DEF IInv, Chain
    <3>4. CycleIsReal'
      BY <2>2, <2>6 DEF Pass, CycleIsReal
    <3> QED
      BY <2>4, <3>3, <3>4, <3>5 DEF IInv
  <2>7. CASE CloseCycle(j)
    <3>1. cycle' \in Seq(Entries) /\ CycleIsReal'
      BY <2>1, <2>2, <2>7, CycleCloses
    <3>2. Searched' /\ Chain'
      BY <2>2, <2>7, <3>1 DEF CloseCycle, IInv, Searched, Chain
    <3> QED
      BY <2>4, <3>1, <3>2 DEF IInv
  <2> QED
    BY <2>1, <2>5, <2>6, <2>7
<1>3. CASE Leave
  <2>1. /\ path \in Seq(Entries) /\ left \in Seq(SUBSET Entries) /\ Len(left) = Len(path)
        /\ Len(path) \in Nat /\ Len(path) > 0
    BY <1>3 DEF IInv, Searched, Leave
  <2>2. /\ path' \in Seq(Entries) /\ Len(path') = Len(path) - 1
        /\ \A k \in 1..(Len(path) - 1) : path'[k] = path[k]
    BY <1>3, <2>1 DEF Leave, Top
  <2>3. /\ left' \in Seq(SUBSET Entries) /\ Len(left') = Len(path) - 1
        /\ \A k \in 1..(Len(path) - 1) : left'[k] = left[k]
    BY <1>3, <2>1 DEF Leave, Top
  <2>4. Shape' /\ Counted' /\ OrderRespectsEdges'
    BY <1>3, SearchKeepsSort DEF Leave
  <2>5. edges' = edges /\ Entries' = Entries
    BY <1>3 DEF Leave, Entries
  <2>6. Searched'
    BY <1>3, <2>1, <2>2, <2>3, <2>5 DEF Leave, IInv, Searched
  <2>7. Chain'
    <3>1. ASSUME NEW k \in 1..(Len(path') - 1) PROVE path'[k + 1] \in edges'[path'[k]]
      <4>1. k \in 1..(Len(path) - 1) /\ path'[k] = path[k] /\ path'[k + 1] = path[k + 1]
        BY <2>1, <2>2
      <4> QED
        BY <2>5, <4>1 DEF IInv, Chain
    <3>2. ASSUME NEW k \in 1..Len(path') PROVE left'[k] \subseteq edges'[path'[k]]
      <4>1. k \in 1..Len(path) /\ path'[k] = path[k] /\ left'[k] = left[k]
        BY <2>1, <2>2, <2>3
      <4> QED
        BY <2>5, <4>1 DEF IInv, Chain
    <3> QED
      BY <3>1, <3>2 DEF Chain
  <2>8. CycleIsReal'
    BY <1>3 DEF Leave, CycleIsReal
  <2> QED
    BY <2>4, <2>6, <2>7, <2>8 DEF IInv
<1>4. CASE NoCycle
  <2>1. Shape' /\ Counted' /\ OrderRespectsEdges'
    BY <1>4, SearchKeepsSort DEF NoCycle
  <2>2. Searched' /\ Chain' /\ CycleIsReal'
    BY <1>4 DEF NoCycle, IInv, Searched, Chain, CycleIsReal, Entries, searching
  <2> QED
    BY <2>1, <2>2 DEF IInv
<1> QED
  BY <1>1, <1>2, <1>3, <1>4

(***************************************************************************)
(* The sort.                                                               *)
(***************************************************************************)
\* A step of the sort leaves the search as it was.
LEMMA SortKeepsSearch ==
  ASSUME IInv, UNCHANGED <<edges, searching>>, phase' \in {"sort", "sorted"}
  PROVE  Shape' /\ Searched' /\ Chain' /\ CycleIsReal'
BY DEF IInv, Shape, Searched, Chain, CycleIsReal, Entries, Graphs, searching

LEMMA SortBegins ==
  ASSUME IInv, BeginSort
  PROVE  IInv'
<1>1. Shape' /\ Searched' /\ Chain' /\ CycleIsReal'
  BY SortKeepsSearch DEF BeginSort
<1>2. effective = << >> /\ effective' = << >> /\ Placed' = {}
  BY DEF IInv, Counted, BeginSort, Placed, Elements
<1>3. Entries' = Entries /\ \A i : Before(i)' = Before(i) /\ Waiting(i)' = Before(i)
  BY <1>2 DEF BeginSort, Entries, Before, Waiting
<1>4. \A i \in Entries : IsFiniteSet(Before(i)) /\ Cardinality(Before(i)) \in Nat
  BY FiniteBefore, FS_CardinalityType DEF IInv
<1>5. \A i \in ready' : i \in Entries /\ incoming'[i] = 0
  BY FS_EmptySet DEF BeginSort
<1>6. /\ incoming' = [i \in Entries |-> Cardinality(Before(i))]
      /\ ready' \subseteq Entries /\ phase' = "sort"
  BY DEF BeginSort
<1>7. Counted'
  BY <1>2, <1>3, <1>4, <1>5, <1>6 DEF Counted
<1>8. OrderRespectsEdges'
  BY <1>2 DEF OrderRespectsEdges
<1> QED
  BY <1>1, <1>7, <1>8 DEF IInv

\* An entry that waits for none has all its predecessors placed.
LEMMA FreeEntry ==
  ASSUME IInv, phase = "sort", NEW i \in ready
  PROVE  i \in Entries /\ i \notin Placed /\ Waiting(i) = {}
<1>1. i \in Entries /\ i \notin Placed /\ Cardinality(Waiting(i)) = 0
  BY DEF IInv, Counted
<1>2. IsFiniteSet(Waiting(i))
  BY FiniteBefore DEF IInv
<1> QED
  BY <1>1, <1>2, FS_EmptySet

LEMMA EntryTaken ==
  ASSUME IInv, Take
  PROVE  IInv'
<1>1. PICK i \in Entries :
        /\ i \in ready
        /\ effective' = Append(effective, i)
        /\ incoming' = Lowered(i)
        /\ ready' = (ready \ {i}) \cup {j \in edges[i] : Lowered(i)[j] = 0}
  BY DEF Take, IsFirst
<1>2. i \notin Placed /\ Waiting(i) = {} /\ Before(i) \subseteq Placed
  BY <1>1, FreeEntry DEF Take, Waiting
<1>3. /\ phase = "sort" /\ phase' = "sort" /\ edges' = edges /\ Entries' = Entries
      /\ \A j : Before(j)' = Before(j)
  BY DEF Take, Entries, Before
<1>4. Shape' /\ Searched' /\ Chain' /\ CycleIsReal'
  BY <1>3, SortKeepsSearch DEF Take
<1>5. /\ effective \in Seq(Entries) /\ Len(effective) \in Nat
      /\ effective' \in Seq(Entries) /\ Len(effective') = Len(effective) + 1
      /\ DOMAIN effective = 1..Len(effective) /\ DOMAIN effective' = 1..(Len(effective) + 1)
      /\ \A k \in 1..Len(effective) : effective'[k] = effective[k]
      /\ effective'[Len(effective) + 1] = i
  BY <1>1 DEF IInv, Counted
<1>6. Placed' = Placed \cup {i}
  BY <1>5 DEF Placed, Elements
<1>7. edges[i] \subseteq Entries
  BY EdgesAreEntries DEF IInv
<1>8. OrderRespectsEdges'
  <2>1. ASSUME NEW k \in DOMAIN effective', NEW m \in DOMAIN effective', k # m
        PROVE  effective'[k] # effective'[m]
    <3>1. \A l \in 1..Len(effective) : effective[l] # i
      BY <1>2, <1>5 DEF Placed, Elements
    <3> QED
      BY <1>5, <2>1, <3>1 DEF IInv, OrderRespectsEdges
  <2>2. ASSUME NEW m \in DOMAIN effective', NEW p \in Before(effective'[m])
        PROVE  \E k \in 1..(m - 1) : effective'[k] = p
    <3>1. CASE m = Len(effective) + 1
      <4>1. p \in Placed
        BY <1>2, <1>5, <2>2, <3>1
      <4>2. PICK k \in 1..Len(effective) : effective[k] = p
        BY <1>5, <4>1 DEF Placed, Elements
      <4> QED
        BY <1>5, <3>1, <4>2
    <3>2. CASE m # Len(effective) + 1
      <4>1. m \in DOMAIN effective /\ p \in Before(effective[m])
        BY <1>5, <2>2, <3>2
      <4>2. PICK k \in 1..(m - 1) : effective[k] = p
        BY <4>1 DEF IInv, OrderRespectsEdges
      <4> QED
        BY <1>5, <4>1, <4>2
    <3> QED
      BY <3>1, <3>2
  <2> QED
    BY <1>3, <2>1, <2>2 DEF OrderRespectsEdges
<1>9. ASSUME NEW j \in Entries
      PROVE  /\ incoming[j] = Cardinality(Waiting(j)) /\ incoming[j] \in Nat
             /\ incoming'[j] = incoming[j] - (IF j \in edges[i] THEN 1 ELSE 0)
             /\ incoming'[j] = Cardinality(Waiting(j)')
             /\ incoming'[j] \in Nat
  <2>1. incoming[j] = Cardinality(Waiting(j)) /\ incoming[j] \in Nat
    BY <1>3 DEF IInv, Counted
  <2>2. incoming'[j] = incoming[j] - (IF j \in edges[i] THEN 1 ELSE 0)
    BY <1>1 DEF Lowered
  <2>3. IsFiniteSet(Waiting(j)) /\ Waiting(j)' = Waiting(j) \ {i}
    BY <1>3, <1>6, FiniteBefore DEF IInv, Waiting
  <2>4. CASE j \in edges[i]
    <3>1. i \in Waiting(j)
      BY <1>1, <1>2, <2>4 DEF Waiting, Before
    <3>2. Cardinality(Waiting(j) \ {i}) = Cardinality(Waiting(j)) - 1 /\ IsFiniteSet(Waiting(j) \ {i})
      BY <2>3, <3>1, FS_RemoveElement
    <3>3. Cardinality(Waiting(j) \ {i}) \in Nat
      BY <3>2, FS_CardinalityType
    <3> QED
      BY <2>1, <2>2, <2>3, <2>4, <3>2, <3>3
  <2>5. CASE j \notin edges[i]
    <3>1. Waiting(j) \ {i} = Waiting(j)
      BY <2>5 DEF Waiting, Before
    <3>2. Cardinality(Waiting(j)') = Cardinality(Waiting(j))
      BY <2>3, <3>1
    <3>3. incoming'[j] = incoming[j]
      BY <2>1, <2>2, <2>5
    <3> QED
      BY <2>1, <2>2, <3>2, <3>3
  <2> QED
    BY <2>1, <2>2, <2>4, <2>5
<1>10. incoming' \in [Entries -> Nat]
  BY <1>1, <1>9 DEF Lowered
<1>11. ready' \subseteq Entries
  BY <1>1, <1>7 DEF IInv, Counted
<1>12. ASSUME NEW j \in ready' PROVE j \notin Placed' /\ incoming'[j] = 0
  <2>1. CASE j \in ready \ {i}
    <3>1. j \notin Placed /\ Waiting(j) = {} /\ incoming[j] = 0
      BY <1>3, <2>1, FreeEntry DEF IInv, Counted
    <3>2. j \notin edges[i]
      BY <1>2, <3>1 DEF Waiting, Before
    <3> QED
      BY <1>6, <1>9, <1>11, <2>1, <3>1, <3>2
  <2>2. CASE j \in edges[i] /\ Lowered(i)[j] = 0
    <3>1. i \in Before(j)
      BY <2>2 DEF Before
    <3>2. j # i
      BY <1>2, <3>1
    <3>3. j \notin Placed
      <4>1. SUFFICES ASSUME j \in Placed PROVE FALSE
        OBVIOUS
      <4>2. PICK m \in DOMAIN effective : effective[m] = j
        BY <4>1 DEF Placed, Elements
      <4>3. PICK k \in 1..(m - 1) : effective[k] = i
        BY <3>1, <4>2 DEF IInv, OrderRespectsEdges
      <4>4. k \in DOMAIN effective
        BY <1>5, <4>2, <4>3
      <4> QED
        BY <1>2, <4>3, <4>4 DEF Placed, Elements
    <3> QED
      BY <1>1, <1>6, <2>2, <3>2, <3>3
  <2> QED
    BY <1>1, <2>1, <2>2
<1>13. Counted'
  BY <1>3, <1>5, <1>9, <1>10, <1>11, <1>12 DEF Counted
<1> QED
  BY <1>4, <1>8, <1>13 DEF IInv

LEMMA SortEnds ==
  ASSUME IInv, Sorted
  PROVE  IInv'
<1>1. Shape' /\ Searched' /\ Chain' /\ CycleIsReal'
  BY SortKeepsSearch DEF Sorted
<1>2. Counted' /\ OrderRespectsEdges'
  BY DEF Sorted, IInv, Counted, OrderRespectsEdges, Entries, Before, Elements, Placed, Waiting, sorting
<1> QED
  BY <1>1, <1>2 DEF IInv

(***************************************************************************)
(* The invariant.                                                          *)
(***************************************************************************)
LEMMA GraphStarts ==
  ASSUME NEW n \in Nat, NEW g \in Graphs(n), Start(g)
  PROVE  IInv'
<1>1. Shape' /\ Entries' = 1..n /\ edges' = g
  BY DEF Start, Shape, Graphs, Entries
<1>2. Searched' /\ Chain' /\ CycleIsReal' /\ OrderRespectsEdges'
  BY <1>1 DEF Start, Searched, Chain, CycleIsReal, OrderRespectsEdges, Graphs
<1>3. Counted'
  BY <1>1 DEF Start, Counted, Graphs
<1> QED
  BY <1>1, <1>2, <1>3 DEF IInv

LEMMA Initially == TraversalInit => IInv
<1> SUFFICES ASSUME TraversalInit PROVE IInv
  OBVIOUS
<1>1. Entries = 1..0 /\ 0 \in Nat /\ edges \in Graphs(0)
  BY DEF TraversalInit, NoEntries, Graphs, Entries
<1>2. Shape
  BY <1>1 DEF Shape
<1>3. Searched /\ Chain /\ CycleIsReal /\ OrderRespectsEdges
  BY <1>1 DEF TraversalInit, NoEntries, Searched, Chain, CycleIsReal, OrderRespectsEdges
<1>4. Counted
  BY <1>1 DEF TraversalInit, NoEntries, Counted
<1> QED
  BY <1>2, <1>3, <1>4 DEF IInv

(***************************************************************************)
(* What the search has seen and what the order has taken. Done entries     *)
(* have no edges to others and no cycle among them; among acyclic entries  *)
(* one is always free, and the free ones are the ready ones.               *)
(***************************************************************************)
Done == {i \in Entries : mark[i] = "done"}

\* The path has distinct entries, the open ones, and whatever is not left of an entry is done
\* or being visited.
Visits ==
  /\ \A k, m \in 1..Len(path) : path[k] = path[m] => k = m
  /\ \A i \in Entries : mark[i] = "open" <=> \E m \in 1..Len(path) : path[m] = i
  /\ \A m \in 1..Len(path) : \A j \in edges[path[m]] :
       j \in left[m] \/ j \in Done \/ (m < Len(path) /\ j = path[m + 1])

\* Among done entries there are no edges to others and no cycle: every set of them has an
\* entry no other of the set must precede.
Closed == \A i \in Done : edges[i] \subseteq Done
HasSource(S) == \E x \in S : \A y \in S : x \notin edges[y]
Grounded == \A S \in SUBSET Done : S # {} => HasSource(S)
Exhausted == phase \in {"acyclic", "sort", "sorted"} => Done = Entries

SearchInv == Visits /\ Closed /\ Grounded /\ Exhausted

\* An entry that waits for none is ready, and each was taken before every later free one.
Freed == phase = "sort" => \A i \in Entries \ Placed : Waiting(i) = {} => i \in ready
Earlier(m) == {effective[k] : k \in 1..(m - 1)}
Greedy ==
  \A m \in DOMAIN effective : \A j \in Entries :
    j \notin Earlier(m) /\ Before(j) \subseteq Earlier(m) => effective[m] <= j
\* A graph without a cycle is placed whole.
Whole == phase = "sorted" => Placed = Entries

SortInv == Freed /\ Greedy /\ Whole

LEMMA SearchInvKept ==
  ASSUME SearchInv, UNCHANGED <<edges, mark, path, left>>,
         phase' \in {"acyclic", "sort", "sorted"} => phase \in {"acyclic", "sort", "sorted"}
  PROVE  SearchInv'
<1>1. Visits'
  BY DEF SearchInv, Visits, Entries, Done
<1>2. Closed'
  BY DEF SearchInv, Closed, Entries, Done
<1>3. Grounded'
  BY DEF SearchInv, Grounded, HasSource, Entries, Done
<1>4. Exhausted'
  BY DEF SearchInv, Exhausted, Entries, Done
<1> QED
  BY <1>1, <1>2, <1>3, <1>4 DEF SearchInv

\* Nothing becomes done: what is done keeps what it has.
LEMMA NothingDone ==
  ASSUME SearchInv, UNCHANGED edges, Done' = Done, phase' = "walk" \/ phase' = "cycle"
  PROVE  Closed' /\ Grounded' /\ Exhausted'
<1>1. Closed'
  BY DEF SearchInv, Closed
<1>2. Grounded'
  BY DEF SearchInv, Grounded, HasSource
<1>3. Exhausted'
  BY DEF Exhausted
<1> QED
  BY <1>1, <1>2, <1>3

LEMMA RootVisited ==
  ASSUME IInv, SearchInv, Root
  PROVE  SearchInv'
<1>1. PICK i \in Entries : /\ mark[i] = "new" /\ mark' = [mark EXCEPT ![i] = "open"]
                           /\ path' = <<i>> /\ left' = <<edges[i]>>
  BY DEF Root, IsFirst, Fresh
<1>2. /\ phase' = "walk" /\ edges' = edges /\ Entries' = Entries /\ path = << >>
      /\ mark \in [Entries -> {"new", "open", "done"}]
  BY DEF Root, Entries, IInv, Searched
<1>3. Len(path') = 1 /\ path'[1] = i /\ left'[1] = edges[i]
  BY <1>1
<1>4. Done' = Done
  BY <1>1, <1>2 DEF Done
<1>5. \A j \in Entries : mark[j] # "open"
  <2>1. Len(path) = 0
    BY <1>2
  <2> QED
    BY <2>1 DEF SearchInv, Visits
<1>6. Visits'
  <2>1. \A k, m \in 1..Len(path') : path'[k] = path'[m] => k = m
    BY <1>3
  <2>2. \A j \in Entries' : mark'[j] = "open" <=> \E m \in 1..Len(path') : path'[m] = j
    BY <1>1, <1>2, <1>3, <1>5
  <2>3. \A m \in 1..Len(path') : \A j \in edges'[path'[m]] : j \in left'[m]
    BY <1>2, <1>3
  <2> QED
    BY <2>1, <2>2, <2>3 DEF Visits
<1> QED
  BY <1>2, <1>4, <1>6, NothingDone DEF SearchInv

LEMMA SuccessorVisited ==
  ASSUME IInv, SearchInv, phase = "walk", path # << >>, UNCHANGED <<edges, sorting>>,
         NEW j \in Entries, IsFirst(j, left[Top]), Descend(j)
  PROVE  SearchInv'
<1> USE DEF Top
<1>1. /\ path \in Seq(Entries) /\ left \in Seq(SUBSET Entries) /\ Len(left) = Len(path)
      /\ Len(path) \in Nat /\ Len(path) > 0 /\ mark \in [Entries -> {"new", "open", "done"}]
  BY DEF IInv, Searched
<1>2. j \in left[Len(path)] /\ edges[j] \subseteq Entries /\ mark[j] = "new"
  BY EdgesAreEntries DEF IsFirst, IInv, Descend
<1>3. /\ Looked(j) \in Seq(SUBSET Entries) /\ Len(Looked(j)) = Len(path)
      /\ \A k \in 1..(Len(path) - 1) : Looked(j)[k] = left[k]
      /\ Looked(j)[Len(path)] = left[Len(path)] \ {j}
  BY <1>1 DEF Looked
<1>4. /\ Len(path') = Len(path) + 1 /\ path'[Len(path) + 1] = j
      /\ \A k \in 1..Len(path) : path'[k] = path[k]
  BY <1>1 DEF Descend
<1>5. /\ left'[Len(path) + 1] = edges[j]
      /\ \A k \in 1..Len(path) : left'[k] = Looked(j)[k]
  BY <1>1, <1>2, <1>3 DEF Descend
<1>6. edges' = edges /\ Entries' = Entries /\ phase' = "walk" /\ mark' = [mark EXCEPT ![j] = "open"]
  BY DEF Entries, Descend
<1>7. Done' = Done
  BY <1>1, <1>2, <1>6 DEF Done
<1>8. \A m \in 1..Len(path) : path[m] # j
  BY <1>2 DEF SearchInv, Visits
<1>9. Visits'
  <2>1. ASSUME NEW k \in 1..Len(path'), NEW m \in 1..Len(path'), path'[k] = path'[m] PROVE k = m
    <3>1. CASE k \in 1..Len(path) /\ m \in 1..Len(path)
      BY <1>4, <2>1, <3>1 DEF SearchInv, Visits
    <3>2. CASE k = Len(path) + 1 \/ m = Len(path) + 1
      BY <1>1, <1>4, <1>8, <2>1, <3>2
    <3> QED
      BY <1>1, <1>4, <3>1, <3>2
  <2>2. ASSUME NEW i \in Entries
        PROVE  mark'[i] = "open" <=> \E m \in 1..Len(path') : path'[m] = i
    <3>1. mark[i] = "open" <=> \E m \in 1..Len(path) : path[m] = i
      BY DEF SearchInv, Visits
    <3>2. (\E m \in 1..Len(path') : path'[m] = i) <=> (i = j \/ \E m \in 1..Len(path) : path[m] = i)
      BY <1>1, <1>4
    <3> QED
      BY <1>1, <1>6, <3>1, <3>2
  <2>3. ASSUME NEW m \in 1..Len(path'), NEW i \in edges'[path'[m]]
        PROVE  i \in left'[m] \/ i \in Done \/ (m < Len(path') /\ i = path'[m + 1])
    <3>1. CASE m = Len(path) + 1
      BY <1>4, <1>5, <1>6, <2>3, <3>1
    <3>2. CASE m = Len(path)
      <4>1. i \in left[m] \/ i \in Done
        BY <1>1, <1>4, <1>6, <2>3, <3>2 DEF SearchInv, Visits
      <4>2. m < Len(path') /\ path'[m + 1] = j /\ left'[m] = left[m] \ {j}
        BY <1>1, <1>3, <1>4, <1>5, <3>2
      <4> QED
        BY <4>1, <4>2
    <3>3. CASE m \in 1..(Len(path) - 1)
      <4>1. path'[m] = path[m] /\ path'[m + 1] = path[m + 1] /\ left'[m] = left[m] /\ m < Len(path')
        BY <1>1, <1>3, <1>4, <1>5, <3>3
      <4>2. i \in left[m] \/ i \in Done \/ i = path[m + 1]
        BY <1>1, <1>6, <3>3, <4>1 DEF SearchInv, Visits
      <4> QED
        BY <4>1, <4>2
    <3> QED
      BY <1>1, <1>4, <3>1, <3>2, <3>3
  <2> QED
    BY <1>6, <1>7, <2>1, <2>2, <2>3 DEF Visits
<1> QED
  BY <1>6, <1>7, <1>9, NothingDone DEF SearchInv

LEMMA SuccessorPassed ==
  ASSUME IInv, SearchInv, phase = "walk", path # << >>, UNCHANGED <<edges, sorting>>,
         NEW j \in Entries, Pass(j)
  PROVE  SearchInv'
<1> USE DEF Top
<1>1. /\ path \in Seq(Entries) /\ left \in Seq(SUBSET Entries) /\ Len(left) = Len(path)
      /\ Len(path) \in Nat /\ Len(path) > 0
  BY DEF IInv, Searched
<1>2. /\ \A k \in 1..Len(path) : left'[k] = left[k] \/ left'[k] = left[k] \ {j}
      /\ j \in Done
  BY <1>1 DEF Pass, Looked, Done
<1>3. UNCHANGED <<phase, mark, path, edges>> /\ Entries' = Entries /\ Done' = Done
  BY DEF Pass, Entries, Done
<1>4. Visits'
  <2>1. ASSUME NEW m \in 1..Len(path), NEW i \in edges[path[m]]
        PROVE  i \in left'[m] \/ i \in Done \/ (m < Len(path) /\ i = path[m + 1])
    BY <1>1, <1>2 DEF SearchInv, Visits
  <2> QED
    BY <1>3, <2>1 DEF SearchInv, Visits
<1> QED
  BY <1>3, <1>4, NothingDone DEF SearchInv

\* The entry left has only done successors, so it is a source of every set of done ones with it.
LEMMA EntryLeft ==
  ASSUME IInv, SearchInv, Leave
  PROVE  SearchInv'
<1> DEFINE x == path[Len(path)]
<1>1. /\ path \in Seq(Entries) /\ left \in Seq(SUBSET Entries) /\ Len(left) = Len(path)
      /\ Len(path) \in Nat /\ Len(path) > 0 /\ mark \in [Entries -> {"new", "open", "done"}]
      /\ left[Len(path)] = {} /\ x \in Entries
  BY DEF IInv, Searched, Leave, Top
<1>2. /\ Len(path') = Len(path) - 1
      /\ \A k \in 1..(Len(path) - 1) : path'[k] = path[k]
  BY <1>1 DEF Leave, Top
<1>3. \A k \in 1..(Len(path) - 1) : left'[k] = left[k]
  BY <1>1 DEF Leave, Top
<1>4. /\ edges' = edges /\ Entries' = Entries /\ phase' = "walk" /\ mark' = [mark EXCEPT ![x] = "done"]
  BY DEF Leave, Entries, Top
<1>5. Done' = Done \cup {x}
  BY <1>1, <1>4 DEF Done
<1>6. mark[x] = "open" /\ x \notin Done /\ \A m \in 1..(Len(path) - 1) : path[m] # x
  <2>1. Len(path) \in 1..Len(path) /\ \A m \in 1..(Len(path) - 1) : m \in 1..Len(path) /\ m # Len(path)
    BY <1>1
  <2>2. mark[x] = "open"
    BY <1>1, <2>1 DEF SearchInv, Visits
  <2>3. \A m \in 1..(Len(path) - 1) : path[m] # x
    BY <2>1 DEF SearchInv, Visits
  <2> QED
    BY <2>2, <2>3 DEF Done
<1>7. edges[x] \subseteq Done
  <2>1. Len(path) \in 1..Len(path) /\ ~(Len(path) < Len(path))
    BY <1>1
  <2> QED
    BY <1>1, <2>1 DEF SearchInv, Visits
<1> HIDE DEF x
<1>8. Visits'
  <2>1. \A k, m \in 1..Len(path') : path'[k] = path'[m] => k = m
    BY <1>1, <1>2 DEF SearchInv, Visits
  <2>2. ASSUME NEW i \in Entries
        PROVE  mark'[i] = "open" <=> \E m \in 1..Len(path') : path'[m] = i
    <3>1. mark[i] = "open" <=> \E m \in 1..Len(path) : path[m] = i
      BY DEF SearchInv, Visits
    <3>2. CASE i = x
      BY <1>1, <1>2, <1>4, <1>6, <3>2
    <3>3. CASE i # x
      <4>1. (\E m \in 1..Len(path) : path[m] = i) <=> \E m \in 1..(Len(path) - 1) : path[m] = i
        BY <1>1, <3>3 DEF x
      <4> QED
        BY <1>1, <1>2, <1>4, <3>1, <3>3, <4>1
    <3> QED
      BY <3>2, <3>3
  <2>3. ASSUME NEW m \in 1..Len(path'), NEW i \in edges'[path'[m]]
        PROVE  i \in left'[m] \/ i \in Done' \/ (m < Len(path') /\ i = path'[m + 1])
    <3>1. m \in 1..(Len(path) - 1) /\ path'[m] = path[m] /\ left'[m] = left[m] /\ m \in 1..Len(path)
      BY <1>1, <1>2, <1>3
    <3>2. i \in left[m] \/ i \in Done \/ i = path[m + 1]
      BY <1>4, <3>1 DEF SearchInv, Visits
    <3>3. CASE m = Len(path) - 1
      BY <1>1, <1>5, <3>1, <3>2, <3>3 DEF x
    <3>4. CASE m # Len(path) - 1
      <4>1. m + 1 \in 1..(Len(path) - 1) /\ m < Len(path')
        BY <1>1, <1>2, <3>1, <3>4
      <4> QED
        BY <1>2, <1>5, <3>1, <3>2, <4>1
    <3> QED
      BY <3>3, <3>4
  <2> QED
    BY <1>4, <2>1, <2>2, <2>3 DEF Visits
<1>9. Closed'
  BY <1>4, <1>5, <1>7 DEF SearchInv, Closed
<1>10. Grounded'
  <2>1. ASSUME NEW S \in SUBSET (Done \cup {x}), S # {} PROVE HasSource(S)
    <3>1. CASE x \in S
      <4>1. \A y \in S : x \notin edges[y]
        BY <1>6, <1>7 DEF SearchInv, Closed
      <4> QED
        BY <3>1, <4>1 DEF HasSource
    <3>2. CASE x \notin S
      BY <2>1, <3>2 DEF SearchInv, Grounded
    <3> QED
      BY <3>1, <3>2
  <2> QED
    BY <1>4, <1>5, <2>1 DEF Grounded, HasSource
<1>11. Exhausted'
  BY <1>4 DEF Exhausted
<1> QED
  BY <1>8, <1>9, <1>10, <1>11 DEF SearchInv

LEMMA SearchExhausted ==
  ASSUME IInv, SearchInv, NoCycle
  PROVE  SearchInv'
<1>1. UNCHANGED <<edges, mark, path, left>> /\ Entries' = Entries /\ Done' = Done
  BY DEF NoCycle, searching, Entries, Done
<1>2. Visits'
  BY <1>1 DEF SearchInv, Visits
<1>3. Closed'
  BY <1>1 DEF SearchInv, Closed
<1>4. Grounded'
  BY <1>1 DEF SearchInv, Grounded, HasSource
<1>5. Exhausted'
  <2>1. Len(path) = 0 /\ Fresh = {} /\ mark \in [Entries -> {"new", "open", "done"}]
    BY DEF NoCycle, IInv, Searched
  <2>2. \A i \in Entries : mark[i] # "open"
    BY <2>1 DEF SearchInv, Visits
  <2>3. Done = Entries
    BY <2>1, <2>2 DEF Fresh, Done
  <2> QED
    BY <1>1, <2>3 DEF Exhausted
<1> QED
  BY <1>2, <1>3, <1>4, <1>5 DEF SearchInv

LEMMA SearchInvStep ==
  ASSUME IInv, SearchInv, Traverse
  PROVE  SearchInv'
<1>1. CASE Root
  BY <1>1, RootVisited
<1>2. CASE Visit
  <2>1. PICK j \in Entries : IsFirst(j, left[Top]) /\ (Descend(j) \/ Pass(j) \/ CloseCycle(j))
    BY <1>2 DEF Visit
  <2>2. phase = "walk" /\ path # << >> /\ UNCHANGED <<edges, sorting>>
    BY <1>2 DEF Visit
  <2>3. CASE Descend(j)
    BY <2>1, <2>2, <2>3, SuccessorVisited
  <2>4. CASE Pass(j)
    BY <2>1, <2>2, <2>4, SuccessorPassed
  <2>5. CASE CloseCycle(j)
    BY <2>2, <2>5, SearchInvKept DEF CloseCycle
  <2> QED
    BY <2>1, <2>3, <2>4, <2>5
<1>3. CASE Leave
  BY <1>3, EntryLeft
<1>4. CASE NoCycle
  BY <1>4, SearchExhausted
<1>5. CASE BeginSort \/ Take \/ Sorted
  BY <1>5, SearchInvKept DEF BeginSort, Take, Sorted, searching
<1> QED
  BY <1>1, <1>2, <1>3, <1>4, <1>5 DEF Traverse

\* The sort.
LEMMA SortInvStep ==
  ASSUME IInv, SearchInv, SortInv, Traverse
  PROVE  SortInv'
<1>1. CASE Root \/ Visit \/ Leave \/ NoCycle
  <2>1. UNCHANGED <<edges, effective>> /\ phase' \notin {"sort", "sorted"}
    BY <1>1 DEF Root, Visit, Leave, NoCycle, Descend, Pass, CloseCycle, sorting
  <2>2. phase \notin {"sort", "sorted"}
    BY <1>1 DEF Root, Visit, Leave, NoCycle
  <2>3. Greedy'
    BY <2>1 DEF SortInv, Greedy, Earlier, Entries, Before
  <2> QED
    BY <2>1, <2>3 DEF SortInv, Freed, Whole
<1>2. CASE BeginSort
  <2>1. effective' = << >> /\ phase' = "sort" /\ ready' = {i \in Entries : Before(i) = {}} /\ edges' = edges
    BY <1>2 DEF BeginSort, IInv, Counted
  <2>2. Placed' = {} /\ Entries' = Entries /\ \A i : Waiting(i)' = Before(i)
    BY <2>1 DEF Placed, Elements, Entries, Waiting, Before
  <2>3. Freed'
    BY <2>1, <2>2 DEF Freed
  <2>4. Greedy' /\ Whole'
    BY <2>1 DEF Greedy, Whole
  <2> QED
    BY <2>3, <2>4 DEF SortInv
<1>3. CASE Take
  <2>1. PICK i \in Entries :
          /\ i \in ready /\ \A j \in ready : i <= j
          /\ effective' = Append(effective, i) /\ incoming' = Lowered(i)
          /\ ready' = (ready \ {i}) \cup {j \in edges[i] : Lowered(i)[j] = 0}
    BY <1>3 DEF Take, IsFirst
  <2>2. phase = "sort" /\ phase' = "sort" /\ edges' = edges /\ Entries' = Entries
        /\ (\A j : Before(j)' = Before(j)) /\ incoming' = Lowered(i)
    BY <1>3, <2>1 DEF Take, Entries, Before
  <2>3. /\ effective \in Seq(Entries) /\ Len(effective) \in Nat /\ Len(effective') = Len(effective) + 1
        /\ DOMAIN effective = 1..Len(effective) /\ DOMAIN effective' = 1..(Len(effective) + 1)
        /\ \A k \in 1..Len(effective) : effective'[k] = effective[k]
        /\ effective'[Len(effective) + 1] = i
    BY <2>1 DEF IInv, Counted
  <2>4. Placed' = Placed \cup {i}
    BY <2>3 DEF Placed, Elements
  <2>5. IInv'
    BY <1>3, EntryTaken
  <2>6. Freed'
    <3>1. ASSUME NEW j \in Entries \ Placed', Waiting(j)' = {} PROVE j \in ready'
      <4>1. j # i /\ j \notin Placed /\ Waiting(j) \subseteq {i}
        BY <2>2, <2>4, <3>1 DEF Waiting
      <4>2. CASE i \in Before(j)
        <5>1. j \in edges[i]
          BY <4>2 DEF Before
        <5>2. incoming'[j] = Cardinality(Waiting(j)')
          BY <2>2, <2>5, <4>1 DEF IInv, Counted, Waiting
        <5>3. Lowered(i)[j] = 0
          BY <2>2, <3>1, <5>2, FS_EmptySet
        <5> QED
          BY <2>1, <5>1, <5>3
      <4>3. CASE i \notin Before(j)
        <5>1. Waiting(j) = {}
          BY <4>1, <4>3 DEF Waiting
        <5>2. j \in ready
          BY <2>2, <4>1, <5>1 DEF SortInv, Freed
        <5> QED
          BY <2>1, <4>1, <5>2
      <4> QED
        BY <4>2, <4>3
    <3> QED
      BY <2>2, <3>1 DEF Freed
  <2>7. Greedy'
    <3>1. ASSUME NEW m \in 1..(Len(effective) + 1), NEW j \in Entries,
                 j \notin {effective'[k] : k \in 1..(m - 1)},
                 Before(j) \subseteq {effective'[k] : k \in 1..(m - 1)}
          PROVE  effective'[m] <= j
      <4>1. {effective'[k] : k \in 1..(m - 1)} = Earlier(m)
        BY <2>3 DEF Earlier
      <4>2. CASE m \in 1..Len(effective)
        BY <2>3, <3>1, <4>1, <4>2 DEF SortInv, Greedy
      <4>3. CASE m = Len(effective) + 1
        <5>1. Earlier(m) = Placed
          BY <2>3, <4>3 DEF Earlier, Placed, Elements
        <5>2. j \in ready
          BY <2>2, <3>1, <4>1, <5>1 DEF SortInv, Freed, Waiting
        <5> QED
          BY <2>1, <2>3, <4>3, <5>2
      <4> QED
        BY <2>3, <4>2, <4>3
    <3> QED
      BY <2>2, <2>3, <3>1 DEF Greedy, Earlier
  <2>8. Whole'
    BY <2>2 DEF Whole
  <2> QED
    BY <2>6, <2>7, <2>8 DEF SortInv
<1>4. CASE Sorted
  <2>1. phase = "sort" /\ ready = {} /\ UNCHANGED <<edges, effective>> /\ phase' = "sorted"
    BY <1>4 DEF Sorted, sorting
  <2>2. Entries \subseteq Placed
    <3>1. SUFFICES ASSUME Entries \ Placed # {} PROVE FALSE
      OBVIOUS
    <3>2. Entries \ Placed \in SUBSET Done
      BY <2>1 DEF SearchInv, Exhausted
    <3>3. PICK x \in Entries \ Placed : \A y \in Entries \ Placed : x \notin edges[y]
      BY <3>1, <3>2 DEF SearchInv, Grounded, HasSource
    <3>4. Waiting(x) = {}
      BY <3>3 DEF Waiting, Before
    <3> QED
      BY <2>1, <3>3, <3>4 DEF SortInv, Freed
  <2>3. Placed \subseteq Entries
    BY DEF IInv, Counted, Placed, Elements
  <2>4. Greedy'
    BY <2>1 DEF SortInv, Greedy, Earlier, Entries, Before
  <2>5. Freed' /\ Whole'
    BY <2>1, <2>2, <2>3 DEF Freed, Whole, Placed, Elements, Entries
  <2> QED
    BY <2>4, <2>5 DEF SortInv
<1> QED
  BY <1>1, <1>2, <1>3, <1>4 DEF Traverse

LEMMA InvStarts ==
  ASSUME NEW n \in Nat, NEW g \in Graphs(n), Start(g)
  PROVE  SearchInv' /\ SortInv'
<1>1. Entries' = 1..n /\ edges' = g /\ phase' = "walk" /\ path' = << >> /\ effective' = << >>
      /\ mark' = [i \in 1..n |-> "new"]
  BY DEF Start, Graphs, Entries
<1>2. Done' = {} /\ Len(path') = 0
  BY <1>1 DEF Done
<1>3. Visits'
  BY <1>1, <1>2 DEF Visits
<1>4. Closed' /\ Grounded' /\ Exhausted'
  BY <1>1, <1>2 DEF Closed, Grounded, Exhausted
<1>5. SortInv'
  BY <1>1 DEF SortInv, Freed, Greedy, Whole
<1> QED
  BY <1>3, <1>4, <1>5 DEF SearchInv

LEMMA InvInitially == TraversalInit => SearchInv /\ SortInv
<1> SUFFICES ASSUME TraversalInit PROVE SearchInv /\ SortInv
  OBVIOUS
<1>1. Entries = {} /\ Len(path) = 0 /\ phase = "idle" /\ effective = << >>
  BY DEF TraversalInit, NoEntries, Entries
<1>2. Visits /\ Closed /\ Grounded /\ Exhausted
  BY <1>1 DEF Visits, Closed, Grounded, Exhausted, Done
<1>3. SortInv
  BY <1>1 DEF SortInv, Freed, Greedy, Whole
<1> QED
  BY <1>2, <1>3 DEF SearchInv

TInv == IInv /\ SearchInv /\ SortInv

LEMMA TraversalStep ==
  ASSUME TInv, Traverse \/ UNCHANGED traversal
  PROVE  TInv'
<1>1. CASE Traverse
  BY <1>1, SearchStep, SortBegins, EntryTaken, SortEnds, SearchInvStep, SortInvStep DEF TInv, Traverse
<1>2. CASE UNCHANGED traversal
  <2>1. UNCHANGED <<phase, edges, mark, path, left, cycle, incoming, ready, effective>>
    BY <1>2 DEF traversal, searching, sorting
  <2>2. Shape' /\ Searched' /\ Chain' /\ CycleIsReal'
    BY <2>1 DEF TInv, IInv, Shape, Searched, Chain, CycleIsReal, Entries
  <2>3. Counted' /\ OrderRespectsEdges'
    BY <2>1 DEF TInv, IInv, Counted, OrderRespectsEdges, Entries, Before, Elements, Placed, Waiting
  <2>4. SearchInv'
    BY <2>1, SearchInvKept DEF TInv
  <2>5. SortInv'
    BY <2>1 DEF TInv, SortInv, Freed, Greedy, Whole, Earlier, Entries, Before, Elements, Placed, Waiting
  <2> QED
    BY <2>2, <2>3, <2>4, <2>5 DEF TInv, IInv
<1> QED
  BY <1>1, <1>2

LEMMA TypesInitially == TraversalInit => TInv
BY Initially, InvInitially DEF TInv

LEMMA Invariance == Traversals => []TInv
<1>1. TInv /\ [Traverse \/ \E n \in Nat : \E g \in Graphs(n) : Start(g)]_traversal => TInv'
  <2> SUFFICES ASSUME TInv, [Traverse \/ \E n \in Nat : \E g \in Graphs(n) : Start(g)]_traversal
               PROVE  TInv'
    OBVIOUS
  <2>1. CASE Traverse \/ UNCHANGED traversal
    BY <2>1, TraversalStep
  <2>2. CASE \E n \in Nat : \E g \in Graphs(n) : Start(g)
    BY <2>2, GraphStarts, InvStarts DEF TInv
  <2> QED
    BY <2>1, <2>2
<1> QED
  BY <1>1, TypesInitially, PTL DEF Traversals

\* For every graph, a cycle the search of ordering.rs:173 reports consists of edges.
THEOREM CyclesAreReal == Traversals => []CycleIsReal
BY Invariance, PTL DEF TInv, IInv

\* For every graph, the order of ordering.rs:148 never places an entry before a predecessor or
\* twice.
THEOREM EdgesAreRespected == Traversals => []OrderRespectsEdges
BY Invariance, PTL DEF TInv, IInv

\* For every graph the search finds acyclic, the order of ordering.rs:148 places all entries, each
\* time the smallest whose predecessors are placed: none waits for an entry that never comes.
THEOREM OrdersAreWhole == Traversals => [](Whole /\ Greedy)
BY Invariance, PTL DEF TInv, SortInv

\* The traversal keeps its types; incoming never falls below zero (ordering.rs:164).
THEOREM TraversalTypes == Traversals => []TraversalTypeOK
<1>1. IInv => TraversalTypeOK
  <2> SUFFICES ASSUME IInv PROVE TraversalTypeOK
    OBVIOUS
  <2>1. PICK n \in Nat : edges \in Graphs(n)
    BY DEF IInv, Shape
  <2>2. Entries = 1..n /\ Cardinality(Entries) = n
    BY <2>1, FS_Interval DEF Graphs, Entries
  <2> QED
    BY <2>1, <2>2 DEF IInv, Searched, Counted, TraversalTypeOK
<1> QED
  BY <1>1, Invariance, PTL DEF TInv

(***************************************************************************)
(* Sequences: the part of a sequence that is in a set, and arrangements.   *)
(***************************************************************************)
LEMMA SmallestIsIn ==
  ASSUME NEW T, T \subseteq Nat, T # {}
  PROVE  \E m \in T : \A n \in T : m <= n
<1>1. \A a, b \in Nat : a < b => <<a, b>> \in OpToRel(<, Nat)
  BY DEF OpToRel
<1>2. PICK R : IsWellFoundedOn(R, Nat) /\ \A a, b \in Nat : a < b => <<a, b>> \in R
  BY <1>1, NatLessThanWellFounded
<1>3. PICK m \in T : \A n \in T : ~(<<n, m>> \in R)
  <2>1. IsWellFoundedOn(R, Nat)
    BY <1>2
  <2>2. \E m \in T : \A n \in T : ~(<<n, m>> \in R)
    BY ONLY <2>1, WFMin, T \subseteq Nat, T # {}
  <2> QED
    BY <2>2
<1>4. ASSUME NEW n \in T PROVE m <= n
  <2>1. m \in Nat /\ n \in Nat /\ <<n, m>> \notin R
    BY <1>3
  <2>2. ~(n < m)
    BY <1>2, <2>1
  <2> QED
    BY <2>1, <2>2
<1> QED
  BY <1>4

LEMMA UpTo ==
  ASSUME NEW n \in Nat
  PROVE  IsFiniteSet(1..n) /\ Cardinality(1..n) = n
<1>1. n \in Int /\ 1 \in Int
  OBVIOUS
<1> QED
  BY <1>1, FS_Interval

\* The n-th of finitely many numbers: every place up to their number is the rank of one.
LEMMA RanksAreAll ==
  ASSUME NEW n \in Nat, NEW kept \in SUBSET (1..n)
  PROVE  /\ IsFiniteSet(kept) /\ Cardinality(kept) \in Nat /\ Cardinality(kept) <= n
         /\ \A k \in kept : Cardinality({j \in kept : j <= k}) \in 1..Cardinality(kept)
         /\ \A k, l \in kept :
              k < l => Cardinality({j \in kept : j <= k}) < Cardinality({j \in kept : j <= l})
         /\ \A m \in 1..Cardinality(kept) :
              \E k \in kept : Cardinality({j \in kept : j <= k}) = m
<1> DEFINE upto(k) == {j \in kept : j <= k}
           rank == [k \in kept |-> Cardinality(upto(k))]
           N == Cardinality(kept)
<1>1. IsFiniteSet(kept) /\ N \in Nat /\ N <= n
  <2>1. IsFiniteSet(1..n) /\ Cardinality(1..n) = n
    BY UpTo
  <2> QED
    BY <2>1, FS_Subset, FS_CardinalityType
<1>2. ASSUME NEW k \in kept
      PROVE  IsFiniteSet(upto(k)) /\ rank[k] \in Nat /\ rank[k] \in 1..N
  <2>1. upto(k) \in SUBSET kept
    OBVIOUS
  <2>2. IsFiniteSet(upto(k)) /\ rank[k] \in Nat /\ rank[k] <= N
    BY <1>1, <2>1, FS_Subset, FS_CardinalityType
  <2>3. k \in upto(k)
    OBVIOUS
  <2>4. rank[k] # 0
    BY <2>2, <2>3, FS_EmptySet
  <2> QED
    BY <1>1, <2>2, <2>4
<1>3. ASSUME NEW k \in kept, NEW l \in kept, k < l PROVE rank[k] < rank[l]
  <2>0. kept \subseteq Nat
    OBVIOUS
  <2>1. upto(k) \in SUBSET (upto(l) \ {l}) /\ l \in upto(l)
    <3>1. ASSUME NEW j \in upto(k) PROVE j \in upto(l) \ {l}
      <4>1. j \in Nat /\ k \in Nat /\ l \in Nat /\ j \in kept /\ j <= k
        BY <2>0
      <4>2. j <= l /\ j # l
        BY <1>3, <4>1
      <4> QED
        BY <4>1, <4>2
    <3>2. l \in Nat /\ l <= l
      BY <2>0
    <3> QED
      BY <3>1, <3>2
  <2>2. IsFiniteSet(upto(l) \ {l}) /\ Cardinality(upto(l) \ {l}) = rank[l] - 1
    BY <1>2, <2>1, FS_RemoveElement
  <2>3. Cardinality(upto(k)) <= Cardinality(upto(l) \ {l})
    BY <2>1, <2>2, FS_Subset
  <2> QED
    BY <1>2, <2>2, <2>3
<1>4. rank \in Injection(kept, 1..N)
  <2>1. rank \in [kept -> 1..N]
    BY <1>2
  <2>2. \A k, l \in kept : k # l => rank[k] # rank[l]
    <3>1. ASSUME NEW k \in kept, NEW l \in kept, k # l PROVE rank[k] # rank[l]
      <4>1. k < l \/ l < k
        BY <3>1
      <4>2. rank[k] \in Nat /\ rank[l] \in Nat
        BY <1>2
      <4> HIDE DEF rank
      <4> QED
        BY <1>3, <4>1, <4>2
    <3> QED
      BY <3>1
  <2> HIDE DEF rank
  <2> QED
    BY <2>1, <2>2 DEF Injection, IsInjective
<1>5. rank \in Surjection(kept, 1..N)
  <2>1. IsFiniteSet(1..N) /\ Cardinality(1..N) = N
    BY <1>1, FS_Interval
  <2> HIDE DEF rank
  <2> QED
    BY <1>4, <2>1, FS_Injection
<1>6. \A m \in 1..N : \E k \in kept : rank[k] = m
  <2> HIDE DEF rank
  <2> QED
    BY <1>5 DEF Surjection
<1> QED
  BY <1>1, <1>2, <1>3, <1>6

\* What Only keeps, and in which order.
LEMMA OnlyKeeps ==
  ASSUME NEW X, NEW s \in Seq(X), NEW S
  PROVE  /\ Only(s, S) \in Seq(X) /\ Len(Only(s, S)) <= Len(s)
         /\ Elements(Only(s, S)) = Elements(s) \cap S
         /\ \E h \in [DOMAIN Only(s, S) -> DOMAIN s] :
              /\ \A a \in DOMAIN Only(s, S) : Only(s, S)[a] = s[h[a]]
              /\ \A a, b \in DOMAIN Only(s, S) : a < b <=> h[a] < h[b]
<1> DEFINE kept == {k \in DOMAIN s : s[k] \in S}
           rank(k) == Cardinality({j \in kept : j <= k})
           N == Cardinality(kept)
           h == [m \in 1..N |-> CHOOSE k \in kept : rank(k) = m]
<1>0. Len(s) \in Nat /\ DOMAIN s = 1..Len(s) /\ kept \in SUBSET (1..Len(s))
  OBVIOUS
<1>1. /\ N \in Nat /\ N <= Len(s)
      /\ \A k \in kept : rank(k) \in 1..N
      /\ \A k, l \in kept : k < l => rank(k) < rank(l)
      /\ \A m \in 1..N : \E k \in kept : rank(k) = m
  <2> HIDE DEF kept
  <2> QED
    BY <1>0, RanksAreAll
<1> HIDE DEF rank
<1>2. \A m \in 1..N : h[m] \in kept /\ rank(h[m]) = m
  <2> HIDE DEF kept, N
  <2> QED
    BY <1>1
<1>3. Only(s, S) = [m \in 1..N |-> s[h[m]]]
  BY DEF Only, rank
<1>4. \A m \in 1..N : h[m] \in 1..Len(s) /\ s[h[m]] \in S /\ s[h[m]] \in X
  BY <1>0, <1>2
<1> HIDE DEF h, N
<1>5. DOMAIN Only(s, S) = 1..N /\ \A m \in 1..N : Only(s, S)[m] = s[h[m]]
  BY <1>3
<1>6. Only(s, S) \in Seq(X) /\ Len(Only(s, S)) = N
  BY <1>1, <1>3, <1>4
<1>7. Elements(Only(s, S)) = Elements(s) \cap S
  <2>1. ASSUME NEW k \in DOMAIN s, s[k] \in S PROVE \E m \in 1..N : s[k] = s[h[m]]
    <3>1. k \in kept /\ rank(k) \in 1..N
      BY <1>1, <2>1
    <3>2. h[rank(k)] \in kept /\ rank(h[rank(k)]) = rank(k)
      BY <1>2, <3>1
    <3>3. h[rank(k)] = k
      <4>1. h[rank(k)] \in Nat /\ k \in Nat
        BY <1>0, <3>1, <3>2
      <4>2. ~(h[rank(k)] < k) /\ ~(k < h[rank(k)])
        BY <1>1, <3>1, <3>2
      <4> QED
        BY <4>1, <4>2
    <3> QED
      BY <3>1, <3>3
  <2> QED
    BY <1>0, <1>4, <1>5, <2>1 DEF Elements
<1>8. \A a, b \in 1..N : a < b <=> h[a] < h[b]
  <2>1. ASSUME NEW a \in 1..N, NEW b \in 1..N PROVE a < b <=> h[a] < h[b]
    <3>1. /\ h[a] \in kept /\ h[b] \in kept /\ rank(h[a]) = a /\ rank(h[b]) = b
          /\ h[a] \in 1..Len(s) /\ h[b] \in 1..Len(s)
      BY <1>2, <1>4
    <3>2. h[a] < h[b] => a < b
      BY <1>1, <3>1
    <3>3. h[b] < h[a] => b < a
      BY <1>1, <3>1
    <3>4. h[a] = h[b] => a = b
      BY <3>1
    <3> QED
      BY <1>0, <3>1, <3>2, <3>3, <3>4
  <2> QED
    BY <2>1
<1>9. h \in [1..N -> DOMAIN s]
  BY <1>0, <1>4 DEF h
<1> QED
  BY <1>1, <1>5, <1>6, <1>7, <1>8, <1>9

LEMMA OnlyAll ==
  ASSUME NEW X, NEW s \in Seq(X)
  PROVE  Only(s, X) = s
<1> DEFINE kept == {k \in DOMAIN s : s[k] \in X}
           rank(k) == Cardinality({j \in kept : j <= k})
<1>1. Len(s) \in Nat /\ DOMAIN s = 1..Len(s) /\ kept = 1..Len(s)
  OBVIOUS
<1>2. Cardinality(kept) = Len(s)
  BY <1>1, UpTo
<1>3. ASSUME NEW k \in kept PROVE rank(k) = k
  <2>1. {j \in kept : j <= k} = 1..k /\ k \in Nat
    BY <1>1
  <2>2. Cardinality(1..k) = k
    BY <2>1, UpTo
  <2> QED
    BY <2>1, <2>2
<1>4. \A m \in 1..Len(s) : (CHOOSE k \in kept : rank(k) = m) = m
  <2> HIDE DEF rank
  <2> QED
    BY <1>1, <1>3
<1>5. Only(s, X) = [m \in 1..Len(s) |-> s[CHOOSE k \in kept : rank(k) = m]]
  BY <1>2 DEF Only
<1> HIDE DEF rank, kept
<1>6. Only(s, X) = [m \in 1..Len(s) |-> s[m]]
  BY <1>4, <1>5
<1> QED
  BY <1>1, <1>6

\* An arrangement of n things reaches each of them.
LEMMA ArrangementIsOnto ==
  ASSUME NEW n \in Nat, NEW p \in [1..n -> 1..n], \A i, j \in 1..n : p[i] = p[j] => i = j
  PROVE  \A j \in 1..n : \E k \in 1..n : p[k] = j
<1>1. p \in Injection(1..n, 1..n)
  BY DEF Injection, IsInjective
<1>2. IsFiniteSet(1..n)
  BY UpTo
<1>3. p \in Surjection(1..n, 1..n)
  BY <1>1, <1>2, FS_Injection
<1> QED
  BY <1>3 DEF Surjection

\* When all n things are placed, and none twice, they are n.
LEMMA PlacedOnce ==
  ASSUME NEW n \in Nat, NEW p \in Seq(1..n), \A i, j \in DOMAIN p : i # j => p[i] # p[j],
         1..n \subseteq Elements(p)
  PROVE  Len(p) = n /\ DOMAIN p = 1..n /\ p \in [1..n -> 1..n]
<1>1. Len(p) \in Nat /\ DOMAIN p = 1..Len(p) /\ p \in [1..Len(p) -> 1..n]
  OBVIOUS
<1>2. p \in Injection(1..Len(p), 1..n)
  BY <1>1 DEF Injection, IsInjective
<1>3. p \in Surjection(1..Len(p), 1..n)
  BY <1>1 DEF Surjection, Elements
<1>4. /\ IsFiniteSet(1..n) /\ Cardinality(1..n) = n
      /\ IsFiniteSet(1..Len(p)) /\ Cardinality(1..Len(p)) = Len(p)
  BY <1>1, UpTo
<1>5. Len(p) <= n
  BY <1>2, <1>4, FS_Injection
<1>6. n <= Len(p)
  BY <1>3, <1>4, FS_Surjection
<1>7. Len(p) = n
  <2>1. Len(p) \in Nat
    BY <1>1
  <2> QED
    BY <1>5, <1>6, <2>1
<1> QED
  BY <1>1, <1>7

(***************************************************************************)
(* The resolver. A sound sequence is a selection that goes along every     *)
(* edge; the result of the whole selection is one, so each of its parts    *)
(* is, and the resolver leaves a sound sequence as it is.                  *)
(***************************************************************************)
USE LoadOrderAssumption DEF LoadOrderAssumption

Enforced == RegistryEdges \cup LocalEdges
Follows(q) == \A i, j \in DOMAIN q : <<q[i], q[j]>> \in Enforced => i < j
Sound(q) == q \in Seq(Builds) /\ Selectable(q) /\ NeedsMet(q) /\ RequirementsMet(q) /\ Follows(q)

GivenInv == given \in Cases /\ ValidCase(given)
EntriesInv ==
  /\ part \in {"mixed", "registry", "local"} /\ DOMAIN result = {"mixed", "registry", "local"}
  /\ part = "mixed" => entries = given.requested
  /\ part # "mixed" => Sound(result.mixed) /\ Elements(result.mixed) = Elements(given.requested)
  /\ part = "registry" => entries = Only(result.mixed, Releases)
  /\ part = "local" => entries = Only(result.mixed, Locals) /\ result.registry = Only(result.mixed, Releases)
GraphInv ==
  /\ stage \in {"resolving", "ordered"} =>
       /\ Selectable(entries) /\ NeedsMet(entries) /\ phase # "idle"
       /\ linked => RequirementsMet(entries) /\ edges = GraphOf(entries, Enforced)
       /\ ~linked => /\ part = "mixed" /\ edges = GraphOf(entries, RegistryEdges)
                     /\ phase \in {"walk", "cycle", "acyclic"}
  /\ stage = "ordered" => linked /\ phase = "sorted"
ResultInv ==
  stage = "ordered" =>
    /\ result[part] = [k \in DOMAIN effective |-> entries[effective[k]]]
    /\ part = "mixed" => notes.required = Required
DocumentInv ==
  /\ stage = "refused" => part = "mixed"
  /\ stage = "document" => part = "local" /\ document = ActiveMods
RInv == TInv /\ GivenInv /\ EntriesInv /\ GraphInv /\ ResultInv /\ DocumentInv


LEMMA EntriesAre ==
  ASSUME GivenInv, EntriesInv
  PROVE  /\ entries \in Seq(Builds)
         /\ part = "registry" => Elements(entries) \subseteq Releases
         /\ part = "local" => Elements(entries) \subseteq Locals
<1>1. CASE part = "mixed"
  BY <1>1 DEF GivenInv, EntriesInv
<1>2. CASE part = "registry"
  BY <1>2, OnlyKeeps DEF EntriesInv, Sound
<1>3. CASE part = "local"
  BY <1>3, OnlyKeeps DEF EntriesInv, Sound
<1> QED
  BY <1>1, <1>2, <1>3 DEF EntriesInv

\* The declarations of releases are their dependencies, those of local builds their rules.
LEMMA Declarations ==
  ASSUME GivenInv
  PROVE  /\ \A b : b \notin Releases => Needs(b) = {}
         /\ \A kind, b : b \notin Locals => Declared(kind, b) = {}
         /\ \A b : Declared("requires", b) \subseteq Locals
         /\ \A b : ModOf[b] \notin Declared("before", b) /\ ModOf[b] \notin Declared("after", b)
<1>1. \A b : b \notin Releases => Needs(b) = {}
  BY DEF GivenInv, Needs
<1>2. \A r \in given.rules : r.of \in Locals /\ (r.kind = "requires" => r.target \in Locals)
                             /\ (r.kind # "requires" => r.target # ModOf[r.of])
  BY DEF GivenInv, ValidCase
<1>3. \A kind, b : b \notin Locals => Declared(kind, b) = {}
  BY <1>2 DEF Declared
<1>4. \A b : Declared("requires", b) \subseteq Locals
  BY <1>2 DEF Declared
<1>5. ASSUME NEW b PROVE ModOf[b] \notin Declared("before", b) /\ ModOf[b] \notin Declared("after", b)
  BY <1>2 DEF Declared
<1> QED
  BY <1>1, <1>3, <1>4, <1>5

LEMMA GraphIs ==
  ASSUME NEW q \in Seq(Builds), NEW L
  PROVE  /\ GraphOf(q, L) \in Graphs(Len(q)) /\ Len(q) \in Nat
         /\ DOMAIN GraphOf(q, L) = 1..Len(q)
         /\ \A i, j \in 1..Len(q) : j \in GraphOf(q, L)[i] <=> <<q[i], q[j]>> \in L
         /\ \A i \in 1..Len(q) : GraphOf(q, L)[i] \subseteq 1..Len(q)
BY DEF GraphOf, Graphs

\* In a part the declarations of the other kind are void, and its edges are all there are.
LEMMA PartDeclares ==
  ASSUME GivenInv, EntriesInv
  PROVE  /\ part = "registry" => /\ RequirementsMet(entries)
                                 /\ GraphOf(entries, RegistryEdges) = GraphOf(entries, Enforced)
         /\ part = "local" => /\ NeedsMet(entries)
                              /\ GraphOf(entries, LocalEdges) = GraphOf(entries, Enforced)
<1>1. CASE part = "registry"
  <2>1. Elements(entries) \subseteq Releases
    BY <1>1, EntriesAre
  <2>2. RequirementsMet(entries)
    BY <2>1 DEF RequirementsMet
  <2>3. \A i, j \in DOMAIN entries : <<entries[i], entries[j]>> \notin LocalEdges
    BY <2>1 DEF LocalEdges, Elements
  <2>4. GraphOf(entries, RegistryEdges) = GraphOf(entries, Enforced)
    BY <2>3 DEF GraphOf, Enforced
  <2> QED
    BY <1>1, <2>2, <2>4
<1>2. CASE part = "local"
  <2>1. Elements(entries) \subseteq Locals
    BY <1>2, EntriesAre
  <2>2. NeedsMet(entries)
    BY <2>1 DEF NeedsMet
  <2>3. \A i, j \in DOMAIN entries : <<entries[i], entries[j]>> \notin RegistryEdges
    BY <2>1 DEF RegistryEdges, Elements
  <2>4. GraphOf(entries, LocalEdges) = GraphOf(entries, Enforced)
    BY <2>3 DEF GraphOf, Enforced
  <2> QED
    BY <1>2, <2>2, <2>4
<1> QED
  BY <1>1, <1>2

LEMMA Distinct ==
  ASSUME NEW q, Selectable(q), NEW i \in DOMAIN q, NEW j \in DOMAIN q, q[i] = q[j]
  PROVE  i = j
BY DEF Selectable

\* Part of a sound sequence is sound, but for requirements outside it.
LEMMA PartIsSound ==
  ASSUME GivenInv, NEW q, Sound(q), NEW S \in {Releases, Locals}
  PROVE  Sound(Only(q, S))
<1> DEFINE s == Only(q, S)
<1>1. /\ s \in Seq(Builds) /\ Len(s) <= Len(q) /\ Len(s) \in Nat /\ Len(q) \in Nat
      /\ Elements(s) = Elements(q) \cap S
  BY OnlyKeeps DEF Sound
<1>2. PICK h \in [DOMAIN s -> DOMAIN q] :
         /\ \A a \in DOMAIN s : s[a] = q[h[a]]
         /\ \A a, b \in DOMAIN s : a < b <=> h[a] < h[b]
  BY OnlyKeeps DEF Sound
<1> HIDE DEF s
<1>3. DOMAIN s \subseteq Nat /\ DOMAIN q \subseteq Nat
  BY <1>1 DEF Sound
<1>4. Selectable(s)
  <2>1. Len(s) <= MaxEntries
    BY <1>1 DEF Sound, Selectable
  <2>2. ASSUME NEW i \in DOMAIN s, NEW j \in DOMAIN s, ModOf[s[i]] = ModOf[s[j]] PROVE i = j
    <3>1. h[i] = h[j]
      BY <1>2, <2>2 DEF Sound, Selectable
    <3>2. i \in Nat /\ j \in Nat /\ h[i] \in Nat /\ h[j] \in Nat
      BY <1>2, <1>3
    <3>3. ~(i < j) /\ ~(j < i)
      BY <1>2, <3>1, <3>2
    <3> QED
      BY <3>2, <3>3
  <2>3. Elements(s) \subseteq given.installed
    BY <1>1 DEF Sound, Selectable
  <2> QED
    BY <2>1, <2>2, <2>3 DEF Selectable
<1>5. NeedsMet(s)
  <2>1. CASE S = Releases
    BY <1>1, <2>1 DEF Sound, NeedsMet
  <2>2. CASE S = Locals
    BY <1>1, <2>2 DEF NeedsMet
  <2> QED
    BY <2>1, <2>2
<1>6. RequirementsMet(s)
  <2>1. CASE S = Releases
    BY <1>1, <2>1 DEF RequirementsMet
  <2>2. CASE S = Locals
    BY <1>1, <2>2, Declarations DEF Sound, RequirementsMet
  <2> QED
    BY <2>1, <2>2
<1>7. Follows(s)
  BY <1>2 DEF Sound, Follows
<1> QED
  BY <1>1, <1>4, <1>5, <1>6, <1>7 DEF Sound, s

LEMMA EntriesSound ==
  ASSUME GivenInv, EntriesInv, part # "mixed"
  PROVE  Sound(entries)
BY PartIsSound DEF EntriesInv

(***************************************************************************)
(* Orders, by what a declaration means. An order keeps every declaration   *)
(* when it goes along the edges, and the one found is preferred to all     *)
(* others.                                                                 *)
(***************************************************************************)
\* Places compare as the labels do.
LEMMA PlaceIs ==
  ASSUME NEW v \in Elements(Precedence), NEW w \in Elements(Precedence)
  PROVE  Place(v) \in Nat /\ Place(w) \in Nat /\ Compare(v, w) = Numbers(Place(v), Place(w))
<1>1. Place(v) \in DOMAIN Precedence /\ Precedence[Place(v)] = v
  BY DEF Place, Elements
<1>2. Place(w) \in DOMAIN Precedence /\ Precedence[Place(w)] = w
  BY DEF Place, Elements
<1> HIDE DEF Place
<1> QED
  BY <1>1, <1>2, PrecedenceAssumption

\* What the code matches is what the declaration means.
LEMMA MatchesFits ==
  ASSUME GivenInv, NEW n \in given.needs, NEW c \in Releases
  PROVE  Matches(n, c, given.label[c]) <=> Fits(n, c)
<1> DEFINE label == given.label[c]
<1>1. /\ label \in Elements(Precedence) \cup {NotAVersion}
      /\ n.minimum \in Elements(Precedence) \cup {None}
      /\ n.before \in Elements(Precedence) \cup {None}
  BY PrecedenceAssumption DEF GivenInv
<1> HIDE DEF label
<1>2. ASSUME label # NotAVersion, n.minimum # None
      PROVE  Compare(label, n.minimum) # -1 <=> Place(n.minimum) <= Place(label)
  <2>1. /\ Place(n.minimum) \in Nat /\ Place(label) \in Nat
        /\ Compare(label, n.minimum) = Numbers(Place(label), Place(n.minimum))
    BY <1>1, <1>2, PlaceIs
  <2> QED
    BY <2>1 DEF Numbers
<1>3. ASSUME label # NotAVersion, n.before # None
      PROVE  Compare(label, n.before) = -1 <=> Place(label) < Place(n.before)
  <2>1. /\ Place(n.before) \in Nat /\ Place(label) \in Nat
        /\ Compare(label, n.before) = Numbers(Place(label), Place(n.before))
    BY <1>1, <1>3, PlaceIs
  <2> QED
    BY <2>1 DEF Numbers
<1> QED
  BY <1>2, <1>3 DEF Matches, Fits, label

LEMMA ArrangementIs ==
  ASSUME NEW q, entries \in Seq(Builds), q \in Arrangements
  PROVE  /\ Len(entries) \in Nat /\ DOMAIN entries = 1..Len(entries) /\ DOMAIN q = 1..Len(entries)
         /\ q \in [1..Len(entries) -> 1..Len(entries)]
         /\ \A i, j \in 1..Len(entries) : q[i] = q[j] => i = j
         /\ \A j \in 1..Len(entries) : \E k \in 1..Len(entries) : q[k] = j
<1>1. Len(entries) \in Nat /\ DOMAIN entries = 1..Len(entries)
  OBVIOUS
<1>2. q \in [1..Len(entries) -> 1..Len(entries)] /\ \A i, j \in 1..Len(entries) : q[i] = q[j] => i = j
  BY <1>1 DEF Arrangements
<1>3. \A j \in 1..Len(entries) : \E k \in 1..Len(entries) : q[k] = j
  BY <1>1, <1>2, ArrangementIsOnto
<1> QED
  BY <1>1, <1>2, <1>3

Respected(q) ==
  \A a, b \in DOMAIN entries : <<entries[q[a]], entries[q[b]]>> \in Enforced => a < b

\* An order that keeps every declaration goes along every edge.
LEMMA OrdersRespect ==
  ASSUME entries \in Seq(Builds), Selectable(entries), NEW q \in Orders
  PROVE  Respected(q)
<1> DEFINE n == Len(entries)
           order == [k \in DOMAIN q |-> entries[q[k]]]
<1>1. /\ n \in Nat /\ DOMAIN entries = 1..n /\ DOMAIN q = 1..n /\ q \in [1..n -> 1..n]
      /\ \A i, j \in 1..n : q[i] = q[j] => i = j
  BY ArrangementIs DEF Orders
<1>2. Keeps(order)
  BY DEF Orders
<1> HIDE DEF n
<1>3. DOMAIN order = 1..n /\ \A k \in 1..n : order[k] = entries[q[k]]
  BY <1>1
<1>4. \A k, m \in 1..n : ModOf[order[k]] = ModOf[order[m]] => k = m
  <2>1. \A i, j \in 1..n : ModOf[entries[i]] = ModOf[entries[j]] => i = j
    BY <1>1 DEF Selectable
  <2> QED
    BY <1>1, <1>3, <2>1
<1> HIDE DEF order
<1>5. ASSUME NEW a \in 1..n, NEW b \in 1..n, <<order[a], order[b]>> \in RegistryEdges
      PROVE  a < b
  <2>1. PICK d \in Needs(order[b]) : ModOf[order[a]] = d.mod
    BY <1>5 DEF RegistryEdges
  <2>2. PICK k \in 1..(b - 1) : Fits(d, order[k])
    BY <1>2, <1>3, <2>1 DEF Keeps
  <2>3. k \in 1..n /\ ModOf[order[k]] = d.mod
    BY <1>1, <2>2 DEF Fits
  <2>4. k = a
    BY <1>4, <2>1, <2>3
  <2> QED
    BY <2>2, <2>4
<1>6. ASSUME NEW a \in 1..n, NEW b \in 1..n, <<order[a], order[b]>> \in LocalEdges
      PROVE  a < b
  <2>1. CASE order[a] \in Declared("requires", order[b])
    <3>1. PICK k \in 1..(b - 1) : order[k] = order[a]
      BY <1>2, <1>3, <2>1 DEF Keeps
    <3>2. k \in 1..n
      BY <1>1, <3>1
    <3>3. k = a
      BY <1>4, <3>1, <3>2
    <3> QED
      BY <3>1, <3>3
  <2>2. CASE ModOf[order[b]] \in Declared("before", order[a])
    BY <1>2, <1>3, <1>6, <2>2 DEF Keeps, LocalEdges
  <2>3. CASE ModOf[order[a]] \in Declared("after", order[b])
    BY <1>2, <1>3, <1>6, <2>3 DEF Keeps, LocalEdges
  <2> QED
    BY <1>6, <2>1, <2>2, <2>3 DEF LocalEdges
<1>7. \A a, b \in 1..n : <<order[a], order[b]>> \in Enforced => a < b
  BY <1>5, <1>6 DEF Enforced
<1> QED
  BY <1>1, <1>3, <1>7 DEF Respected

\* An arrangement along every edge keeps the declarations of a selection that meets them.
LEMMA RespectedKeeps ==
  ASSUME GivenInv, entries \in Seq(Builds), NeedsMet(entries),
         RequirementsMet(entries), NEW q \in Arrangements, Respected(q)
  PROVE  q \in Orders
<1> DEFINE n == Len(entries)
           order == [k \in DOMAIN q |-> entries[q[k]]]
<1>1. /\ n \in Nat /\ DOMAIN entries = 1..n /\ DOMAIN q = 1..n /\ q \in [1..n -> 1..n]
      /\ \A j \in 1..n : \E k \in 1..n : q[k] = j
  BY ArrangementIs
<1> HIDE DEF n
<1>2. DOMAIN order = 1..n /\ \A k \in 1..n : order[k] = entries[q[k]] /\ order[k] \in Elements(entries)
  BY <1>1 DEF Elements
<1>3. \A x \in Elements(entries) : \E k \in 1..n : order[k] = x
  BY <1>1, <1>2 DEF Elements
<1> HIDE DEF order
<1>4. \A a, b \in 1..n : <<order[a], order[b]>> \in Enforced => a < b
  BY <1>1, <1>2 DEF Respected
<1>5. \A k \in 1..n : order[k] \in Builds
  BY <1>1, <1>2 DEF Elements
<1>6. ASSUME NEW i \in 1..n, NEW d \in Needs(order[i])
      PROVE  \E k \in 1..(i - 1) : order[k] \in Releases /\ Fits(d, order[k])
  <2>1. order[i] \in Elements(entries) \cap Releases /\ d \in given.needs
    BY <1>2, <1>6, Declarations DEF Needs
  <2>2. PICK c \in Elements(entries) \cap Releases : Matches(d, c, given.label[c])
    BY <1>6, <2>1 DEF NeedsMet
  <2>3. PICK k \in 1..n : order[k] = c
    BY <1>3, <2>2
  <2>4. Fits(d, c) /\ d.mod = ModOf[c]
    BY <2>1, <2>2, MatchesFits DEF Matches
  <2>5. <<order[k], order[i]>> \in RegistryEdges
    BY <1>6, <2>1, <2>2, <2>3, <2>4 DEF RegistryEdges
  <2>6. k < i
    BY <1>4, <2>5 DEF Enforced
  <2>7. k \in 1..(i - 1)
    BY <1>1, <2>6
  <2> QED
    BY <2>2, <2>3, <2>4, <2>7
<1>7. ASSUME NEW i \in 1..n, NEW b \in Declared("requires", order[i])
      PROVE  \E k \in 1..(i - 1) : order[k] = b
  <2>1. order[i] \in Elements(entries) \cap Locals /\ b \in Locals
    BY <1>2, <1>7, Declarations
  <2>2. b \in Elements(entries)
    BY <1>7, <2>1 DEF RequirementsMet
  <2>3. PICK k \in 1..n : order[k] = b
    BY <1>3, <2>2
  <2>4. <<order[k], order[i]>> \in LocalEdges
    BY <1>7, <2>1, <2>3 DEF LocalEdges
  <2>5. k < i
    BY <1>4, <2>4 DEF Enforced
  <2>6. k \in 1..(i - 1)
    BY <1>1, <2>5
  <2> QED
    BY <2>3, <2>6
<1>8. ASSUME NEW i \in 1..n, NEW k \in 1..n, order[k] \in Locals
      PROVE  /\ ModOf[order[k]] \in Declared("before", order[i]) => i < k
             /\ ModOf[order[k]] \in Declared("after", order[i]) => k < i
  <2>1. ASSUME ModOf[order[k]] \in Declared("before", order[i]) PROVE i < k
    <3>1. order[i] \in Locals
      BY <2>1, Declarations
    <3>2. <<order[i], order[k]>> \in LocalEdges
      BY <1>8, <2>1, <3>1 DEF LocalEdges
    <3> QED
      BY <1>4, <3>2 DEF Enforced
  <2>2. ASSUME ModOf[order[k]] \in Declared("after", order[i]) PROVE k < i
    <3>1. order[i] \in Locals
      BY <2>2, Declarations
    <3>2. <<order[k], order[i]>> \in LocalEdges
      BY <1>8, <2>2, <3>1 DEF LocalEdges
    <3> QED
      BY <1>4, <3>2 DEF Enforced
  <2> QED
    BY <2>1, <2>2
<1>9. Keeps(order)
  BY <1>2, <1>6, <1>7, <1>8 DEF Keeps
<1> QED
  BY <1>9 DEF Orders, order

\* The order the sort leaves.
LEMMA SortedIs ==
  ASSUME TInv, phase = "sorted", entries \in Seq(Builds), edges = GraphOf(entries, Enforced)
  PROVE  effective \in Arrangements /\ Respected(effective)
<1> DEFINE n == Len(entries)
<1>1. /\ n \in Nat /\ DOMAIN entries = 1..n /\ Entries = 1..n
      /\ \A i, j \in 1..n : j \in edges[i] <=> <<entries[i], entries[j]>> \in Enforced
  BY GraphIs DEF Entries
<1> HIDE DEF n
<1>2. /\ effective \in Seq(1..n) /\ 1..n \subseteq Elements(effective)
      /\ \A i, j \in DOMAIN effective : i # j => effective[i] # effective[j]
  BY <1>1 DEF TInv, IInv, Counted, SortInv, Whole, Placed, OrderRespectsEdges
<1>3. DOMAIN effective = 1..n /\ effective \in [1..n -> 1..n]
  BY <1>1, <1>2, PlacedOnce
<1>4. effective \in Arrangements
  BY <1>1, <1>2, <1>3 DEF Arrangements
<1>5. ASSUME NEW a \in 1..n, NEW b \in 1..n, <<entries[effective[a]], entries[effective[b]]>> \in Enforced
      PROVE  a < b
  <2>1. effective[a] \in Before(effective[b])
    BY <1>1, <1>3, <1>5 DEF Before
  <2>2. PICK k \in 1..(b - 1) : effective[k] = effective[a]
    BY <1>3, <2>1 DEF TInv, IInv, OrderRespectsEdges
  <2>3. k \in 1..n
    BY <1>1, <2>2
  <2>4. k = a
    BY <1>2, <1>3, <2>2, <2>3
  <2> QED
    BY <2>2, <2>4
<1> QED
  BY <1>1, <1>4, <1>5 DEF Respected

\* It follows the requested sequence from the first place on.
LEMMA SortedIsPreferred ==
  ASSUME TInv, phase = "sorted", entries \in Seq(Builds), edges = GraphOf(entries, Enforced),
         NEW q \in Arrangements, Respected(q)
  PROVE  Prefers(effective, q)
<1> DEFINE n == Len(entries)
           T == {k \in 1..n : effective[k] # q[k]}
<1>1. /\ n \in Nat /\ DOMAIN entries = 1..n /\ Entries = 1..n
      /\ \A i, j \in 1..n : j \in edges[i] <=> <<entries[i], entries[j]>> \in Enforced
  BY GraphIs DEF Entries
<1>2. /\ q \in [1..n -> 1..n] /\ \A i, j \in 1..n : q[i] = q[j] => i = j
      /\ \A j \in 1..n : \E k \in 1..n : q[k] = j
  BY ArrangementIs
<1>3. effective \in [1..n -> 1..n]
  BY SortedIs, ArrangementIs
<1> HIDE DEF n
<1> SUFFICES ASSUME effective # q PROVE Prefers(effective, q)
  BY DEF Prefers
<1>4. T # {} /\ T \subseteq Nat
  <2>1. T \subseteq Nat
    BY <1>1
  <2>2. ASSUME \A k \in 1..n : effective[k] = q[k] PROVE FALSE
    <3>1. effective = [k \in 1..n |-> effective[k]] /\ q = [k \in 1..n |-> q[k]]
      BY <1>2, <1>3
    <3> QED
      BY <2>2, <3>1
  <2> QED
    BY <2>1, <2>2
<1>5. PICK k \in T : \A m \in T : k <= m
  BY <1>4, SmallestIsIn
<1>6. k \in 1..n /\ \A m \in 1..(k - 1) : m \in 1..n /\ effective[m] = q[m]
  BY <1>1, <1>5
<1>7. q[k] \in Entries /\ q[k] \notin Earlier(k)
  <2>1. ASSUME NEW m \in 1..(k - 1) PROVE effective[m] # q[k]
    <3>1. m \in 1..n /\ m # k /\ effective[m] = q[m]
      BY <1>1, <1>6
    <3> QED
      BY <1>2, <1>6, <3>1
  <2> QED
    BY <1>1, <1>2, <1>6, <2>1 DEF Earlier
<1>8. Before(q[k]) \subseteq Earlier(k)
  <2>1. ASSUME NEW i \in Before(q[k]) PROVE i \in Earlier(k)
    <3>1. i \in 1..n /\ <<entries[i], entries[q[k]]>> \in Enforced
      BY <1>1, <1>2, <1>6, <2>1 DEF Before
    <3>2. PICK a \in 1..n : q[a] = i
      BY <1>2, <3>1
    <3>3. a < k
      BY <1>1, <1>6, <3>1, <3>2 DEF Respected
    <3>4. a \in 1..(k - 1)
      BY <1>1, <1>6, <3>3
    <3> QED
      BY <1>6, <3>2, <3>4 DEF Earlier
  <2> QED
    BY <2>1
<1>9. effective[k] <= q[k]
  BY <1>3, <1>6, <1>7, <1>8 DEF TInv, SortInv, Greedy
<1>10. effective[k] < q[k]
  BY <1>1, <1>2, <1>3, <1>5, <1>6, <1>9
<1> QED
  BY <1>3, <1>6, <1>10 DEF Prefers

\* A sequence no edge goes against is left as it is.
LEMMA FollowedIsKept ==
  ASSUME TInv, phase = "sorted", entries \in Seq(Builds), edges = GraphOf(entries, Enforced),
         Follows(entries)
  PROVE  \A k \in DOMAIN entries : effective[k] = k
<1> DEFINE n == Len(entries)
           q == [k \in 1..n |-> k]
           T == {k \in 1..n : effective[k] # k}
<1>1. /\ n \in Nat /\ DOMAIN entries = 1..n
  BY GraphIs
<1>2. /\ effective \in [1..n -> 1..n]
      /\ \A i, j \in 1..n : effective[i] = effective[j] => i = j
  BY SortedIs, ArrangementIs
<1>3. q \in Arrangements /\ Respected(q)
  BY <1>1 DEF Arrangements, Respected, Follows
<1>4. Prefers(effective, q)
  BY <1>3, SortedIsPreferred
<1> HIDE DEF n
<1>5. SUFFICES ASSUME effective # q PROVE FALSE
  BY <1>1
<1>6. PICK k \in 1..n : effective[k] < k /\ \A m \in 1..(k - 1) : effective[m] = m
  <2>1. PICK k \in DOMAIN effective : effective[k] < q[k] /\ \A m \in 1..(k - 1) : effective[m] = q[m]
    BY <1>4, <1>5 DEF Prefers
  <2>2. k \in 1..n /\ \A m \in 1..(k - 1) : m \in 1..n
    BY <1>1, <1>2, <2>1
  <2> QED
    BY <2>1, <2>2
<1>7. effective[k] \in 1..(k - 1) /\ effective[k] \in 1..n
  BY <1>1, <1>2, <1>6
<1>8. effective[effective[k]] = effective[k]
  BY <1>6, <1>7
<1>9. effective[k] = k
  BY <1>2, <1>7, <1>8
<1> QED
  BY <1>1, <1>6, <1>9

\* Along a cycle no positions increase.
LEMMA NoCycleAlong ==
  ASSUME IInv, phase = "cycle", NEW pos \in [Entries -> Nat],
         \A i \in Entries : \A j \in edges[i] : pos[i] < pos[j]
  PROVE  FALSE
<1> DEFINE T == {pos[cycle[k]] : k \in 1..Len(cycle)}
<1>1. /\ cycle \in Seq(Entries) /\ Len(cycle) \in Nat /\ Len(cycle) > 1
      /\ cycle[1] = cycle[Len(cycle)]
      /\ \A k \in 1..(Len(cycle) - 1) : cycle[k + 1] \in edges[cycle[k]]
  BY DEF IInv, Searched, CycleIsReal
<1>2. T \subseteq Nat /\ T # {}
  BY <1>1
<1>3. PICK t \in T : \A u \in T : t <= u
  BY <1>2, SmallestIsIn
<1>4. PICK k \in 2..Len(cycle) : t = pos[cycle[k]]
  <2>1. PICK k \in 1..Len(cycle) : t = pos[cycle[k]]
    BY <1>3
  <2>2. CASE k = 1
    BY <1>1, <2>1, <2>2
  <2>3. CASE k # 1
    BY <1>1, <2>1, <2>3
  <2> QED
    BY <2>2, <2>3
<1>5. k - 1 \in 1..(Len(cycle) - 1) /\ k - 1 \in 1..Len(cycle) /\ (k - 1) + 1 = k
  BY <1>1, <1>4
<1>6. cycle[k] \in edges[cycle[k - 1]] /\ cycle[k - 1] \in Entries
  BY <1>1, <1>5
<1>7. pos[cycle[k - 1]] < t /\ pos[cycle[k - 1]] \in T
  BY <1>4, <1>5, <1>6
<1>8. t <= pos[cycle[k - 1]]
  BY <1>3, <1>7
<1>9. t \in Nat /\ pos[cycle[k - 1]] \in Nat
  BY <1>2, <1>3, <1>7
<1> QED
  BY <1>7, <1>8, <1>9

LEMMA FollowedHasNoCycle ==
  ASSUME IInv, entries \in Seq(Builds), edges = GraphOf(entries, Enforced), Follows(entries)
  PROVE  phase # "cycle"
<1>1. /\ Len(entries) \in Nat /\ DOMAIN entries = 1..Len(entries) /\ Entries = 1..Len(entries)
      /\ \A i, j \in 1..Len(entries) : j \in edges[i] <=> <<entries[i], entries[j]>> \in Enforced
      /\ \A i \in 1..Len(entries) : edges[i] \subseteq 1..Len(entries)
  BY GraphIs DEF Entries
<1> DEFINE pos == [i \in Entries |-> i]
<1>2. \A i \in Entries : \A j \in edges[i] : i < j /\ j \in Entries
  BY <1>1 DEF Follows
<1>3. pos \in [Entries -> Nat] /\ \A i \in Entries : \A j \in edges[i] : pos[i] < pos[j]
  BY <1>1, <1>2
<1> QED
  BY <1>3, NoCycleAlong

LEMMA CycleHasNoOrder ==
  ASSUME IInv, phase = "cycle", entries \in Seq(Builds), Selectable(entries),
         NEW L \in SUBSET Enforced, edges = GraphOf(entries, L)
  PROVE  Orders = {}
<1> SUFFICES ASSUME NEW q \in Orders PROVE FALSE
  OBVIOUS
<1>1. /\ Len(entries) \in Nat /\ DOMAIN entries = 1..Len(entries) /\ Entries = 1..Len(entries)
      /\ \A i, j \in 1..Len(entries) : j \in edges[i] <=> <<entries[i], entries[j]>> \in L
      /\ \A i \in 1..Len(entries) : edges[i] \subseteq 1..Len(entries)
  BY GraphIs DEF Entries
<1>2. Respected(q)
  BY OrdersRespect
<1>3. \A j \in 1..Len(entries) : \E k \in 1..Len(entries) : q[k] = j
  BY ArrangementIs DEF Orders
<1> DEFINE pos == [i \in Entries |-> CHOOSE k \in 1..Len(entries) : q[k] = i]
<1>4. \A i \in Entries : pos[i] \in 1..Len(entries) /\ q[pos[i]] = i
  BY <1>1, <1>3
<1>5. pos \in [Entries -> Nat]
  BY <1>1, <1>4
<1> HIDE DEF pos
<1>6. ASSUME NEW i \in Entries, NEW j \in edges[i] PROVE pos[i] < pos[j]
  <2>1. j \in Entries /\ <<entries[i], entries[j]>> \in Enforced
    BY <1>1
  <2> QED
    BY <1>1, <1>2, <1>4, <2>1 DEF Respected
<1> QED
  BY <1>5, <1>6, NoCycleAlong

(***************************************************************************)
(* The steps of the resolver keep RInv.                                    *)
(***************************************************************************)
\* What an ordered selection is.
LEMMA OrderedIs ==
  ASSUME RInv, stage = "ordered"
  PROVE  /\ entries \in Seq(Builds) /\ Selectable(entries) /\ NeedsMet(entries) /\ RequirementsMet(entries)
         /\ phase = "sorted" /\ edges = GraphOf(entries, Enforced)
         /\ effective \in Arrangements /\ Respected(effective)
         /\ result[part] = [k \in DOMAIN entries |-> entries[effective[k]]]
         /\ DOMAIN effective = DOMAIN entries
<1>1. /\ entries \in Seq(Builds) /\ Selectable(entries) /\ NeedsMet(entries) /\ RequirementsMet(entries)
      /\ phase = "sorted" /\ edges = GraphOf(entries, Enforced)
  BY EntriesAre DEF RInv, GraphInv
<1>2. effective \in Arrangements /\ Respected(effective)
  BY <1>1, SortedIs DEF RInv
<1>3. DOMAIN effective = DOMAIN entries
  BY <1>1, <1>2, ArrangementIs
<1> QED
  BY <1>1, <1>2, <1>3 DEF RInv, ResultInv

LEMMA OrderedIsSound ==
  ASSUME RInv, stage = "ordered"
  PROVE  Sound(result[part]) /\ Elements(result[part]) = Elements(entries)
<1> DEFINE n == Len(entries)
           q == result[part]
<1>1. /\ n \in Nat /\ DOMAIN entries = 1..n /\ DOMAIN effective = 1..n
      /\ effective \in [1..n -> 1..n]
      /\ \A i, j \in 1..n : effective[i] = effective[j] => i = j
      /\ \A j \in 1..n : \E k \in 1..n : effective[k] = j
  BY OrderedIs, ArrangementIs
<1>2. q = [k \in 1..n |-> entries[effective[k]]] /\ entries \in Seq(Builds)
  BY <1>1, OrderedIs
<1> HIDE DEF n, q
<1>3. q \in Seq(Builds) /\ Len(q) = n /\ DOMAIN q = 1..n
  <2>1. \A k \in 1..n : entries[effective[k]] \in Builds
    BY <1>1, <1>2
  <2> QED
    BY <1>1, <1>2, <2>1
<1>4. Elements(q) = Elements(entries)
  BY <1>1, <1>2 DEF Elements
<1>5. Selectable(q)
  <2>1. Len(q) <= MaxEntries
    BY <1>3, OrderedIs DEF Selectable, n
  <2>2. \A i, j \in DOMAIN q : ModOf[q[i]] = ModOf[q[j]] => i = j
    <3>1. ASSUME NEW i \in 1..n, NEW j \in 1..n, ModOf[q[i]] = ModOf[q[j]] PROVE i = j
      <4>1. effective[i] = effective[j]
        <5>1. effective[i] \in DOMAIN entries /\ effective[j] \in DOMAIN entries
          BY <1>1
        <5>2. ModOf[entries[effective[i]]] = ModOf[entries[effective[j]]]
          BY <1>2, <3>1
        <5> QED
          BY <5>1, <5>2, OrderedIs DEF Selectable
      <4> QED
        BY <1>1, <4>1
    <3> QED
      BY <1>3, <3>1
  <2> QED
    BY <1>4, <2>1, <2>2, OrderedIs DEF Selectable
<1>6. NeedsMet(q) /\ RequirementsMet(q)
  BY <1>4, OrderedIs DEF NeedsMet, RequirementsMet
<1>7. Follows(q)
  BY <1>1, <1>2, <1>3, OrderedIs DEF Respected, Follows
<1> QED
  BY <1>3, <1>4, <1>5, <1>6, <1>7 DEF Sound, q

LEMMA PartIsKept ==
  ASSUME RInv, stage = "ordered", part # "mixed"
  PROVE  result[part] = entries
<1>1. Follows(entries)
  BY EntriesSound DEF RInv, Sound
<1>2. \A k \in DOMAIN entries : effective[k] = k
  BY <1>1, OrderedIs, FollowedIsKept DEF RInv
<1> QED
  BY <1>2, OrderedIs

LEMMA DocumentInOrder ==
  ASSUME RInv, part = "local"
  PROVE  InOrder(ActiveMods)
<1> DEFINE mixed == result.mixed
           order == Only(mixed, Builds \ Content)
<1>1. Sound(mixed) /\ mixed \in Seq(Builds)
  BY DEF RInv, EntriesInv, Sound
<1>2. Elements(result.registry) = Elements(mixed) \cap Releases
  BY <1>1, OnlyKeeps DEF RInv, EntriesInv
<1> HIDE DEF mixed
<1>3. /\ order \in Seq(Builds) /\ Elements(order) = Elements(mixed) \cap (Builds \ Content)
      /\ \E h \in [DOMAIN order -> DOMAIN mixed] :
           /\ \A a \in DOMAIN order : order[a] = mixed[h[a]]
           /\ \A a, b \in DOMAIN order : a < b <=> h[a] < h[b]
  BY <1>1, OnlyKeeps
<1>4. ActiveMods = [k \in DOMAIN order |-> [build |-> order[k], requires |-> Requires(order[k])]]
  BY DEF ActiveMods, mixed
<1> HIDE DEF order
<1>5. ASSUME NEW k \in DOMAIN order, NEW b \in Requires(order[k])
      PROVE  \E j \in 1..(k - 1) : order[j] = b
  <2>0. order[k] \in Elements(mixed) /\ order[k] \in Builds
    BY <1>3 DEF Elements
  <2>1. b \in Elements(mixed) \cap (Builds \ Content) /\ <<b, order[k]>> \in Enforced
    <3>1. CASE order[k] \in Locals
      <4>1. b \in Declared("requires", order[k]) /\ b \in Locals
        BY <1>5, <3>1, Declarations DEF Requires, RInv
      <4>2. b \in Elements(mixed)
        BY <1>1, <2>0, <3>1, <4>1 DEF Sound, RequirementsMet
      <4>3. <<b, order[k]>> \in LocalEdges
        BY <3>1, <4>1 DEF LocalEdges
      <4> QED
        BY <4>1, <4>2, <4>3 DEF Enforced, Builds
    <3>2. CASE order[k] \notin Locals
      <4>1. /\ b \in Elements(result.registry) \ Content
            /\ ModOf[b] \in {n.mod : n \in Needs(order[k])} /\ order[k] \in Releases
        BY <1>5, <2>0, <3>2 DEF Requires, Builds
      <4>2. <<b, order[k]>> \in RegistryEdges
        BY <1>2, <4>1 DEF RegistryEdges
      <4> QED
        BY <1>2, <4>1, <4>2 DEF Enforced, Builds
    <3> QED
      BY <3>1, <3>2
  <2>2. PICK j \in DOMAIN order : order[j] = b
    BY <1>3, <2>1 DEF Elements
  <2>3. PICK h \in [DOMAIN order -> DOMAIN mixed] :
           /\ \A a \in DOMAIN order : order[a] = mixed[h[a]]
           /\ \A a, c \in DOMAIN order : a < c <=> h[a] < h[c]
    BY <1>3
  <2>4. h[j] < h[k]
    BY <1>1, <2>1, <2>2, <2>3 DEF Sound, Follows
  <2>5. j < k
    BY <2>3, <2>4
  <2>6. j \in 1..(k - 1)
    BY <1>3, <2>5
  <2> QED
    BY <2>2, <2>6
<1>6. ASSUME NEW k \in DOMAIN ActiveMods, NEW b \in ActiveMods[k].requires
      PROVE  b \in {ActiveMods[j].build : j \in 1..(k - 1)}
  <2>1. k \in DOMAIN order /\ b \in Requires(order[k])
    BY <1>4, <1>6
  <2>2. PICK j \in 1..(k - 1) : order[j] = b
    BY <1>5, <2>1
  <2>3. j \in DOMAIN order
    BY <1>3, <2>1, <2>2
  <2> QED
    BY <1>4, <2>2, <2>3
<1> QED
  BY <1>6 DEF InOrder

-----------------------------------------------------------------------------
LEMMA MixedFrame ==
  ASSUME given' = given, result'.mixed = result.mixed
  PROVE  /\ Sound(result.mixed)' <=> Sound(result.mixed)
         /\ Elements(result.mixed)' = Elements(result.mixed)
<1>1. Selectable(result.mixed)' <=> Selectable(result.mixed)
  BY DEF Selectable, Elements
<1>2. NeedsMet(result.mixed)' <=> NeedsMet(result.mixed)
  BY DEF NeedsMet, Needs, Elements, Matches, Exact
<1>3. RequirementsMet(result.mixed)' <=> RequirementsMet(result.mixed)
  BY DEF RequirementsMet, Declared, Elements
<1>4. Enforced' = Enforced
  BY DEF Enforced, RegistryEdges, LocalEdges, Needs, Declared
<1>5. Follows(result.mixed)' <=> Follows(result.mixed)
  BY <1>4 DEF Follows
<1>6. (result.mixed \in Seq(Builds))' <=> result.mixed \in Seq(Builds)
  BY DEF Builds
<1>7. Sound(result.mixed)' <=> Sound(result.mixed)
  BY <1>1, <1>2, <1>3, <1>5, <1>6 DEF Sound
<1> QED
  BY <1>7 DEF Elements

LEMMA EntriesFrame ==
  ASSUME EntriesInv, UNCHANGED <<given, part, entries, result>>
  PROVE  EntriesInv'
<1>1. /\ Sound(result.mixed)' <=> Sound(result.mixed)
      /\ Elements(result.mixed)' = Elements(result.mixed)
  BY MixedFrame
<1>2. Elements(given.requested)' = Elements(given.requested)
  BY DEF Elements
<1> QED
  BY <1>1, <1>2 DEF EntriesInv

LEMMA SelectionFrame ==
  ASSUME UNCHANGED <<given, entries>>
  PROVE  /\ Selectable(entries)' <=> Selectable(entries)
         /\ NeedsMet(entries)' <=> NeedsMet(entries)
         /\ RequirementsMet(entries)' <=> RequirementsMet(entries)
         /\ GraphOf(entries, Enforced)' = GraphOf(entries, Enforced)
         /\ GraphOf(entries, RegistryEdges)' = GraphOf(entries, RegistryEdges)
<1>1. Selectable(entries)' <=> Selectable(entries)
  BY DEF Selectable, Elements
<1>2. NeedsMet(entries)' <=> NeedsMet(entries)
  BY DEF NeedsMet, Needs, Elements, Matches, Exact
<1>3. RequirementsMet(entries)' <=> RequirementsMet(entries)
  BY DEF RequirementsMet, Declared, Elements
<1>4. Enforced' = Enforced /\ RegistryEdges' = RegistryEdges
  BY DEF Enforced, RegistryEdges, LocalEdges, Needs, Declared
<1>5. GraphOf(entries, Enforced)' = GraphOf(entries, Enforced)
  BY <1>4 DEF GraphOf
<1>6. GraphOf(entries, RegistryEdges)' = GraphOf(entries, RegistryEdges)
  BY <1>4 DEF GraphOf
<1> QED
  BY <1>1, <1>2, <1>3, <1>5, <1>6

LEMMA TraversalStart ==
  ASSUME NEW q \in Seq(Builds), NEW L, Start(GraphOf(q, L))
  PROVE  TInv'
<1>1. GraphOf(q, L) \in Graphs(Len(q)) /\ Len(q) \in Nat
  BY GraphIs
<1> QED
  BY <1>1, GraphStarts, InvStarts DEF TInv

LEMMA ResolverInitially == ResolverInit => RInv
<1> SUFFICES ASSUME ResolverInit PROVE RInv
  OBVIOUS
<1>1. TInv
  BY Initially, InvInitially DEF ResolverInit, TInv
<1>2. GivenInv /\ EntriesInv
  BY DEF ResolverInit, GivenInv, EntriesInv
<1>3. GraphInv /\ ResultInv /\ DocumentInv
  BY DEF ResolverInit, GraphInv, ResultInv, DocumentInv
<1> QED
  BY <1>1, <1>2, <1>3 DEF RInv

\* Only the whole selection is ever refused.
LEMMA RefusedIsMixed ==
  ASSUME RInv, RefuseSelection \/ RefuseRequirement \/ RefuseCycle
  PROVE  part = "mixed"
<1> SUFFICES ASSUME part # "mixed" PROVE FALSE
  OBVIOUS
<1>1. Sound(entries) /\ entries \in Seq(Builds)
  BY EntriesSound DEF RInv, Sound
<1>2. CASE RefuseSelection
  BY <1>1, <1>2 DEF RefuseSelection, DeclarationsMet, Sound
<1>3. CASE RefuseRequirement
  BY <1>3 DEF RefuseRequirement, RInv, GraphInv
<1>4. CASE RefuseCycle
  <2>1. edges = GraphOf(entries, Enforced) /\ phase = "cycle"
    BY <1>4 DEF RefuseCycle, RInv, GraphInv
  <2> QED
    BY <1>1, <2>1, FollowedHasNoCycle DEF RInv, TInv, Sound
<1> QED
  BY <1>2, <1>3, <1>4

LEMMA ResolveStep ==
  ASSUME RInv, Resolve
  PROVE  RInv'
<1>0. GivenInv'
  BY DEF Resolve, RefuseSelection, LinkReleases, LinkLocals, LinkBoth, RefuseRequirement,
    RefuseCycle, Search, Resolved, NextPart, WriteDocument, Refuse, resolver, RInv, GivenInv
<1>t. entries \in Seq(Builds)
  BY EntriesAre DEF RInv
<1>1. CASE RefuseSelection \/ RefuseRequirement \/ RefuseCycle
  <2>1. part = "mixed"
    BY <1>1, RefusedIsMixed
  <2>2. stage' = "refused" /\ UNCHANGED <<given, part, entries, linked, result, notes, document, traversal>>
    BY <1>1 DEF RefuseSelection, RefuseRequirement, RefuseCycle, Refuse
  <2>3. TInv' /\ EntriesInv'
    BY <2>2, TraversalStep, EntriesFrame DEF RInv
  <2>4. GraphInv' /\ ResultInv' /\ DocumentInv'
    BY <2>1, <2>2 DEF GraphInv, ResultInv, DocumentInv
  <2> QED
    BY <1>0, <2>3, <2>4 DEF RInv
<1>2. CASE LinkReleases
  <2>1. /\ stage' = "resolving" /\ part # "local" /\ Selectable(entries) /\ NeedsMet(entries)
        /\ linked' = (part = "registry") /\ UNCHANGED <<given, part, entries, result>>
        /\ Start(GraphOf(entries, RegistryEdges))
    BY <1>2 DEF LinkReleases, DeclarationsMet
  <2>2. TInv' /\ EntriesInv'
    BY <1>t, <2>1, TraversalStart, EntriesFrame DEF RInv
  <2>3. edges' = GraphOf(entries, RegistryEdges) /\ phase' = "walk"
    BY <2>1 DEF Start
  <2>4. part = "registry" => RequirementsMet(entries) /\ edges' = GraphOf(entries, Enforced)
    BY <2>3, PartDeclares DEF RInv
  <2>5. GraphInv'
    BY <2>1, <2>3, <2>4, SelectionFrame DEF GraphInv, RInv, EntriesInv
  <2>6. ResultInv' /\ DocumentInv'
    BY <2>1 DEF ResultInv, DocumentInv
  <2> QED
    BY <1>0, <2>2, <2>5, <2>6 DEF RInv
<1>3. CASE LinkLocals
  <2>1. /\ stage' = "resolving" /\ part = "local" /\ Selectable(entries) /\ RequirementsMet(entries)
        /\ linked' = TRUE /\ UNCHANGED <<given, part, entries, result>>
        /\ Start(GraphOf(entries, LocalEdges))
    BY <1>3 DEF LinkLocals, DeclarationsMet
  <2>2. TInv' /\ EntriesInv'
    BY <1>t, <2>1, TraversalStart, EntriesFrame DEF RInv
  <2>3. edges' = GraphOf(entries, LocalEdges) /\ phase' = "walk"
    BY <2>1 DEF Start
  <2>4. NeedsMet(entries) /\ edges' = GraphOf(entries, Enforced)
    BY <2>1, <2>3, PartDeclares DEF RInv
  <2>5. GraphInv'
    BY <2>1, <2>3, <2>4, SelectionFrame DEF GraphInv
  <2>6. ResultInv' /\ DocumentInv'
    BY <2>1 DEF ResultInv, DocumentInv
  <2> QED
    BY <1>0, <2>2, <2>5, <2>6 DEF RInv
<1>4. CASE LinkBoth
  <2>1. /\ stage = "resolving" /\ RequirementsMet(entries) /\ linked' = TRUE
        /\ UNCHANGED <<given, stage, part, entries, result>>
        /\ Start(GraphOf(entries, Enforced))
    BY <1>4 DEF LinkBoth, Enforced
  <2>2. TInv' /\ EntriesInv'
    BY <1>t, <2>1, TraversalStart, EntriesFrame DEF RInv
  <2>3. edges' = GraphOf(entries, Enforced) /\ phase' = "walk"
    BY <2>1 DEF Start
  <2>5. GraphInv'
    BY <2>1, <2>3, SelectionFrame DEF GraphInv, RInv
  <2>6. ResultInv' /\ DocumentInv'
    BY <2>1 DEF ResultInv, DocumentInv
  <2> QED
    BY <1>0, <2>2, <2>5, <2>6 DEF RInv
<1>5. CASE Search
  <2>1. /\ stage = "resolving" /\ Traverse /\ UNCHANGED <<given, stage, part, entries, linked, result>>
        /\ linked \/ phase = "walk"
    BY <1>5 DEF Search, resolver
  <2>2. TInv' /\ EntriesInv'
    BY <2>1, TraversalStep, EntriesFrame DEF RInv
  <2>3. /\ edges' = edges /\ phase' # "idle"
        /\ phase = "walk" => phase' \in {"walk", "cycle", "acyclic"}
    BY <2>1 DEF Traverse, Root, Visit, Leave, NoCycle, BeginSort, Take, Sorted, Descend, Pass, CloseCycle
  <2>5. GraphInv'
    BY <2>1, <2>3, SelectionFrame DEF GraphInv, RInv
  <2>6. ResultInv' /\ DocumentInv'
    BY <2>1 DEF ResultInv, DocumentInv
  <2> QED
    BY <1>0, <2>2, <2>5, <2>6 DEF RInv
<1>6. CASE Resolved
  <2>1. /\ stage = "resolving" /\ phase = "sorted" /\ stage' = "ordered"
        /\ result' = [result EXCEPT ![part] = [k \in DOMAIN effective |-> entries[effective[k]]]]
        /\ notes' = IF part = "mixed" THEN [required |-> Required, preferred |-> Preferred] ELSE notes
        /\ UNCHANGED <<given, part, entries, linked, traversal>>
    BY <1>6 DEF Resolved
  <2>2. TInv'
    BY <2>1, TraversalStep DEF RInv
  <2>3. UNCHANGED <<phase, edges, effective>>
    BY <2>1 DEF traversal, sorting
  <2>4. /\ DOMAIN result' = {"mixed", "registry", "local"}
        /\ result'[part] = [k \in DOMAIN effective |-> entries[effective[k]]]
        /\ part # "mixed" => result'.mixed = result.mixed
        /\ part = "local" => result'.registry = result.registry
    BY <2>1 DEF RInv, EntriesInv
  <2>5. EntriesInv'
    <3>1. part # "mixed" => /\ Sound(result.mixed)' <=> Sound(result.mixed)
                            /\ Elements(result.mixed)' = Elements(result.mixed)
      BY <2>1, <2>4, MixedFrame
    <3>2. Elements(given.requested)' = Elements(given.requested)
      BY <2>1 DEF Elements
    <3> QED
      BY <2>1, <2>4, <3>1, <3>2 DEF RInv, EntriesInv
  <2>6. GraphInv'
    BY <2>1, <2>3, SelectionFrame DEF GraphInv, RInv
  <2>7. ResultInv'
    BY <2>1, <2>3, <2>4 DEF ResultInv, Required, Entries
  <2>8. DocumentInv'
    BY <2>1 DEF DocumentInv
  <2> QED
    BY <1>0, <2>2, <2>5, <2>6, <2>7, <2>8 DEF RInv
<1>7. CASE NextPart
  <2>1. /\ stage = "ordered" /\ part # "local" /\ UNCHANGED <<given, result, traversal>>
        /\ stage' \in {"clash", "selection"}
        /\ \/ UNCHANGED <<part, entries>>
           \/ /\ part' = IF part = "mixed" THEN "registry" ELSE "local"
              /\ entries' = Only(result.mixed, IF part = "mixed" THEN Releases ELSE Locals)
    BY <1>7 DEF NextPart
  <2>2. TInv'
    BY <2>1, TraversalStep DEF RInv
  <2>3. EntriesInv'
    <3>1. CASE UNCHANGED <<part, entries>>
      BY <2>1, <3>1, EntriesFrame DEF RInv
    <3>2. CASE /\ part' = IF part = "mixed" THEN "registry" ELSE "local"
               /\ entries' = Only(result.mixed, IF part = "mixed" THEN Releases ELSE Locals)
      <4>1. Sound(result.mixed) /\ Elements(result.mixed) = Elements(given.requested)
        BY <2>1, OrderedIsSound DEF RInv, EntriesInv
      <4>2. part = "registry" => result.registry = Only(result.mixed, Releases)
        BY <2>1, PartIsKept DEF RInv, EntriesInv
      <4>3. Sound(result.mixed)' /\ Elements(result.mixed)' = Elements(given.requested)'
        BY <2>1, <4>1, MixedFrame DEF Elements
      <4>4. part' # "mixed" /\ part' \in {"registry", "local"} /\ result' = result
        BY <2>1, <3>2 DEF RInv, EntriesInv
      <4>5. part' = "registry" => entries' = Only(result'.mixed, Releases)
        BY <3>2, <4>4
      <4>6. part' = "local" => /\ entries' = Only(result'.mixed, Locals)
                               /\ result'.registry = Only(result'.mixed, Releases)
        BY <2>1, <3>2, <4>2, <4>4 DEF RInv, EntriesInv
      <4> QED
        BY <4>3, <4>4, <4>5, <4>6 DEF RInv, EntriesInv
    <3> QED
      BY <2>1, <3>1, <3>2
  <2>4. GraphInv' /\ ResultInv' /\ DocumentInv'
    BY <2>1 DEF GraphInv, ResultInv, DocumentInv
  <2> QED
    BY <1>0, <2>2, <2>3, <2>4 DEF RInv
<1>8. CASE WriteDocument
  <2>1. /\ stage = "ordered" /\ part = "local" /\ stage' = "document" /\ document' = ActiveMods
        /\ UNCHANGED <<given, part, entries, linked, result, notes, traversal>>
    BY <1>8, DocumentInOrder DEF WriteDocument
  <2>2. TInv' /\ EntriesInv'
    BY <2>1, TraversalStep, EntriesFrame DEF RInv
  <2>3. ActiveMods' = ActiveMods
    BY <2>1 DEF ActiveMods, Requires, Needs, Declared, Elements, Only
  <2>4. GraphInv' /\ ResultInv' /\ DocumentInv'
    BY <2>1, <2>3 DEF GraphInv, ResultInv, DocumentInv
  <2> QED
    BY <1>0, <2>2, <2>4 DEF RInv
<1> QED
  BY <1>1, <1>2, <1>3, <1>4, <1>5, <1>6, <1>7, <1>8 DEF Resolve

LEMMA ResolverFrame ==
  ASSUME RInv, UNCHANGED <<resolver, traversal>>
  PROVE  RInv'
<1>1. UNCHANGED <<given, stage, part, entries, linked, result, notes, document, traversal>>
  BY DEF resolver
<1>2. UNCHANGED <<phase, edges, effective>>
  BY <1>1 DEF traversal, sorting
<1>3. TInv' /\ EntriesInv' /\ GivenInv'
  BY <1>1, TraversalStep, EntriesFrame DEF RInv, GivenInv
<1>4. GraphInv'
  BY <1>1, <1>2, SelectionFrame DEF GraphInv, RInv
<1>5. ResultInv'
  BY <1>1, <1>2 DEF ResultInv, RInv, Required, Entries
<1>6. ActiveMods' = ActiveMods
  BY <1>1 DEF ActiveMods, Requires, Needs, Declared, Elements, Only
<1>7. DocumentInv'
  BY <1>1, <1>6 DEF DocumentInv, RInv
<1> QED
  BY <1>3, <1>4, <1>5, <1>7 DEF RInv

LEMMA ResolverInvariance == Spec => []RInv
<1>1. Init => RInv
  BY ResolverInitially DEF Init
<1>2. RInv /\ [Next]_vars => RInv'
  <2> SUFFICES ASSUME RInv, [Next]_vars PROVE RInv'
    OBVIOUS
  <2>1. CASE Resolve
    BY <2>1, ResolveStep
  <2>2. CASE UNCHANGED <<resolver, traversal>>
    BY <2>2, ResolverFrame
  <2> QED
    BY <2>1, <2>2 DEF Next, vars
<1> QED
  BY <1>1, <1>2, PTL DEF Spec

LEMMA PartsAre == RInv => PartsResolve
<1> SUFFICES ASSUME RInv PROVE PartsResolve
  OBVIOUS
<1>1. stage = "refused" => part = "mixed"
  BY DEF RInv, DocumentInv
<1>2. ASSUME stage = "ordered", part = "mixed" PROVE result[part] = Only(result.mixed, Builds)
  <2>1. result.mixed \in Seq(Builds)
    BY <1>2, OrderedIsSound DEF Sound
  <2> QED
    BY <1>2, <2>1, OnlyAll
<1>3. ASSUME stage = "ordered", part = "registry" PROVE result[part] = Only(result.mixed, Releases)
  BY <1>3, PartIsKept DEF RInv, EntriesInv
<1>4. ASSUME stage = "ordered", part = "local" PROVE result[part] = Only(result.mixed, Locals)
  BY <1>4, PartIsKept DEF RInv, EntriesInv
<1>5. part \in {"mixed", "registry", "local"}
  BY DEF RInv, EntriesInv
<1> QED
  BY <1>1, <1>2, <1>3, <1>4, <1>5 DEF PartsResolve

LEMMA OrderIs == RInv => OrderIsPreferred
<1> SUFFICES ASSUME RInv, stage = "ordered"
             PROVE  effective \in Orders /\ \A q \in Orders : Prefers(effective, q)
  BY DEF OrderIsPreferred
<1>1. effective \in Orders
  BY OrderedIs, RespectedKeeps DEF RInv
<1>2. ASSUME NEW q \in Orders PROVE Prefers(effective, q)
  <2>1. q \in Arrangements /\ Respected(q)
    BY OrderedIs, OrdersRespect DEF Orders
  <2> QED
    BY <2>1, OrderedIs, SortedIsPreferred DEF RInv
<1> QED
  BY <1>1, <1>2

\* A reordering goes along an edge the requested sequence is against, and the other way round.
LEMMA AdjustmentsAre == RInv => AdjustmentsExplain
<1> SUFFICES ASSUME RInv, stage = "ordered", part = "mixed"
             PROVE  notes.required = {} <=> result.mixed = given.requested
  BY DEF AdjustmentsExplain
<1> DEFINE n == Len(entries)
<1>1. /\ entries = given.requested /\ notes.required = Required
      /\ entries \in Seq(Builds) /\ edges = GraphOf(entries, Enforced)
      /\ result.mixed = [k \in DOMAIN entries |-> entries[effective[k]]]
  BY OrderedIs DEF RInv, EntriesInv, ResultInv
<1>2. /\ n \in Nat /\ DOMAIN entries = 1..n /\ Entries = 1..n
      /\ \A i, j \in 1..n : j \in edges[i] <=> <<entries[i], entries[j]>> \in Enforced
  BY <1>1, GraphIs, SMTT(30) DEF Entries
<1>3. /\ effective \in [1..n -> 1..n] /\ Respected(effective)
      /\ \A j \in 1..n : \E k \in 1..n : effective[k] = j
  BY OrderedIs, ArrangementIs
<1> HIDE DEF n
<1>4. ASSUME Required = {} PROVE result.mixed = entries
  <2>1. ASSUME NEW i \in 1..n, NEW j \in 1..n, <<entries[i], entries[j]>> \in Enforced PROVE i < j
    <3>1. ~(i > j)
      <4>1. <<i, j>> \notin Required
        BY <1>4
      <4> QED
        BY <1>2, <2>1, <4>1 DEF Required
    <3>2. i # j
      <4>1. PICK a \in 1..n : effective[a] = i
        BY <1>3
      <4>2. ~(a < a)
        BY <1>2
      <4> QED
        BY <1>2, <1>3, <2>1, <4>1, <4>2 DEF Respected
    <3> QED
      BY <1>2, <3>1, <3>2
  <2>2. Follows(entries)
    BY <1>2, <2>1 DEF Follows
  <2>3. \A k \in DOMAIN entries : effective[k] = k
    BY <2>2, OrderedIs, FollowedIsKept DEF RInv
  <2> QED
    BY <1>1, <2>3
<1>5. ASSUME result.mixed = entries PROVE Required = {}
  <2>1. ASSUME NEW k \in 1..n PROVE effective[k] = k
    <3>1. entries[effective[k]] = entries[k] /\ effective[k] \in DOMAIN entries /\ k \in DOMAIN entries
      BY <1>1, <1>2, <1>3, <1>5, ZenonT(40)
    <3> QED
      BY <3>1, OrderedIs, Distinct
  <2>2. ASSUME NEW e \in Entries \X Entries, e[2] \in edges[e[1]], e[1] > e[2] PROVE FALSE
    <3>1. e[1] \in 1..n /\ e[2] \in 1..n /\ <<entries[e[1]], entries[e[2]]>> \in Enforced
      BY <1>2, <2>2
    <3>2. effective[e[1]] = e[1] /\ effective[e[2]] = e[2]
      BY <2>1, <3>1
    <3>3. e[1] < e[2]
      BY <1>2, <1>3, <3>1, <3>2 DEF Respected
    <3> QED
      BY <1>2, <2>2, <3>1, <3>3
  <2> QED
    BY <2>2 DEF Required
<1> QED
  BY <1>1, <1>4, <1>5

\* What each refusal of the whole selection says.
LEMMA CauseOfRefusal ==
  ASSUME RInv, part = "mixed",
         RefuseSelection \/ RefuseRequirement \/ RefuseCycle
  PROVE  ~Selectable(entries) \/ Orders = {}
<1> SUFFICES ASSUME Selectable(entries), NEW q \in Orders PROVE FALSE
  OBVIOUS
<1> DEFINE n == Len(entries)
           order == [k \in DOMAIN q |-> entries[q[k]]]
<1>0. entries \in Seq(Builds)
  BY EntriesAre DEF RInv
<1>1. /\ n \in Nat /\ DOMAIN entries = 1..n /\ DOMAIN q = 1..n /\ q \in [1..n -> 1..n]
      /\ \A j \in 1..n : \E k \in 1..n : q[k] = j
  BY <1>0, ArrangementIs DEF Orders
<1>2. Keeps(order)
  BY DEF Orders
<1> HIDE DEF n
<1>3. /\ DOMAIN order = 1..n
      /\ \A k \in 1..n : order[k] \in Elements(entries)
      /\ \A x \in Elements(entries) : \E k \in 1..n : order[k] = x
  <2>1. \A k \in 1..n : order[k] = entries[q[k]]
    BY <1>1
  <2>2. DOMAIN order = 1..n
    BY <1>1
  <2> HIDE DEF order
  <2> QED
    BY <1>1, <2>1, <2>2 DEF Elements
<1> HIDE DEF order
<1>4. NeedsMet(entries)
  <2>1. ASSUME NEW b \in Elements(entries) \cap Releases, NEW d \in Needs(b)
        PROVE  \E c \in Elements(entries) \cap Releases : Matches(d, c, given.label[c])
    <3>1. PICK i \in 1..n : order[i] = b
      BY <1>3, <2>1
    <3>2. PICK k \in 1..(i - 1) : order[k] \in Releases /\ Fits(d, order[k])
      BY <1>2, <1>3, <2>1, <3>1 DEF Keeps
    <3>3. k \in 1..n
      BY <1>1, <3>2
    <3>4. d \in given.needs
      BY DEF Needs
    <3>5. Matches(d, order[k], given.label[order[k]])
      BY <3>2, <3>4, MatchesFits DEF RInv
    <3> QED
      BY <1>3, <3>2, <3>3, <3>5
  <2> QED
    BY <2>1 DEF NeedsMet
<1>5. RequirementsMet(entries)
  <2>1. ASSUME NEW b \in Elements(entries) \cap Locals, NEW x \in Declared("requires", b)
        PROVE  x \in Elements(entries)
    <3>1. PICK i \in 1..n : order[i] = b
      BY <1>3, <2>1
    <3>2. PICK k \in 1..(i - 1) : order[k] = x
      BY <1>2, <1>3, <2>1, <3>1 DEF Keeps
    <3>3. k \in 1..n
      BY <1>1, <3>2
    <3> QED
      BY <1>3, <3>2, <3>3
  <2> QED
    BY <2>1 DEF RequirementsMet
<1>6. CASE RefuseSelection
  BY <1>4, <1>6 DEF RefuseSelection, DeclarationsMet
<1>7. CASE RefuseRequirement
  BY <1>5, <1>7 DEF RefuseRequirement
<1>8. CASE RefuseCycle
  <2>1. phase = "cycle" /\ \E L \in SUBSET Enforced : edges = GraphOf(entries, L)
    BY <1>8 DEF RefuseCycle, RInv, GraphInv, Enforced
  <2> QED
    BY <1>0, <2>1, CycleHasNoOrder DEF RInv, TInv
<1> QED
  BY <1>6, <1>7, <1>8

LEMMA OrdersFrame ==
  ASSUME UNCHANGED <<given, entries>>
  PROVE  Orders' = Orders /\ (Selectable(entries)' <=> Selectable(entries))
<1>1. Arrangements' = Arrangements
  BY DEF Arrangements
<1>2. ASSUME NEW q \in Arrangements
      PROVE  Keeps([k \in DOMAIN q |-> entries[q[k]]])' <=> Keeps([k \in DOMAIN q |-> entries[q[k]]])
  BY DEF Keeps, Needs, Declared, Fits, Exact, Place
<1>3. Orders' = Orders
  BY <1>1, <1>2 DEF Orders
<1> QED
  BY <1>3, SelectionFrame

LEMMA RefusalsHaveCause == Spec => []RefusalHasCause
<1>1. Init => RefusalHasCause
  BY DEF Init, ResolverInit, RefusalHasCause
<1>2. RInv /\ RefusalHasCause /\ [Next]_vars => RefusalHasCause'
  <2> SUFFICES ASSUME RInv, RefusalHasCause, [Next]_vars,
                      stage' = "refused", part' = "mixed"
               PROVE  (~Selectable(entries) \/ Orders = {})'
    BY DEF RefusalHasCause
  <2>1. CASE stage = "refused"
    <3>1. UNCHANGED <<given, entries, part>>
      BY <2>1 DEF Next, vars, resolver, Resolve, RefuseSelection, LinkReleases, LinkLocals, LinkBoth,
        RefuseRequirement, RefuseCycle, Search, Resolved, NextPart, WriteDocument
    <3> QED
      BY <2>1, <3>1, OrdersFrame DEF RefusalHasCause
  <2>2. CASE stage # "refused"
    <3>1. RefuseSelection \/ RefuseRequirement \/ RefuseCycle
      <4>1. Resolve
        BY <2>2 DEF Next, vars, resolver
      <4>2. ~WriteDocument
        BY DocumentInOrder DEF WriteDocument
      <4> QED
        BY <2>2, <4>1, <4>2 DEF Resolve, LinkReleases, LinkLocals, LinkBoth, Search, Resolved, NextPart, resolver
    <3>2. UNCHANGED <<given, entries>>
      BY <3>1 DEF RefuseSelection, RefuseRequirement, RefuseCycle, Refuse
    <3> QED
      BY <3>1, <3>2, RefusedIsMixed, CauseOfRefusal, OrdersFrame
  <2> QED
    BY <2>1, <2>2
<1> QED
  BY <1>1, <1>2, ResolverInvariance, PTL DEF Spec

\* Whatever the entries and the rules, the answer to a requested sequence is right: the best order
\* with its adjustments, or a refusal that has a cause (ordering.rs:148-183, ordering/mixed.rs:68-124).
THEOREM SelectionsAreResolved == Spec => []SelectionIsResolved
<1>1. RInv /\ RefusalHasCause => SelectionIsResolved
  BY OrderIs, AdjustmentsAre DEF SelectionIsResolved, RInv, TInv, IInv
<1> QED
  BY <1>1, ResolverInvariance, RefusalsHaveCause, PTL

\* The releases and the local builds of a resolved selection resolve on their own, to the order
\* the window showed, and the document made of them is accepted (selection.rs:16-40).
THEOREM PartsAreResolved == Spec => []PartsResolve
BY ResolverInvariance, PartsAre, PTL

(***************************************************************************)
(* The session. The report follows the document; what waits to be shut     *)
(* down is in its order; what has been shut down comes after all that      *)
(* waits.                                                                  *)
(***************************************************************************)
\* The document once it is written: distinct mods in an order their requirements allow.
DocumentIsSound ==
  stage = "document" =>
    /\ document \in Seq([build : Builds, requires : SUBSET Builds])
    /\ \A k, m \in DOMAIN document : document[k].build = document[m].build => k = m
    /\ InOrder(document)

LoadedBefore(k) == {outcomes[j].build : j \in {m \in 1..(k - 1) : outcomes[m].outcome = "loaded"}}

SessionInv ==
  /\ session \in {"none", "verified", "prepared", "running", "ended"}
  /\ session # "none" => stage = "document"
  /\ session \in {"none", "verified"} => outcomes = << >> /\ shutdown = << >> /\ calls = << >>
  /\ outcomes \in Seq([build : Builds, outcome : Outcomes])
  /\ shutdown \in Seq(Builds) /\ calls \in Seq(Builds)

\* The report follows the document, and what a loaded mod requires was loaded before it.
ReportInv ==
  /\ outcomes # << >> => Len(outcomes) <= Len(document)
  /\ \A k \in DOMAIN outcomes : outcomes[k].build = document[k].build
  /\ \A k \in DOMAIN outcomes :
       outcomes[k].outcome = "loaded" => document[k].requires \subseteq LoadedBefore(k)

\* Every loaded mod that can be shut down waits for it or has been.
Accounted ==
  \A k \in DOMAIN outcomes :
    outcomes[k].outcome = "loaded" /\ outcomes[k].build \in Stoppable \ Overlays
    => outcomes[k].build \in Elements(shutdown) \cup Elements(calls)
\* Those that wait are of the report and in its order, those called are of the report, each once.
WaitInOrder ==
  /\ \A i \in DOMAIN shutdown : \E k \in DOMAIN outcomes : outcomes[k].build = shutdown[i]
  /\ \A i, j \in DOMAIN shutdown : i < j =>
       \A k, m \in DOMAIN outcomes :
         outcomes[k].build = shutdown[i] /\ outcomes[m].build = shutdown[j] => k < m
CalledOnce ==
  /\ \A c \in DOMAIN calls : \E k \in DOMAIN outcomes : outcomes[k].build = calls[c]
  /\ Elements(shutdown) \cap Elements(calls) = {}
  /\ \A i, j \in DOMAIN calls : calls[i] = calls[j] => i = j
\* While mods are activated no loaded one is shut down; after, those that wait precede the called.
LastFirst ==
  /\ session \notin {"running", "ended"} =>
       \A k \in DOMAIN outcomes : outcomes[k].outcome = "loaded" => outcomes[k].build \notin Elements(calls)
  /\ \A k, m \in DOMAIN outcomes :
       outcomes[k].outcome = "loaded" /\ outcomes[k].build \in Elements(calls)
       /\ outcomes[m].build \in Elements(shutdown) => m < k

StopsInv == Accounted /\ WaitInOrder /\ CalledOnce /\ LastFirst
AInv == DocumentIsSound /\ SessionInv /\ ReportInv /\ StopsInv

LEMMA WrittenIsSound ==
  ASSUME RInv, part = "local"
  PROVE  /\ ActiveMods \in Seq([build : Builds, requires : SUBSET Builds])
         /\ \A k, m \in DOMAIN ActiveMods : ActiveMods[k].build = ActiveMods[m].build => k = m
<1> DEFINE mixed == result.mixed
           order == Only(mixed, Builds \ Content)
<1>1. Sound(mixed) /\ mixed \in Seq(Builds)
  BY DEF RInv, EntriesInv, Sound
<1>2. Elements(result.registry) = Elements(mixed) \cap Releases
  BY <1>1, OnlyKeeps DEF RInv, EntriesInv
<1> HIDE DEF mixed
<1>3. /\ order \in Seq(Builds)
      /\ \E h \in [DOMAIN order -> DOMAIN mixed] :
           /\ \A a \in DOMAIN order : order[a] = mixed[h[a]]
           /\ \A a, b \in DOMAIN order : a < b <=> h[a] < h[b]
  BY <1>1, OnlyKeeps
<1>4. ActiveMods = [k \in DOMAIN order |-> [build |-> order[k], requires |-> Requires(order[k])]]
  BY DEF ActiveMods, mixed
<1> HIDE DEF order
<1>5. \A b : Requires(b) \subseteq Builds
  BY <1>2, Declarations DEF Requires, Builds, RInv
<1>6. Len(order) \in Nat /\ DOMAIN order = 1..Len(order) /\ \A k \in 1..Len(order) : order[k] \in Builds
  BY <1>3
<1>7. ActiveMods \in Seq([build : Builds, requires : SUBSET Builds])
  <2>1. \A k \in 1..Len(order) :
          [build |-> order[k], requires |-> Requires(order[k])] \in [build : Builds, requires : SUBSET Builds]
    BY <1>5, <1>6
  <2> QED
    BY <1>4, <1>6, <2>1
<1>8. ASSUME NEW k \in DOMAIN ActiveMods, NEW m \in DOMAIN ActiveMods, ActiveMods[k].build = ActiveMods[m].build
      PROVE  k = m
  <2>1. k \in DOMAIN order /\ m \in DOMAIN order /\ order[k] = order[m]
    BY <1>4, <1>8
  <2>2. PICK h \in [DOMAIN order -> DOMAIN mixed] :
           /\ \A a \in DOMAIN order : order[a] = mixed[h[a]]
           /\ \A a, b \in DOMAIN order : a < b <=> h[a] < h[b]
    BY <1>3
  <2>3. h[k] = h[m]
    BY <1>1, <2>1, <2>2, Distinct DEF Sound
  <2>4. k \in Nat /\ m \in Nat /\ h[k] \in Nat
    BY <1>1, <1>6, <2>1, <2>2
  <2>5. ~(k < m) /\ ~(m < k)
    BY <2>1, <2>2, <2>3, <2>4
  <2> QED
    BY <2>4, <2>5
<1> QED
  BY <1>7, <1>8

\* Before the document is written there is no session.
LEMMA ResolveKeepsSession ==
  ASSUME RInv, AInv, Resolve, UNCHANGED activated
  PROVE  AInv'
<1>1. stage # "document"
  BY DEF Resolve, RefuseSelection, LinkReleases, LinkLocals, LinkBoth, RefuseRequirement,
    RefuseCycle, Search, Resolved, NextPart, WriteDocument
<1>2. session = "none" /\ outcomes = << >> /\ shutdown = << >> /\ calls = << >>
  BY <1>1 DEF AInv, SessionInv
<1>3. session' = "none" /\ outcomes' = << >> /\ shutdown' = << >> /\ calls' = << >>
  BY <1>2 DEF activated
<1>4. DocumentIsSound'
  <2> SUFFICES ASSUME stage' = "document"
               PROVE  /\ document' \in Seq([build : Builds, requires : SUBSET Builds])
                      /\ \A k, m \in DOMAIN document' : document'[k].build = document'[m].build => k = m
                      /\ InOrder(document')
    BY DEF DocumentIsSound, InOrder
  <2>1. WriteDocument
    BY <1>1 DEF Resolve, RefuseSelection, LinkReleases, LinkLocals, LinkBoth, RefuseRequirement,
      RefuseCycle, Search, Resolved, NextPart, Refuse, resolver
  <2>2. part = "local" /\ InOrder(ActiveMods) /\ document' = ActiveMods
    BY <2>1, DocumentInOrder DEF WriteDocument
  <2> QED
    BY <2>2, WrittenIsSound
<1>5. SessionInv'
  BY <1>3 DEF SessionInv
<1>6. ReportInv'
  BY <1>3 DEF ReportInv
<1>7. StopsInv'
  BY <1>3 DEF StopsInv, Accounted, WaitInOrder, CalledOnce, LastFirst, Elements
<1> QED
  BY <1>4, <1>5, <1>6, <1>7 DEF AInv

LEMMA SessionFrame ==
  ASSUME AInv, UNCHANGED <<stage, document, activated>>
  PROVE  AInv'
<1>1. UNCHANGED <<stage, document, session, outcomes, shutdown, calls>>
  BY DEF activated
<1>2. DocumentIsSound' /\ SessionInv'
  <2>1. DocumentIsSound'
    BY <1>1 DEF AInv, DocumentIsSound, InOrder
  <2>2. SessionInv'
    BY <1>1 DEF AInv, SessionInv
  <2> QED
    BY <2>1, <2>2
<1>3. ReportInv'
  BY <1>1 DEF AInv, ReportInv, LoadedBefore
<1>4. StopsInv'
  BY <1>1 DEF AInv, StopsInv, Accounted, WaitInOrder, CalledOnce, LastFirst, Elements
<1> QED
  BY <1>2, <1>3, <1>4 DEF AInv

LEMMA MemberOf ==
  ASSUME NEW X, NEW s \in Seq(X), NEW i \in DOMAIN s
  PROVE  s[i] \in X
  OBVIOUS

LEMMA AppendIs ==
  ASSUME NEW X, NEW s \in Seq(X), NEW x \in X
  PROVE  /\ DOMAIN Append(s, x) = 1..(Len(s) + 1) /\ Append(s, x)[Len(s) + 1] = x
         /\ \A c \in 1..Len(s) : Append(s, x)[c] = s[c]
  OBVIOUS

\* The mod whose turn it is has not been reported.
LEMMA NextMod ==
  ASSUME AInv, MoreMods
  PROVE  /\ stage = "document" /\ Len(outcomes) \in Nat /\ DOMAIN outcomes = 1..Len(outcomes)
         /\ Len(outcomes) + 1 \in DOMAIN document /\ Current.build \in Builds
         /\ Len(document) \in Nat /\ Len(outcomes) + 1 <= Len(document)
         /\ \A k \in DOMAIN outcomes : outcomes[k].build # Current.build
         /\ Current.build \notin Elements(shutdown) /\ Current.build \notin Elements(calls)
         /\ LoadedBefore(Len(outcomes) + 1) = Successful
<1>1. stage = "document" /\ Len(outcomes) \in Nat /\ DOMAIN outcomes = 1..Len(outcomes)
  BY DEF AInv, SessionInv, MoreMods
<1>2. /\ document \in Seq([build : Builds, requires : SUBSET Builds])
      /\ \A k, m \in DOMAIN document : document[k].build = document[m].build => k = m
  BY <1>1 DEF AInv, DocumentIsSound
<1>3. Len(document) \in Nat /\ DOMAIN document = 1..Len(document) /\ Len(outcomes) < Len(document)
  BY <1>2 DEF MoreMods
<1>4. Len(outcomes) + 1 \in DOMAIN document /\ \A k \in DOMAIN outcomes : k \in DOMAIN document
  BY <1>1, <1>3
<1>5. Current.build \in Builds
  <2>1. document[Len(outcomes) + 1] \in [build : Builds, requires : SUBSET Builds]
    BY <1>2, <1>4, MemberOf
  <2> QED
    BY <2>1 DEF Current
<1>6. ASSUME NEW k \in DOMAIN outcomes PROVE outcomes[k].build # Current.build
  <2>1. outcomes[k].build = document[k].build
    BY DEF AInv, ReportInv
  <2>2. k # Len(outcomes) + 1
    BY <1>1
  <2> QED
    BY <1>2, <1>4, <2>1, <2>2 DEF Current
<1>7. Current.build \notin Elements(shutdown) /\ Current.build \notin Elements(calls)
  BY <1>6 DEF AInv, StopsInv, WaitInOrder, CalledOnce, Elements
<1>8. LoadedBefore(Len(outcomes) + 1) = Successful
  <2>1. 1..((Len(outcomes) + 1) - 1) = DOMAIN outcomes
    BY <1>1
  <2> QED
    BY <2>1 DEF LoadedBefore, Successful
<1> QED
  BY <1>1, <1>3, <1>4, <1>5, <1>6, <1>7, <1>8

\* A mod is reported: the report follows the document.
LEMMA Reported ==
  ASSUME AInv, MoreMods, NEW o \in Outcomes, Report(o), o = "loaded" => ~Blocked,
         UNCHANGED document
  PROVE  /\ outcomes' \in Seq([build : Builds, outcome : Outcomes])
         /\ DOMAIN outcomes' = 1..(Len(outcomes) + 1)
         /\ \A k \in 1..Len(outcomes) : outcomes'[k] = outcomes[k]
         /\ outcomes'[Len(outcomes) + 1].build = Current.build
         /\ outcomes'[Len(outcomes) + 1].outcome = o
         /\ ReportInv'
<1> DEFINE n == Len(outcomes)
           r == [build |-> Current.build, outcome |-> o]
<1>1. /\ n \in Nat /\ DOMAIN outcomes = 1..n /\ n + 1 \in DOMAIN document /\ Current.build \in Builds
      /\ Len(document) \in Nat /\ n + 1 <= Len(document)
      /\ LoadedBefore(n + 1) = Successful
  BY NextMod
<1>2. /\ r \in [build : Builds, outcome : Outcomes] /\ r.build = Current.build /\ r.outcome = o
      /\ outcomes' = Append(outcomes, r) /\ outcomes \in Seq([build : Builds, outcome : Outcomes])
  BY <1>1 DEF Report, AInv, SessionInv
<1> HIDE DEF r
<1>3. /\ outcomes' \in Seq([build : Builds, outcome : Outcomes])
      /\ Len(outcomes') = n + 1 /\ DOMAIN outcomes' = 1..(n + 1)
      /\ \A k \in 1..n : outcomes'[k] = outcomes[k]
      /\ outcomes'[n + 1] = r
  BY <1>1, <1>2
<1> HIDE DEF n
<1>4. ASSUME NEW k \in 1..(n + 1)
      PROVE  {outcomes'[j].build : j \in {m \in 1..(k - 1) : outcomes'[m].outcome = "loaded"}} = LoadedBefore(k)
  <2>1. \A j \in 1..(k - 1) : outcomes'[j] = outcomes[j]
    BY <1>1, <1>3
  <2> QED
    BY <2>1 DEF LoadedBefore
<1>5. \A k \in 1..(n + 1) : outcomes'[k].build = document[k].build
  <2>1. \A k \in 1..n : outcomes[k].build = document[k].build
    BY <1>1 DEF AInv, ReportInv
  <2>2. Current.build = document[n + 1].build
    BY DEF Current, n
  <2> QED
    BY <1>1, <1>2, <1>3, <2>1, <2>2
<1>6. ASSUME NEW k \in 1..(n + 1), outcomes'[k].outcome = "loaded"
      PROVE  document[k].requires \subseteq LoadedBefore(k)
  <2>1. CASE k \in 1..n
    BY <1>1, <1>3, <1>6, <2>1 DEF AInv, ReportInv
  <2>2. CASE k = n + 1
    BY <1>1, <1>2, <1>3, <1>6, <2>2 DEF Blocked, Current, n
  <2> QED
    BY <1>1, <2>1, <2>2
<1>7. ReportInv'
  <2>1. outcomes' # << >> => Len(outcomes') <= Len(document')
    BY <1>1, <1>3
  <2> QED
    BY <1>3, <1>4, <1>5, <1>6, <2>1 DEF ReportInv, LoadedBefore
<1> QED
  BY <1>2, <1>3, <1>7 DEF n

\* A mod that is not loaded is reported, and what waits for its end is as before.
LEMMA NotLoaded ==
  ASSUME AInv, MoreMods, NEW o \in Outcomes \ {"loaded"}, Report(o),
         UNCHANGED <<document, session, shutdown>>,
         calls' = calls \/ calls' = Append(calls, Current.build)
  PROVE  StopsInv'
<1> DEFINE n == Len(outcomes)
           b == Current.build
<1>1. /\ n \in Nat /\ DOMAIN outcomes = 1..n /\ DOMAIN outcomes' = 1..(n + 1)
      /\ \A k \in 1..n : outcomes'[k] = outcomes[k]
      /\ outcomes'[n + 1].build = b /\ outcomes'[n + 1].outcome # "loaded"
  BY NextMod, Reported
<1>2. /\ \A k \in 1..n : outcomes[k].build # b
      /\ b \notin Elements(shutdown) /\ b \notin Elements(calls) /\ b \in Builds
  BY <1>1, NextMod
<1>3. \A k \in 1..(n + 1) : k \in 1..n \/ k = n + 1
  BY <1>1
<1>c. /\ calls \in Seq(Builds) /\ Len(calls) \in Nat /\ DOMAIN calls = 1..Len(calls)
  BY DEF AInv, SessionInv
<1> HIDE DEF n, b
<1>4. /\ Elements(calls) \subseteq Elements(calls') /\ Elements(calls') \subseteq Elements(calls) \cup {b}
      /\ \A c \in DOMAIN calls' : calls'[c] = b \/ (c \in DOMAIN calls /\ calls'[c] = calls[c])
      /\ \A c, d \in DOMAIN calls' : calls'[c] = calls'[d] => c = d
  <2>1. CASE calls' = calls
    BY <2>1 DEF Elements, AInv, StopsInv, CalledOnce
  <2>2. CASE calls' = Append(calls, b)
    <3>1. /\ DOMAIN calls' = 1..(Len(calls) + 1) /\ calls'[Len(calls) + 1] = b
          /\ \A c \in 1..Len(calls) : calls'[c] = calls[c]
      <4>1. b \in Builds
        BY <1>2
      <4>2. /\ DOMAIN Append(calls, b) = 1..(Len(calls) + 1)
            /\ Append(calls, b)[Len(calls) + 1] = b
            /\ \A c \in 1..Len(calls) : Append(calls, b)[c] = calls[c]
        BY ONLY <1>c, <4>1, AppendIs
      <4> QED
        BY ONLY <2>2, <4>2
    <3>2. \A c \in 1..Len(calls) : calls[c] # b
      BY <1>2, <1>c DEF Elements
    <3>3. \A c, d \in DOMAIN calls' : calls'[c] = calls'[d] => c = d
      BY <1>c, <3>1, <3>2 DEF AInv, StopsInv, CalledOnce
    <3> QED
      BY <1>c, <3>1, <3>3 DEF Elements
  <2> QED
    BY <2>1, <2>2 DEF b
<1>5. Accounted'
  BY <1>1, <1>3, <1>4 DEF AInv, StopsInv, Accounted
<1>6. WaitInOrder'
  <2>1. \A i \in DOMAIN shutdown : shutdown[i] # b
    BY <1>2 DEF Elements
  <2> QED
    BY <1>1, <1>3, <2>1 DEF AInv, StopsInv, WaitInOrder
<1>7. CalledOnce'
  <2>1. \A c \in DOMAIN calls' : \E k \in DOMAIN outcomes' : outcomes'[k].build = calls'[c]
    <3>1. n + 1 \in 1..(n + 1) /\ \A k \in 1..n : k \in 1..(n + 1)
      BY <1>1
    <3> QED
      BY <1>1, <1>4, <3>1 DEF AInv, StopsInv, CalledOnce
  <2>2. Elements(shutdown') \cap Elements(calls') = {}
    BY <1>2, <1>4 DEF AInv, StopsInv, CalledOnce
  <2> QED
    BY <1>4, <2>1, <2>2 DEF CalledOnce
<1>8. LastFirst'
  <2>1. \A k \in 1..n : outcomes'[k].build \in Elements(calls') => outcomes[k].build \in Elements(calls)
    BY <1>1, <1>2, <1>4
  <2>2. \A m \in 1..(n + 1) : outcomes'[m].build \in Elements(shutdown') => m \in 1..n
    BY <1>1, <1>2, <1>3
  <2>3. session' \notin {"running", "ended"} =>
          \A k \in DOMAIN outcomes' : outcomes'[k].outcome = "loaded" => outcomes'[k].build \notin Elements(calls')
    BY <1>1, <1>3, <2>1 DEF AInv, StopsInv, LastFirst
  <2>4. \A k, m \in DOMAIN outcomes' :
          outcomes'[k].outcome = "loaded" /\ outcomes'[k].build \in Elements(calls')
          /\ outcomes'[m].build \in Elements(shutdown') => m < k
    <3> SUFFICES ASSUME NEW k \in 1..(n + 1), NEW m \in 1..(n + 1),
                        outcomes'[k].outcome = "loaded", outcomes'[k].build \in Elements(calls'),
                        outcomes'[m].build \in Elements(shutdown')
                 PROVE  m < k
      BY <1>1
    <3>1. k \in 1..n /\ m \in 1..n
      BY <1>1, <1>3, <2>2
    <3> QED
      BY <1>1, <2>1, <3>1 DEF AInv, StopsInv, LastFirst
  <2> QED
    BY <2>3, <2>4 DEF LastFirst
<1> QED
  BY <1>5, <1>6, <1>7, <1>8 DEF StopsInv

LEMMA Loaded ==
  ASSUME AInv, Activate
  PROVE  StopsInv'
<1> DEFINE n == Len(outcomes)
           b == Current.build
<1>0. MoreMods /\ ~Blocked /\ Report("loaded") /\ UNCHANGED <<session, calls>>
      /\ shutdown' = IF b \in Stoppable \ Overlays THEN Append(shutdown, b) ELSE shutdown
  BY DEF Activate
<1>1. /\ n \in Nat /\ DOMAIN outcomes = 1..n
      /\ \A k \in 1..n : outcomes[k].build # b
      /\ b \notin Elements(shutdown) /\ b \notin Elements(calls) /\ b \in Builds
  BY <1>0, NextMod
<1>2. /\ outcomes \in Seq([build : Builds, outcome : Outcomes])
      /\ shutdown \in Seq(Builds) /\ Len(shutdown) \in Nat /\ DOMAIN shutdown = 1..Len(shutdown)
      /\ session = "prepared"
  BY <1>0 DEF AInv, SessionInv, MoreMods
<1> DEFINE r == [build |-> b, outcome |-> "loaded"]
<1>3. r \in [build : Builds, outcome : Outcomes] /\ r.build = b /\ r.outcome = "loaded" /\ outcomes' = Append(outcomes, r)
  BY <1>0, <1>1 DEF Report, Outcomes
<1> HIDE DEF r
<1>4. /\ DOMAIN outcomes' = 1..(n + 1)
      /\ \A k \in 1..n : outcomes'[k] = outcomes[k]
      /\ outcomes'[n + 1].build = b
  BY <1>1, <1>2, <1>3
<1>5. \A k \in 1..(n + 1) : k \in 1..n \/ k = n + 1
  BY <1>1
<1> HIDE DEF n, b
<1>6. /\ Elements(shutdown) \subseteq Elements(shutdown') /\ Elements(shutdown') \subseteq Elements(shutdown) \cup {b}
      /\ b \in Stoppable \ Overlays => b \in Elements(shutdown')
      /\ \A i \in DOMAIN shutdown' : \/ i \in DOMAIN shutdown /\ shutdown'[i] = shutdown[i]
                                     \/ i = Len(shutdown) + 1 /\ shutdown'[i] = b
      /\ DOMAIN shutdown' \subseteq 1..(Len(shutdown) + 1)
  <2>1. CASE b \notin Stoppable \ Overlays
    BY <1>0, <1>2, <2>1
  <2>2. CASE b \in Stoppable \ Overlays
    <3>1. /\ DOMAIN shutdown' = 1..(Len(shutdown) + 1) /\ shutdown'[Len(shutdown) + 1] = b
          /\ \A c \in 1..Len(shutdown) : shutdown'[c] = shutdown[c]
      BY <1>0, <1>1, <1>2, <2>2
    <3>2. \A i \in 1..(Len(shutdown) + 1) : i \in 1..Len(shutdown) \/ i = Len(shutdown) + 1
      BY <1>2
    <3>3. Len(shutdown) + 1 \in 1..(Len(shutdown) + 1) /\ \A i \in 1..Len(shutdown) : i \in 1..(Len(shutdown) + 1)
      BY <1>2
    <3> QED
      BY <1>2, <3>1, <3>2, <3>3 DEF Elements
  <2> QED
    BY <2>1, <2>2
<1>7. \A k \in 1..n : outcomes[k].outcome = "loaded" => outcomes[k].build \notin Elements(calls)
  BY <1>1, <1>2 DEF AInv, StopsInv, LastFirst
<1>8. Accounted'
  BY <1>0, <1>4, <1>5, <1>6, <1>1 DEF AInv, StopsInv, Accounted
<1>9. WaitInOrder'
  <2>1. \A i \in DOMAIN shutdown' : \E k \in DOMAIN outcomes' : outcomes'[k].build = shutdown'[i]
    <3>1. n + 1 \in 1..(n + 1) /\ \A k \in 1..n : k \in 1..(n + 1)
      BY <1>1
    <3> QED
      BY <1>1, <1>4, <1>6, <3>1 DEF AInv, StopsInv, WaitInOrder
  <2>2. ASSUME NEW i \in DOMAIN shutdown', NEW j \in DOMAIN shutdown', i < j,
               NEW k \in 1..(n + 1), NEW m \in 1..(n + 1),
               outcomes'[k].build = shutdown'[i], outcomes'[m].build = shutdown'[j]
        PROVE  k < m
    <3>1. i \in DOMAIN shutdown /\ shutdown'[i] = shutdown[i]
      BY <1>2, <1>6, <2>2
    <3>2. shutdown[i] # b
      BY <1>1, <3>1 DEF Elements
    <3>3. k \in 1..n
      BY <1>4, <1>5, <2>2, <3>1, <3>2
    <3>4. CASE j \in DOMAIN shutdown /\ shutdown'[j] = shutdown[j]
      <4>1. shutdown[j] # b
        BY <1>1, <3>4 DEF Elements
      <4>2. m \in 1..n
        BY <1>4, <1>5, <2>2, <3>4, <4>1
      <4> QED
        BY <1>1, <1>4, <2>2, <3>1, <3>3, <3>4, <4>2 DEF AInv, StopsInv, WaitInOrder
    <3>5. CASE shutdown'[j] = b
      <4>1. m = n + 1
        BY <1>1, <1>4, <1>5, <2>2, <3>5
      <4> QED
        BY <1>1, <3>3, <4>1
    <3> QED
      BY <1>6, <3>4, <3>5
  <2> QED
    BY <1>4, <2>1, <2>2 DEF WaitInOrder
<1>10. CalledOnce'
  <2>1. \A c \in DOMAIN calls : \E k \in DOMAIN outcomes' : outcomes'[k].build = calls[c]
    <3>1. \A k \in 1..n : k \in 1..(n + 1)
      BY <1>1
    <3> QED
      BY <1>1, <1>4, <3>1 DEF AInv, StopsInv, CalledOnce
  <2>2. Elements(shutdown') \cap Elements(calls) = {}
    BY <1>1, <1>6 DEF AInv, StopsInv, CalledOnce
  <2> QED
    BY <1>0, <2>1, <2>2 DEF AInv, StopsInv, CalledOnce
<1>11. LastFirst'
  BY <1>0, <1>1, <1>4, <1>5, <1>7 DEF LastFirst
<1> QED
  BY <1>8, <1>9, <1>10, <1>11 DEF StopsInv

\* The last of those that wait is called.
LEMMA LastCalled ==
  ASSUME AInv, DisposeNext
  PROVE  StopsInv'
<1> DEFINE n == Len(shutdown)
           b == shutdown[n]
<1>1. /\ shutdown \in Seq(Builds) /\ calls \in Seq(Builds) /\ n \in Nat /\ n > 0
      /\ DOMAIN shutdown = 1..n /\ Len(calls) \in Nat /\ DOMAIN calls = 1..Len(calls)
      /\ b \in Builds /\ n \in 1..n
  BY DEF AInv, SessionInv, DisposeNext
<1>2. /\ session = "running" /\ UNCHANGED <<session, outcomes>>
      /\ calls' = Append(calls, b) /\ shutdown' = SubSeq(shutdown, 1, n - 1)
  BY DEF DisposeNext
<1>3. /\ DOMAIN shutdown' = 1..(n - 1)
      /\ \A i \in 1..(n - 1) : shutdown'[i] = shutdown[i] /\ i \in 1..n
  BY <1>1, <1>2
<1>4. /\ DOMAIN calls' = 1..(Len(calls) + 1) /\ calls'[Len(calls) + 1] = b
      /\ \A c \in 1..Len(calls) : calls'[c] = calls[c]
  BY <1>1, <1>2
<1>o. /\ outcomes \in Seq([build : Builds, outcome : Outcomes]) /\ DOMAIN outcomes \subseteq Nat
  BY DEF AInv, SessionInv
<1> HIDE DEF n, b
<1>b. b = shutdown[n]
  BY DEF b
<1>5. PICK l \in DOMAIN outcomes : outcomes[l].build = b
  BY <1>1, <1>b DEF AInv, StopsInv, WaitInOrder
<1>6. \A k \in DOMAIN outcomes, i \in 1..(n - 1) : outcomes[k].build = shutdown[i] => k < l
  <2>1. \A i \in 1..(n - 1) : i \in 1..n /\ i < n
    BY <1>1
  <2> QED
    BY <1>1, <1>b, <1>5, <2>1 DEF AInv, StopsInv, WaitInOrder
<1>7. b \notin Elements(shutdown') /\ b \notin Elements(calls)
  <2>1. \A i \in 1..(n - 1) : shutdown[i] # b
    BY <1>5, <1>6, <1>o
  <2>2. b \in Elements(shutdown)
    BY <1>1, <1>b DEF Elements
  <2> QED
    BY <1>3, <2>1, <2>2 DEF Elements, AInv, StopsInv, CalledOnce
<1>8. Elements(calls') = Elements(calls) \cup {b} /\ Elements(shutdown) = Elements(shutdown') \cup {b}
  <2>1. \A i \in 1..n : i \in 1..(n - 1) \/ i = n
    BY <1>1
  <2>2. \A c \in 1..(Len(calls) + 1) : c \in 1..Len(calls) \/ c = Len(calls) + 1
    BY <1>1
  <2>3. Len(calls) + 1 \in 1..(Len(calls) + 1) /\ \A i \in 1..Len(calls) : i \in 1..(Len(calls) + 1)
    BY <1>1
  <2>4. Elements(calls') = Elements(calls) \cup {b}
    BY <1>1, <1>4, <2>2, <2>3 DEF Elements
  <2>5. Elements(shutdown) = Elements(shutdown') \cup {b}
    BY <1>1, <1>3, <1>b, <2>1 DEF Elements
  <2> QED
    BY <2>4, <2>5
<1>9. Accounted'
  BY <1>2, <1>8 DEF AInv, StopsInv, Accounted
<1>10. WaitInOrder'
  BY <1>1, <1>2, <1>3 DEF AInv, StopsInv, WaitInOrder
<1>11. CalledOnce'
  <2>1. \A c \in DOMAIN calls' : \E k \in DOMAIN outcomes : outcomes[k].build = calls'[c]
    <3>1. \A c \in 1..(Len(calls) + 1) : c \in 1..Len(calls) \/ c = Len(calls) + 1
      BY <1>1
    <3> QED
      BY <1>1, <1>4, <1>5, <3>1 DEF AInv, StopsInv, CalledOnce
  <2>2. Elements(shutdown') \cap Elements(calls') = {}
    BY <1>7, <1>8 DEF AInv, StopsInv, CalledOnce
  <2>3. \A i, j \in DOMAIN calls' : calls'[i] = calls'[j] => i = j
    <3>1. \A c \in 1..Len(calls) : calls[c] # b
      BY <1>1, <1>7 DEF Elements
    <3> QED
      BY <1>1, <1>4, <3>1 DEF AInv, StopsInv, CalledOnce
  <2> QED
    BY <1>2, <2>1, <2>2, <2>3 DEF CalledOnce
<1>12. LastFirst'
  <2>1. ASSUME NEW k \in DOMAIN outcomes, NEW m \in DOMAIN outcomes, outcomes[k].outcome = "loaded",
               outcomes[k].build \in Elements(calls'), outcomes[m].build \in Elements(shutdown')
        PROVE  m < k
    <3>1. CASE outcomes[k].build \in Elements(calls)
      BY <1>8, <2>1, <3>1 DEF AInv, StopsInv, LastFirst
    <3>2. CASE outcomes[k].build = b
      <4>1. PICK i \in 1..(n - 1) : outcomes[m].build = shutdown[i]
        BY <1>3, <2>1 DEF Elements
      <4>2. i \in 1..n /\ n \in 1..n /\ i < n
        BY <1>1, <4>1
      <4> QED
        BY <1>1, <1>b, <3>2, <4>1, <4>2 DEF AInv, StopsInv, WaitInOrder
    <3> QED
      BY <1>8, <2>1, <3>1, <3>2
  <2> QED
    BY <1>2, <2>1 DEF LastFirst
<1> QED
  BY <1>9, <1>10, <1>11, <1>12 DEF StopsInv

\* Each step of the session keeps what its variables are.
LEMMA SessionTyped ==
  ASSUME AInv, RunSession, UNCHANGED resolver
  PROVE  SessionInv'
<1>0. /\ session \in {"none", "verified", "prepared", "running", "ended"}
      /\ session # "none" => stage = "document"
      /\ session \in {"none", "verified"} => outcomes = << >> /\ shutdown = << >> /\ calls = << >>
      /\ outcomes \in Seq([build : Builds, outcome : Outcomes])
      /\ shutdown \in Seq(Builds) /\ calls \in Seq(Builds) /\ UNCHANGED stage
  BY DEF AInv, SessionInv, resolver
<1>1. CASE VerifyFiles \/ PrepareEntries \/ WriteReport \/ Disposed
  BY <1>0, <1>1 DEF VerifyFiles, PrepareEntries, WriteReport, Disposed, SessionInv
<1>2. CASE SkipDependent \/ RefuseInvalid \/ Activate \/ ActivationThrows
  <2>1. MoreMods /\ \E o \in Outcomes : Report(o)
    BY <1>2 DEF SkipDependent, RefuseInvalid, Activate, ActivationThrows, Outcomes
  <2>2. /\ Current.build \in Builds /\ session = "prepared" /\ UNCHANGED session
    BY <1>2, <2>1, NextMod DEF MoreMods, SkipDependent, RefuseInvalid, Activate, ActivationThrows
  <2>3. outcomes' \in Seq([build : Builds, outcome : Outcomes])
    BY <1>0, <2>1, <2>2 DEF Report
  <2>4. /\ shutdown' = shutdown \/ shutdown' = Append(shutdown, Current.build)
        /\ calls' = calls \/ calls' = Append(calls, Current.build)
    BY <1>2 DEF SkipDependent, RefuseInvalid, Activate, ActivationThrows
  <2>5. shutdown' \in Seq(Builds) /\ calls' \in Seq(Builds)
    <3> DEFINE b == Current.build
    <3>1. b \in Builds /\ shutdown \in Seq(Builds) /\ calls \in Seq(Builds)
      BY <1>0, <2>2
    <3> HIDE DEF b
    <3>2. Append(shutdown, b) \in Seq(Builds) /\ Append(calls, b) \in Seq(Builds)
      BY ONLY <3>1
    <3> QED
      BY <2>4, <3>1, <3>2 DEF b
  <2> QED
    BY <1>0, <2>2, <2>3, <2>5 DEF SessionInv
<1>3. CASE DisposeNext
  <2>1. /\ session = "running" /\ UNCHANGED <<session, outcomes>> /\ Len(shutdown) \in Nat /\ Len(shutdown) > 0
        /\ calls' = Append(calls, shutdown[Len(shutdown)])
        /\ shutdown' = SubSeq(shutdown, 1, Len(shutdown) - 1)
    BY <1>0, <1>3 DEF DisposeNext
  <2>2. calls' \in Seq(Builds)
    <3>1. shutdown[Len(shutdown)] \in Builds
      BY <1>0, <2>1
    <3> QED
      BY <1>0, <2>1, <3>1
  <2>3. shutdown' \in Seq(Builds)
    BY <1>0, <2>1
  <2> QED
    BY <1>0, <2>1, <2>2, <2>3 DEF SessionInv
<1> QED
  BY <1>1, <1>2, <1>3 DEF RunSession

LEMMA RunStep ==
  ASSUME AInv, RunSession, UNCHANGED resolver
  PROVE  AInv'
<1>0. SessionInv' /\ UNCHANGED <<stage, document>>
  BY SessionTyped DEF resolver
<1>1. DocumentIsSound'
  BY <1>0 DEF AInv, DocumentIsSound, InOrder
<1>2. CASE VerifyFiles \/ PrepareEntries \/ WriteReport \/ Disposed
  <2>1. UNCHANGED <<outcomes, shutdown, calls>> /\ (session' \notin {"running", "ended"} => session \notin {"running", "ended"})
    BY <1>2 DEF VerifyFiles, PrepareEntries, WriteReport, Disposed
  <2>2. ReportInv'
    BY <1>0, <2>1 DEF AInv, ReportInv, LoadedBefore
  <2>3. Accounted' /\ WaitInOrder' /\ CalledOnce'
    BY <2>1 DEF AInv, StopsInv, Accounted, WaitInOrder, CalledOnce, Elements
  <2>4. LastFirst'
    BY <2>1 DEF AInv, StopsInv, LastFirst, Elements
  <2> QED
    BY <1>0, <1>1, <2>2, <2>3, <2>4 DEF AInv, StopsInv
<1>3. CASE SkipDependent
  BY <1>0, <1>1, <1>3, Reported, NotLoaded DEF SkipDependent, AInv, Outcomes
<1>4. CASE RefuseInvalid
  BY <1>0, <1>1, <1>4, Reported, NotLoaded DEF RefuseInvalid, AInv, Outcomes
<1>5. CASE Activate
  <2>1. StopsInv'
    BY <1>5, Loaded
  <2>2. ReportInv'
    BY <1>0, <1>5, Reported DEF Activate, Outcomes
  <2> QED
    BY <1>0, <1>1, <2>1, <2>2 DEF AInv
<1>6. CASE ActivationThrows
  <2>1. /\ MoreMods /\ Report("failed") /\ UNCHANGED <<session, shutdown>>
        /\ calls' = calls \/ calls' = Append(calls, Current.build)
    BY <1>6 DEF ActivationThrows
  <2>2. StopsInv' /\ ReportInv'
    BY <1>0, <2>1, Reported, NotLoaded DEF Outcomes
  <2> QED
    BY <1>0, <1>1, <2>2 DEF AInv
<1>7. CASE DisposeNext
  <2>1. StopsInv'
    BY <1>7, LastCalled
  <2>2. ReportInv'
    BY <1>0, <1>7, ZenonT(40) DEF DisposeNext, AInv, ReportInv, LoadedBefore
  <2> QED
    BY <1>0, <1>1, <2>1, <2>2 DEF AInv
<1> QED
  BY <1>2, <1>3, <1>4, <1>5, <1>6, <1>7 DEF RunSession

LEMMA SessionInitially == Init => AInv
<1> SUFFICES ASSUME Init PROVE AInv
  OBVIOUS
<1>1. DocumentIsSound
  BY DEF Init, ResolverInit, DocumentIsSound
<1>2. SessionInv /\ ReportInv
  BY DEF Init, SessionInv, ReportInv
<1>3. StopsInv
  BY DEF Init, StopsInv, Accounted, WaitInOrder, CalledOnce, LastFirst, Elements
<1> QED
  BY <1>1, <1>2, <1>3 DEF AInv

LEMMA SessionInvariance == Spec => [](RInv /\ AInv)
<1>1. RInv /\ AInv /\ [Next]_vars => AInv'
  <2> SUFFICES ASSUME RInv, AInv, [Next]_vars PROVE AInv'
    OBVIOUS
  <2>1. CASE Resolve /\ UNCHANGED activated
    BY <2>1, ResolveKeepsSession
  <2>2. CASE RunSession /\ UNCHANGED <<resolver, traversal>>
    BY <2>2, RunStep
  <2>3. CASE UNCHANGED vars
    BY <2>3, SessionFrame DEF vars, resolver
  <2> QED
    BY <2>1, <2>2, <2>3 DEF Next
<1> QED
  BY <1>1, SessionInitially, ResolverInvariance, PTL DEF Spec

\* Its dependents are loaded later and shut down earlier.
LEMMA DependentsStop == AInv => DependentsStopFirst
<1> SUFFICES ASSUME AInv PROVE DependentsStopFirst
  OBVIOUS
<1>1. \A i, j \in DOMAIN calls : calls[i] = calls[j] => i = j
  BY DEF AInv, StopsInv, CalledOnce
<1>2. ASSUME NEW k \in DOMAIN document, NEW m \in DOMAIN document,
             document[k].build \in document[m].requires,
             {document[k].build, document[m].build} \subseteq Successful \cap Stoppable,
             document[k].build \in Elements(calls), document[m].build \notin Overlays
      PROVE  document[m].build \in Elements(calls)
  <2>1. PICK x \in DOMAIN outcomes : outcomes[x].outcome = "loaded" /\ outcomes[x].build = document[k].build
    BY <1>2 DEF Successful
  <2>2. PICK y \in DOMAIN outcomes : outcomes[y].outcome = "loaded" /\ outcomes[y].build = document[m].build
    BY <1>2 DEF Successful
  <2>3. /\ outcomes \in Seq([build : Builds, outcome : Outcomes]) /\ stage = "document"
        /\ Len(outcomes) <= Len(document)
    BY <2>1 DEF AInv, SessionInv, ReportInv
  <2>4. /\ document \in Seq([build : Builds, requires : SUBSET Builds]) /\ Len(document) \in Nat
        /\ DOMAIN document = 1..Len(document)
        /\ \A a, b \in DOMAIN document : document[a].build = document[b].build => a = b
    BY <2>3 DEF AInv, DocumentIsSound
  <2>5. Len(outcomes) \in Nat /\ DOMAIN outcomes = 1..Len(outcomes)
    BY <2>3
  <2>6. x \in DOMAIN document /\ y \in DOMAIN document
    BY <2>3, <2>4, <2>5
  <2>7. x = k /\ y = m
    BY <2>1, <2>2, <2>4, <2>6 DEF AInv, ReportInv
  <2>8. document[m].requires \subseteq LoadedBefore(m)
    BY <2>2, <2>7 DEF AInv, ReportInv
  <2>9. PICK j \in 1..(m - 1) : outcomes[j].build = document[k].build
    BY <1>2, <2>8 DEF LoadedBefore
  <2>10. m \in 1..Len(outcomes) /\ j \in DOMAIN outcomes /\ j \in DOMAIN document /\ j < m
    BY <2>2, <2>3, <2>4, <2>5, <2>7, <2>9
  <2>11. j = k
    BY <2>4, <2>9, <2>10 DEF AInv, ReportInv
  <2>12. document[m].build \in Elements(shutdown) \cup Elements(calls)
    BY <1>2, <2>2 DEF AInv, StopsInv, Accounted
  <2>13. document[m].build \in Elements(shutdown) => m < k
    BY <1>2, <2>1, <2>2, <2>7 DEF AInv, StopsInv, LastFirst
  <2> QED
    BY <2>5, <2>10, <2>11, <2>12, <2>13
<1> QED
  BY <1>1, <1>2 DEF DependentsStopFirst

\* What the document says a mod requires is all it declares to.
LEMMA DocumentDeclares ==
  ASSUME RInv, stage = "document", NEW k \in DOMAIN document
  PROVE  LET b == document[k].build
         IN /\ Declared("requires", b) \subseteq document[k].requires
            /\ \A n \in Needs(b) : \E c \in Elements(given.requested) \cap Releases :
                 Fits(n, c) /\ c \in document[k].requires \cup Content
<1> DEFINE b == document[k].build
           order == Only(result.mixed, Builds \ Content)
<1>1. /\ part = "local" /\ document = ActiveMods
  BY DEF RInv, DocumentInv
<1>2. /\ Sound(result.mixed) /\ Elements(result.mixed) = Elements(given.requested)
      /\ result.registry = Only(result.mixed, Releases)
  BY <1>1 DEF RInv, EntriesInv
<1>3. /\ Elements(result.registry) = Elements(result.mixed) \cap Releases
      /\ Elements(order) = Elements(result.mixed) \cap (Builds \ Content)
      /\ order \in Seq(Builds)
  BY <1>2, OnlyKeeps DEF Sound
<1>4. /\ document[k].build = order[k] /\ document[k].requires = Requires(order[k]) /\ k \in DOMAIN order
  BY <1>1 DEF ActiveMods
<1> HIDE DEF order
<1>5. b \in Elements(result.mixed) /\ b \in Builds
  BY <1>3, <1>4 DEF Elements
<1>6. Declared("requires", b) \subseteq document[k].requires
  <2>1. CASE b \in Locals
    BY <1>4, <2>1 DEF Requires
  <2>2. CASE b \notin Locals
    BY <2>2, Declarations DEF RInv
  <2> QED
    BY <2>1, <2>2
<1>7. ASSUME NEW n \in Needs(b)
      PROVE  \E c \in Elements(given.requested) \cap Releases :
                 Fits(n, c) /\ c \in document[k].requires \cup Content
  <2>1. b \in Releases
    BY Declarations DEF RInv
  <2>2. PICK c \in Elements(result.mixed) \cap Releases : Matches(n, c, given.label[c])
    BY <1>2, <1>5, <2>1 DEF Sound, NeedsMet
  <2>3. Fits(n, c)
    BY <2>2, MatchesFits DEF Needs, RInv
  <2>4. n.mod = ModOf[c]
    BY <2>3 DEF Fits
  <2>5. c \in document[k].requires \cup Content
    BY <1>3, <1>4, <2>1, <2>2, <2>4 DEF Requires
  <2> QED
    BY <1>2, <2>2, <2>3, <2>5
<1> QED
  BY <1>6, <1>7

LEMMA RequirementsAreLoaded == RInv /\ AInv => LoadedHasRequirements
<1> SUFFICES ASSUME RInv, AInv, NEW k \in DOMAIN outcomes, outcomes[k].outcome = "loaded"
             PROVE  /\ Declared("requires", outcomes[k].build) \subseteq LoadedBefore(k)
                    /\ \A n \in Needs(outcomes[k].build) : \E c \in Elements(given.requested) \cap Releases :
                         Fits(n, c) /\ c \in LoadedBefore(k) \cup Content
  BY DEF LoadedHasRequirements, LoadedBefore
<1>1. /\ outcomes \in Seq([build : Builds, outcome : Outcomes]) /\ stage = "document"
      /\ Len(outcomes) <= Len(document)
      /\ outcomes[k].build = document[k].build /\ document[k].requires \subseteq LoadedBefore(k)
  BY DEF AInv, SessionInv, ReportInv
<1>2. document \in Seq([build : Builds, requires : SUBSET Builds])
  BY <1>1 DEF AInv, DocumentIsSound
<1>3. k \in DOMAIN document
  BY <1>1, <1>2
<1> QED
  BY <1>1, <1>3, DocumentDeclares

\* Whatever the setup and the faults, a loaded mod has what it declares to need before it starts and
\* until it has been shut down, and is shut down once (ActivationSession.cs:126, 254-260).
THEOREM RequirementsAreHeld == Spec => []RequirementsHold
<1>1. RInv /\ AInv => RequirementsHold
  BY DependentsStop, RequirementsAreLoaded DEF RequirementsHold
<1> QED
  BY <1>1, SessionInvariance, PTL
=============================================================================
