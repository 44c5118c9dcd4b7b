------------------------------ MODULE KShortPath ------------------------------
(***************************************************************************)
(* util/kshortpath.cpp: the segmentations of a text with the fewest words. *)
(* The positions of the text are vertices, the words found in it edges     *)
(* (SegGraph::GenerateWordNet), and each vertex keeps the MaxSegmentNum    *)
(* best ways to get there in slots.  A slot holds its length (the edges    *)
(* behind the first), and the vertex and slot it extends.                  *)
(*                                                                         *)
(* ShortPath is Dijkstra's algorithm on slots: it settles the cheapest     *)
(* slot and offers it to the vertices the edges lead to.                   *)
(***************************************************************************)
EXTENDS Integers, Sequences, FiniteSets

CONSTANTS
  NumVertex,      (* m_nNumOfVertex: one more than the text has letters    *)
  MaxWordLen,     (* getMaxLenOfWord(): the longest word of the dictionary *)
  MaxSegmentNum,  (* slots of a vertex                                     *)
  MAX             (* the length of an empty slot                           *)

ASSUME KShortPathAssumption ==
  /\ NumVertex \in Nat /\ NumVertex > 1
  /\ MaxWordLen \in Nat
  /\ MaxSegmentNum \in Nat \ {0}
  /\ MAX \in Nat /\ MAX > NumVertex

Vertices == 0 .. NumVertex - 1
Slots == 0 .. MaxSegmentNum - 1
Last == NumVertex - 1

VARIABLES
  edges,    (* m_vecEdgeList                                               *)
  label,    (* label[v][s]: the slot is settled                            *)
  slot,     (* slot[v][s]: its value, pre and ks                           *)
  pc        (* "run", or "done" when ShortPath has returned                *)

vars == <<edges, label, slot, pc>>

(* Which words the text contains depends on the dictionary.                *)
WordNets ==
  SUBSET {e \in Vertices \X Vertices : e[1] < e[2] /\ e[2] - e[1] <= MaxWordLen}

WaySwapped(value, pre, ks) == [value |-> value, pre |-> ks, ks |-> pre]
Way(value, pre, ks) == [value |-> value, pre |-> pre, ks |-> ks]
Empty == Way(MAX, -1, -1)

(* Steps 1 to 3 of ShortPath.                                              *)
Init ==
  /\ edges \in WordNets
  /\ label = [v \in Vertices |-> [s \in Slots |-> v = 0]]
  /\ slot = [v \in Vertices |-> [s \in Slots |->
               IF v = 0 THEN Way(0, -1, -1)
               ELSE IF s = 0 /\ <<0, v>> \in edges THEN Way(0, 0, 0)
               ELSE Empty]]
  /\ pc = "run"

(* bTerminate                                                              *)
TerminatedEarly == \E s \in Slots : label[Last][s]
Terminated == \A s \in Slots : label[Last][s]

(* GetMinValue: the first of the cheapest slots, by vertex and by slot.    *)
OpenAgain(v, s) == slot[v][s].value < MAX
Open(v, s) == ~label[v][s] /\ slot[v][s].value < MAX
ComesReversed(v, s, u, t) == v > u \/ (v = u /\ s <= t)
Comes(v, s, u, t) ==
  \/ slot[v][s].value < slot[u][t].value
  \/ slot[v][s].value = slot[u][t].value /\ (v < u \/ (v = u /\ s <= t))
IsMin(v, s) ==
  /\ Open(v, s)
  /\ \A u \in Vertices, t \in Slots : Open(u, t) => Comes(v, s, u, t)

(* The new way goes before the first longer one, from slot s on; the last  *)
(* of the row drops out.                                                   *)
EntersAtStart(row, s, way, q) == q = s
Enters(row, s, way, q) ==
  /\ q >= s /\ row[q].value > way.value
  /\ \A r \in s .. q - 1 : row[r].value <= way.value
Inserted(row, s, way) ==
  [q \in Slots |->
     IF \E p \in s .. q - 1 : Enters(row, s, way, p) THEN row[q - 1]
     ELSE IF Enters(row, s, way, q) THEN way
     ELSE row[q]]

(* GetsPath, for the slot it settles.                                      *)
Settle(v, s) ==
  /\ pc = "run" /\ ~Terminated /\ IsMin(v, s)
  /\ label' = [label EXCEPT ![v][s] = TRUE]
  /\ slot' = [k \in Vertices |->
                IF <<v, k>> \in edges
                THEN Inserted(slot[k], s, Way(slot[v][s].value + 1, v, s))
                ELSE slot[k]]
  /\ UNCHANGED <<edges, pc>>

(* All slots of the last vertex are settled, or GetsPath finds no minimum. *)
Stop ==
  /\ pc = "run"
  /\ Terminated \/ \A v \in Vertices, s \in Slots : ~Open(v, s)
  /\ pc' = "done"
  /\ UNCHANGED <<edges, label, slot>>

Next == (\E v \in Vertices, s \in Slots : Settle(v, s)) \/ Stop

Spec == Init /\ [][Next]_vars

(* One call, run by one thread.                                            *)
FairSpec == Spec /\ WF_vars(Next)

(* Output: the settled slots of the last vertex, up to the first that is   *)
(* not, each followed back to vertex 0.  An empty slot is never followed.  *)
Trace[v \in Vertices] ==
  [s \in Slots |->
     IF v = 0 THEN <<0>>
     ELSE IF slot[v][s] = Empty THEN <<>>
     ELSE Append(Trace[slot[v][s].pre][slot[v][s].ks], v)]
IsPathCount(n) ==
  /\ \A s \in Slots : s < n => label[Last][s]
  /\ n < MaxSegmentNum => ~label[Last][n]
PathCount == CHOOSE n \in 0 .. MaxSegmentNum : IsPathCount(n)
Output == [k \in 1 .. PathCount |-> Trace[Last][k - 1]]

-----------------------------------------------------------------------------
(***************************************************************************)
(* Type correctness: a slot refers to a vertex and a slot of it, or to     *)
(* nothing.                                                                *)
(***************************************************************************)
Ways == [value : Nat, pre : Vertices \union {-1}, ks : Slots \union {-1}]
TypeOK ==
  /\ edges \in WordNets
  /\ label \in [Vertices -> [Slots -> BOOLEAN]]
  /\ slot \in [Vertices -> [Slots -> Ways]]
  /\ pc \in {"run", "done"}

(***************************************************************************)
(* The slots of a vertex stay in order of length: py[0], the one           *)
(* segmentation rectify() uses when it extends a run, is a shortest one.   *)
(***************************************************************************)
RowsSorted ==
  \A v \in Vertices : \A s, t \in Slots :
    s <= t => slot[v][s].value <= slot[v][t].value

(***************************************************************************)
(* A slot extends, by an edge, a slot that is settled.                     *)
(***************************************************************************)
LinksSettled ==
  \A v \in Vertices \ {0}, s \in Slots :
    LET w == slot[v][s]
    IN  \/ w = Empty /\ ~label[v][s]
        \/ /\ w.pre \in Vertices /\ w.ks \in Slots
           /\ <<w.pre, v>> \in edges
           /\ label[w.pre][w.ks]
           /\ w.value = IF w.pre = 0 THEN 0 ELSE slot[w.pre][w.ks].value + 1

(***************************************************************************)
(* A way is never shifted or overwritten by a later insertion, so a link   *)
(* (pre, ks) keeps meaning the path it was made for.  Ways are found in    *)
(* order of length: lines 109-113 only ever move empty slots.              *)
(***************************************************************************)
FilledIsFinal ==
  [][\A v \in Vertices, s \in Slots :
       /\ label[v][s] => label'[v][s]
       /\ slot[v][s] # Empty => slot'[v][s] = slot[v][s]]_vars

(* The paths of the word net, the definition Output is held against.       *)
PathsTo[v \in Vertices] ==
  IF v = 0 THEN {<<0>>}
  ELSE UNION {{Append(p, v) : p \in PathsTo[e[1]]} : e \in {e \in edges : e[2] = v}}

(***************************************************************************)
(* The result is right: different paths of the word net, shortest first;   *)
(* all of them when they fit, and none left out that is shorter than one   *)
(* returned.                                                               *)
(***************************************************************************)
OutputIsShortest ==
  pc = "done" =>
    LET found == {Output[k] : k \in DOMAIN Output}
        paths == PathsTo[Last]
    IN  /\ found \subseteq paths
        /\ Cardinality(found) = Len(Output)
        /\ \A k, l \in DOMAIN Output : k < l => Len(Output[k]) <= Len(Output[l])
        /\ Len(Output) < MaxSegmentNum => found = paths
        /\ \A p \in found, q \in paths \ found : Len(p) <= Len(q)

(***************************************************************************)
(* ShortPath returns: the loop at line 48 has no bound of its own, every   *)
(* GetsPath must use up a slot.                                            *)
(***************************************************************************)
Returns == <>(pc = "done")
=============================================================================
