----------------------------- MODULE BoogieCode -----------------------------
(***************************************************************************)
(* The architecture-neutral instruction model (BoogieInstruction in        *)
(* vatomic/verify/src/lib.rs) and the control-flow analysis of             *)
(* verify/src/loops.rs: cfg, all_labels, top_level_loops, all_loops,       *)
(* loop_headers and collect_loops.                                         *)
(*                                                                         *)
(* Positions are 0-based as in the Rust code: instruction i of a sequence  *)
(* c is At(c, i) = c[i+1], and vertex Len(c) is the point just after the   *)
(* last instruction (the target of a fallthrough off the end).             *)
(*                                                                         *)
(* Every instruction carries the auxiliary field org: the position in the  *)
(* input sequence it was copied from (or stands for). The Rust code has no *)
(* such field; it only serves the refinement mapping of MCGenerate.        *)
(***************************************************************************)
EXTENDS Integers, Sequences, FiniteSets

\* the condition string that makes a Branch unconditional
TrueCond == "true"

LabelI(l, o)      == [kind |-> "Label", name |-> l, org |-> o]
InstrI(e, o)      == [kind |-> "Instr", effect |-> e, org |-> o]
BranchI(ts, c, o) == [kind |-> "Branch", targets |-> ts, cond |-> c, org |-> o]
ReturnI(o)        == [kind |-> "Return", org |-> o]

At(c, i) == c[i+1]
Positions(c) == 0..Len(c)-1
Vertices(c) == 0..Len(c)

IsLabel(ins) == ins.kind = "Label"
IsJump(ins)  == ins.kind = "Branch" /\ ins.cond = TrueCond

\* all_labels: label name -> position (collect() into a map: last one wins)
AllLabels(c) ==
  LET ls == {i \in Positions(c) : IsLabel(At(c, i))}
  IN [l \in {At(c, i).name : i \in ls} |->
        CHOOSE i \in ls : At(c, i).name = l
                          /\ \A k \in ls : At(c, k).name = l => k <= i]

(***************************************************************************)
(* cfg(): the `unreachable` flag is reset by a Label and set by an         *)
(* unconditional Branch; an instruction seen while it is set adds no edge. *)
(* LiveFrom scans from position i with the flag's current value.           *)
(***************************************************************************)
RECURSIVE LiveFrom(_, _, _)
LiveFrom(c, i, unreachable) ==
  IF i = Len(c) THEN {}
  ELSE LET ins  == At(c, i)
           skip == unreachable /\ ~IsLabel(ins)
       IN (IF skip THEN {} ELSE {i})
            \cup LiveFrom(c, i+1, IF skip THEN TRUE ELSE IsJump(ins))

Live(c) == LiveFrom(c, 0, FALSE)

\* cfg() panics on a live Branch naming a label absent from the sequence
MissingLabel(c) ==
  \E i \in Live(c) : At(c, i).kind = "Branch"
                     /\ ~(At(c, i).targets \subseteq DOMAIN AllLabels(c))

\* the successors cfg() gives instruction i, with label_idx = lab
Out(c, lab, i) ==
  LET ins == At(c, i) IN
  CASE ins.kind = "Return" -> {}
    [] ins.kind = "Branch" ->
         {lab[t] : t \in ins.targets}
           \cup (IF ins.cond = TrueCond THEN {} ELSE {i+1})
    [] OTHER -> {i+1}

Cfg(c) ==
  LET lab == AllLabels(c) IN UNION {{<<i, j>> : j \in Out(c, lab, i)} : i \in Live(c)}

(***************************************************************************)
(* Graph helpers. Reach(E, S) is the set of vertices reachable from S in   *)
(* one or more steps, found breadth-first over the adjacency map of E.     *)
(***************************************************************************)
Succ(E, S) == {e[2] : e \in {e \in E : e[1] \in S}}
Pred(E, S) == {e[1] : e \in {e \in E : e[2] \in S}}

Adj(E) == LET V == {e[1] : e \in E} IN [v \in V |-> Succ(E, {v})]

RECURSIVE Bfs(_, _, _)
Bfs(A, seen, frontier) ==
  IF frontier = {} THEN seen
  ELSE LET next == UNION {A[v] : v \in frontier \cap DOMAIN A} \ (seen \cup frontier)
       IN Bfs(A, seen \cup frontier, next)

Reach(E, S) == LET A == Adj(E) IN Bfs(A, {}, UNION {A[v] : v \in S \cap DOMAIN A})

\* v |-> the vertices reachable from v in one or more steps
ReachMap(E, V) ==
  LET A == Adj(E) IN
  [v \in V |-> IF v \in DOMAIN A THEN Bfs(A, {}, A[v]) ELSE {}]

Scc(E, v) == {v} \cup {u \in Reach(E, {v}) : v \in Reach(E, {u})}

\* top_level_loops: components of size > 1 or with a self-loop
TopLevelLoops(E, V) ==
  LET R == ReachMap(E, V) IN
  {{v} \cup {u \in R[v] : v \in R[u]} : v \in {v \in V : v \in R[v]}}

\* the members of a loop with an incoming edge from outside it
EntryHeaders(E, loop) ==
  {i \in loop : \E s \in Pred(E, {i}) : s \notin loop}

RemoveIncoming(E, H) == {e \in E : e[2] \notin H}

(***************************************************************************)
(* all_loops: each round runs top_level_loops on the working graph,        *)
(* records the entry headers of every loop found and then deletes their    *)
(* incoming edges; it stops after a round that finds no header.            *)
(* PeelRounds is the set of [loop, edges] pairs the callback sees: every   *)
(* loop of every round with the graph of that round.                       *)
(***************************************************************************)
RECURSIVE PeelRounds(_, _)
PeelRounds(E, V) ==
  LET loops == TopLevelLoops(E, V)
      new   == UNION {EntryHeaders(E, l) : l \in loops}
      this  == {[loop |-> l, edges |-> E] : l \in loops}
  IN IF new = {} THEN this ELSE this \cup PeelRounds(RemoveIncoming(E, new), V)

\* faulty variant: only the first round, so nested loops get no header
AllLoopsTopOnly(E, V) == UNION {EntryHeaders(E, l) : l \in TopLevelLoops(E, V)}

AllLoops(E, V) == UNION {EntryHeaders(r.edges, r.loop) : r \in PeelRounds(E, V)}

LoopHeaders(c)  == AllLoops(Cfg(c), Vertices(c))
CollectLoops(c) == TopLevelLoops(Cfg(c), Vertices(c))

\* the ascending sequence of a finite set of integers
SortedSeq(S) ==
  [k \in 1..Cardinality(S) |-> CHOOSE x \in S : Cardinality({y \in S : y < x}) = k-1]
=============================================================================
