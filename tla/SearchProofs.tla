---- MODULE SearchProofs ----
(***************************************************************************)
(* What the searches of the read tools answer, for every index, call and   *)
(* number of commits.                                                      *)
(*                                                                         *)
(* Breadth first (dependents, trace_calls): the queue nodes holds the tree *)
(* in layers (Layers), and as long as nothing is committed every node      *)
(* before head has all its successors in the tree, one layer down at most, *)
(* and every node was found along an edge (Explored).  So what is within k *)
(* edges of the root is the first k layers, once these are expanded.       *)
(*                                                                         *)
(* Depth first (circular_imports): a successor that has been looked at is  *)
(* finished, or on the stack and then a reported cycle passes through it,  *)
(* or next on the stack (Looked).  A node that is finished and lies on a   *)
(* cycle is therefore knotted with a reported cycle (Knots): it was so     *)
(* when dfs left it, by an edge to the stack or by the successor through   *)
(* which it reaches itself.                                                *)
(***************************************************************************)
EXTENDS Search, TLAPS, FiniteSetTheorems, SequenceTheorems, WellFoundedInduction

(* What the tables hold and what was asked.                                *)
Tables ==
  /\ commits \in 0..MaxCommits
  /\ \E names : call \in CallsOf(names)
  /\ index \in [Files -> UNION {Contents[f] : f \in Files}]
  /\ \A f \in Files : index[f] \in Contents[f]

(* How far a search has come at each place of its code.                    *)
Phases ==
  /\ pc \in {"called", "candidates", "checkTo", "expand", "reconstruct", "synthesize", "walk", "done"}
  /\ pc \in {"called", "candidates", "checkTo", "walk"} => nodes = <<>> /\ head = 1
  /\ pc # "done" => answer = "" /\ cut = ""
  /\ pc \in {"expand", "reconstruct", "synthesize"} => nodes # <<>>
  /\ pc = "expand" => call.tool \in {"dependents", "trace_calls"}
  /\ pc \in {"checkTo", "reconstruct", "synthesize"} => call.tool = "trace_calls"
  /\ pc = "walk" => call.tool = "circular_imports"
  /\ pc = "candidates" => call.tool = "dependents"
  /\ answer \in {"tree", "no dependents"} => call.tool = "dependents" /\ nodes # <<>>
  /\ answer \in {"path", "no path"} => call.tool = "trace_calls" /\ nodes # <<>>
  /\ cut \in {"", "max_depth", "max_nodes"}

(* The tree, as TypeOK has it, with the types of its parts.                *)
TreeShape ==
  /\ nodes \in Seq(DOMAIN depth)
  /\ head \in 1..(Len(nodes) + 1)
  /\ \A i, j \in DOMAIN nodes : nodes[i] = nodes[j] => i = j
  /\ DOMAIN depth = Range(nodes)
  /\ \A n \in DOMAIN depth : depth[n] \in Nat
  /\ nodes # <<>> => nodes[1] = call.from /\ depth[call.from] = 0
  /\ DOMAIN parent = DOMAIN depth \ {call.from}
  /\ \A n \in DOMAIN parent : parent[n] \in DOMAIN depth /\ depth[n] = depth[parent[n]] + 1

(* What the query that expands n returns.                                  *)
Followed(n) ==
  IF call.tool = "trace_calls" THEN RefsFrom(Rows, n, "call", CalleeLimit)
  ELSE Successors(Rows, n)

NoneCrowded == \A n \in DOMAIN depth : ~Crowded(n)

DepthLimit == IF call.tool = "trace_calls" THEN TraceDepth ELSE BfsDepth

(* The queue holds the layers of the tree one after the other, and no more *)
(* than the layer under the one that is being expanded.                    *)
Layers ==
  /\ \A i, j \in DOMAIN nodes : i <= j => depth[nodes[i]] <= depth[nodes[j]]
  /\ head \in DOMAIN nodes =>
       \A n \in DOMAIN depth : depth[n] <= depth[nodes[head]] + 1
  /\ \A n \in DOMAIN depth : depth[n] <= DepthLimit

(* What stopped a search for dependents.                                   *)
Stopped ==
  /\ pc = "expand" /\ call.tool = "dependents" => Len(nodes) < BfsNodes
  /\ answer \in {"tree", "no dependents"} =>
       /\ cut = "" => head \notin DOMAIN nodes
       /\ cut = "max_depth" => head \in DOMAIN nodes /\ depth[nodes[head]] = BfsDepth
       /\ cut = "max_nodes" => Len(nodes) = BfsNodes
  /\ answer = "no dependents" => Len(nodes) <= 1

(* The successors of n are in the tree, a layer below n or higher up.      *)
Expanded(n) == /\ Followed(n) \subseteq DOMAIN depth
               /\ \A m \in Followed(n) : depth[m] <= depth[n] + 1

(* As long as nothing is committed, the tree is made of edges of the index *)
(* and misses none of the nodes before head.                               *)
Explored ==
  commits = 0 => /\ \A i \in DOMAIN nodes : i < head => Expanded(nodes[i])
                 /\ \A n \in DOMAIN parent : n \in Followed(parent[n])

(* trace_calls: what is known of the callee that is looked for.            *)
Sought ==
  /\ pc \in {"checkTo", "expand"} /\ call.tool = "trace_calls" =>
       call.to # call.from /\ call.to \notin DOMAIN depth
  /\ pc = "reconstruct" => call.to \in DOMAIN parent
  /\ answer = "no path" =>
       /\ call.to \notin DOMAIN depth
       /\ head \in DOMAIN nodes => depth[nodes[head]] = TraceDepth

(* ... and of the path to it.                                              *)
PathInv ==
  pc = "synthesize" \/ answer = "path" =>
    /\ call.to \in DOMAIN parent
    /\ hops \in Seq([from : DOMAIN depth, to : DOMAIN depth, kind : RefKinds,
                     site : {"ref", "asked", "symbol", "bare"}])
    /\ Len(hops) = depth[call.to]
    /\ hops[1].from = call.from
    /\ hops[depth[call.to]].to = call.to
    /\ \A i \in 2..depth[call.to] : hops[i].from = hops[i - 1].to
    /\ commits = 0 => \A i \in DOMAIN hops : /\ hops[i].site = "ref"
                                             /\ hops[i].to \in Followed(hops[i].from)
                                             /\ Shows(hops[i])

TreeInv == /\ Tables /\ Phases /\ TreeShape /\ Layers /\ Stopped
           /\ Explored /\ Sought /\ PathInv

-----------------------------------------------------------------------------
Packages == {e[1] : e \in adj} \union {e[2] : e \in adj}

(* No package imports itself.                                              *)
AdjOK == \A e \in adj : e = <<e[1], e[2]>> /\ e[1] # e[2]

(* The stack is a path of imports, without repetition.                     *)
StackOK ==
  /\ stack \in Seq([node : Packages, left : SUBSET Packages])
  /\ pc # "walk" => stack = <<>>
  /\ \A i, j \in DOMAIN stack : stack[i].node = stack[j].node => i = j
  /\ \A i \in DOMAIN stack : stack[i].left \subseteq Imported(stack[i].node)
  /\ \A i \in DOMAIN stack : i + 1 \in DOMAIN stack =>
       stack[i + 1].node \in Imported(stack[i].node)
  /\ \A i, j \in DOMAIN stack : i < j =>
       stack[j].node \in ReachedFrom(stack[i].node)

(* Cycles are cycles, each reported once.                                  *)
Reports ==
  /\ \A i \in DOMAIN cycles : cycles[i] \in Seq(Packages) /\ IsCycle(cycles[i])
  /\ \A i, j \in DOMAIN cycles :
       CanonicalKey(cycles[i]) = CanonicalKey(cycles[j]) => i = j
  /\ cycles \in Seq(Seq(Packages))

Reported(n) == \E i \in DOMAIN cycles : n \in Range(cycles[i])

Knotted(n) ==
  \E i \in DOMAIN cycles : \E m \in Range(cycles[i]) :
    m \in ReachedFrom(n) /\ n \in ReachedFrom(m)

(* What became of a successor v of the i-th node on the stack.             *)
SettledAt(i, v) ==
  \/ v \in finished
  \/ \E j \in DOMAIN stack : j < i /\ stack[j].node = v /\ Reported(v)
  \/ i + 1 \in DOMAIN stack /\ stack[i + 1].node = v

Looked ==
  \A i \in DOMAIN stack :
    \A v \in Imported(stack[i].node) \ stack[i].left : SettledAt(i, v)

Knots == /\ finished \subseteq Packages
         /\ \A n \in finished : n \in ReachedFrom(n) => Knotted(n)

CyclesInv ==
  /\ AdjOK /\ StackOK /\ Reports /\ Looked /\ Knots
  /\ pc = "called" => finished = {} /\ cycles = <<>>
  /\ pc = "done" /\ call.tool = "circular_imports" => Waiting = {}

-----------------------------------------------------------------------------
(* Numbers, sequences and functions.                                       *)

(* A set of numbers that has members has a least one.                      *)
LEMMA LeastNumber ==
  ASSUME NEW T \in SUBSET Nat, T # {}
  PROVE  \E k \in T : \A j \in T : k <= j
  <1>1. PICK k \in T : \A j \in T : ~(<<j, k>> \in OpToRel(<, Nat))
    BY NatLessThanWellFounded, WFMin
  <1>2. \A j \in T : ~(j < k)
    BY <1>1 DEF OpToRel
  <1> QED BY <1>2

(* The iterates of p, from a.                                              *)
AreIterates(g, p, a) ==
  /\ g = [i \in Nat |-> g[i]]
  /\ \A i \in Nat : g[i] = IF i = 0 THEN a ELSE p[g[i - 1]]

LEMMA Iterates ==
  ASSUME NEW p, NEW a
  PROVE  \E g : AreIterates(g, p, a)
  <1> DEFINE runs(n, h) == /\ DOMAIN h = 0..n
                           /\ h[0] = a
                           /\ \A i \in 1..n : h[i] = p[h[i - 1]]
  <1>1. ASSUME NEW n \in Nat PROVE \E h : runs(n, h)
    <2> DEFINE T == {k \in Nat : ~ \E h : runs(k, h)}
    <2> SUFFICES ASSUME T # {} PROVE FALSE
      OBVIOUS
    <2>1. PICK k \in T : \A j \in T : k <= j
      <3> HIDE DEF T
      <3>1. T \in SUBSET Nat
        BY DEF T
      <3> QED BY <3>1, LeastNumber
    <2>2. CASE k = 0
      <3> DEFINE h == [i \in 0..0 |-> a]
      <3>1. runs(0, h)
        OBVIOUS
      <3> QED BY <2>2, <3>1
    <2>3. CASE k # 0
      <3>1. k - 1 \in Nat /\ k - 1 \notin T
        BY <2>1, <2>3
      <3>2. PICK h : runs(k - 1, h)
        BY <3>1
      <3> DEFINE g == [i \in 0..k |-> IF i = k THEN p[h[k - 1]] ELSE h[i]]
      <3>3. \A i \in 0..k : g[i] = IF i = k THEN p[h[k - 1]] ELSE h[i]
        OBVIOUS
      <3>4. /\ 0 \in 0..k /\ 0 # k
            /\ \A i \in 1..k : i \in 0..k /\ i - 1 \in 0..k /\ i - 1 # k
                               /\ (i # k => i \in 1..(k - 1))
        BY <2>3
      <3>5. DOMAIN g = 0..k
        OBVIOUS
      <3> HIDE DEF g
      <3>6. \A i \in 1..k : g[i] = p[g[i - 1]]
        BY <3>2, <3>3, <3>4
      <3>7. runs(k, g)
        BY <3>2, <3>3, <3>4, <3>5, <3>6
      <3> QED BY <3>7
    <2> QED BY <2>2, <2>3
  <1>2. ASSUME NEW m \in Nat, NEW n \in Nat, NEW g, NEW h, runs(m, g), runs(n, h),
               NEW i \in 0..m, i <= n
        PROVE  g[i] = h[i]
    <2> DEFINE T == {k \in Nat : k <= m /\ k <= n /\ g[k] # h[k]}
    <2> SUFFICES ASSUME T # {} PROVE FALSE
      BY <1>2
    <2>1. PICK k \in T : \A j \in T : k <= j
      <3> HIDE DEF T
      <3>1. T \in SUBSET Nat
        BY DEF T
      <3> QED BY <3>1, LeastNumber
    <2>2. k # 0
      BY <1>2, <2>1
    <2>3. k - 1 \in Nat /\ k - 1 \notin T /\ k - 1 <= m /\ k - 1 <= n
      BY <2>1, <2>2
    <2>4. k \in 1..m /\ k \in 1..n
      BY <2>2
    <2> QED BY <1>2, <2>1, <2>3, <2>4
  <1> DEFINE H(n) == CHOOSE h : runs(n, h)
             g == [i \in Nat |-> H(i)[i]]
  <1> HIDE DEF runs
  <1>3. \A n \in Nat : runs(n, H(n))
    BY <1>1
  <1> HIDE DEF H
  <1>4. ASSUME NEW i \in Nat PROVE g[i] = IF i = 0 THEN a ELSE p[g[i - 1]]
    <2>1. CASE i = 0
      BY <1>3, <2>1 DEF runs
    <2>2. CASE i # 0
      <3>1. i - 1 \in Nat /\ i \in 1..i /\ i - 1 \in 0..(i - 1) /\ i - 1 <= i
        BY <2>2
      <3>2. H(i)[i] = p[H(i)[i - 1]]
        BY <1>3, <3>1 DEF runs
      <3>3. H(i - 1)[i - 1] = H(i)[i - 1]
        BY <1>2, <1>3, <3>1
      <3> QED BY <2>2, <3>1, <3>2, <3>3
    <2> QED BY <2>1, <2>2
  <1>5. g = [i \in Nat |-> g[i]]
    OBVIOUS
  <1> HIDE DEF g
  <1> QED BY <1>4, <1>5 DEF AreIterates

(* The empty sequence.                                                     *)
LEMMA NoElements == DOMAIN <<>> = {}
  <1>1. \A S : <<>> \in Seq(S) /\ Len(<<>>) = 0
    BY EmptySeq
  <1> QED BY <1>1, LenProperties

(* One element of a sequence changed, one put at its end.                  *)
LEMMA Changed ==
  ASSUME NEW S, NEW s \in Seq(S), NEW k \in 1..Len(s), NEW e \in S
  PROVE  /\ [s EXCEPT ![k] = e] \in Seq(S)
         /\ Len([s EXCEPT ![k] = e]) = Len(s)
         /\ DOMAIN [s EXCEPT ![k] = e] = DOMAIN s
         /\ \A i \in 1..Len(s) : [s EXCEPT ![k] = e][i] = IF i = k THEN e ELSE s[i]
  OBVIOUS

LEMMA PutLast ==
  ASSUME NEW S, NEW s \in Seq(S), NEW e \in S
  PROVE  /\ Append(s, e) \in Seq(S)
         /\ Len(Append(s, e)) = Len(s) + 1
         /\ DOMAIN Append(s, e) = 1..(Len(s) + 1)
         /\ \A i \in 1..Len(s) : Append(s, e)[i] = s[i]
         /\ Append(s, e)[Len(s) + 1] = e
  OBVIOUS

(* The first elements of a sequence.                                       *)
LEMMA Prefix ==
  ASSUME NEW S, NEW s \in Seq(S), NEW k \in 0..Len(s)
  PROVE  /\ SubSeq(s, 1, k) \in Seq(S)
         /\ Len(SubSeq(s, 1, k)) = k
         /\ DOMAIN SubSeq(s, 1, k) = 1..k
         /\ \A i \in 1..k : SubSeq(s, 1, k)[i] = s[i]
  <1> DEFINE t == SubSeq(s, 1, k)
  <1>1. k \in Nat /\ k \in Int /\ 1 \in Int /\ k - 1 + 1 = k /\ 1..k \subseteq 1..Len(s)
    OBVIOUS
  <1>2. \A i \in 1..k : s[i] \in S
    BY <1>1
  <1>3. /\ t \in Seq(S) /\ Len(t) = IF 1 <= k THEN k - 1 + 1 ELSE 0
        /\ \A i \in 1..(k - 1 + 1) : t[i] = s[1 + i - 1]
    BY <1>1, <1>2, SubSeqProperties
  <1>4. Len(t) = k /\ \A i \in 1..k : t[i] = s[i]
    <2> HIDE DEF t
    <2>1. \A i \in 1..k : 1 + i - 1 = i
      BY <1>1
    <2>2. k = 0 \/ 1 <= k
      BY <1>1
    <2> QED BY <1>1, <1>3, <2>1, <2>2
  <1> QED BY <1>3, <1>4, LenProperties

-----------------------------------------------------------------------------
(* The graph a search follows.                                             *)

LEMMA FiniteImage ==
  ASSUME NEW S, IsFiniteSet(S), NEW f
  PROVE  IsFiniteSet({f[x] : x \in S})
  <1> DEFINE T == {f[x] : x \in S}
             g == [x \in S |-> f[x]]
  <1>1. g \in Surjection(S, T)
    BY DEF Surjection
  <1> HIDE DEF T, g
  <1>2. IsFiniteSet(T)
    BY <1>1, FS_Surjection
  <1> QED BY <1>2 DEF T

(* Every successor is a name the tables hold.                              *)
LEMMA Universe ==
  ASSUME Tables
  PROVE  \E U : /\ IsFiniteSet(U) /\ call.from \in U
               /\ \A n : Followed(n) \subseteq U /\ Linked(n) \subseteq U
  <1> DEFINE db == Rows
             tos == {r.to : r \in db.refs}
             qns == {FromSymbol(db, r).qn : r \in db.refs}
             pkgs == {FromSymbol(db, r).pkg : r \in db.refs}
             modules == {p.module : p \in db.pkgs}
             U == tos \union qns \union pkgs \union modules \union {call.from}
  <1>1. IsFiniteSet(db.refs) /\ IsFiniteSet(db.pkgs)
    <2>1. \A f \in Files : IsFiniteSet(index[f].refs) /\ IsFiniteSet(index[f].pkgs)
      BY SearchAssumption DEF Tables
    <2> DEFINE r == [f \in Files |-> index[f].refs]
               p == [f \in Files |-> index[f].pkgs]
               R == {r[f] : f \in Files}
               P == {p[f] : f \in Files}
    <2>2. IsFiniteSet(R) /\ IsFiniteSet(P)
      <3> HIDE DEF r, p
      <3> QED BY SearchAssumption, FiniteImage
    <2>3. (\A T \in R : IsFiniteSet(T)) /\ (\A T \in P : IsFiniteSet(T))
      BY <2>1
    <2>4. db.refs = UNION R /\ db.pkgs = UNION P
      BY DEF Rows
    <2> HIDE DEF R, P, db
    <2> QED BY <2>2, <2>3, <2>4, FS_UNION
  <1> HIDE DEF db
  <1>2. IsFiniteSet(tos) /\ IsFiniteSet(qns) /\ IsFiniteSet(pkgs) /\ IsFiniteSet(modules)
    <2> DEFINE f1 == [r \in db.refs |-> r.to]
               f2 == [r \in db.refs |-> FromSymbol(db, r).qn]
               f3 == [r \in db.refs |-> FromSymbol(db, r).pkg]
               f4 == [p \in db.pkgs |-> p.module]
    <2>1. /\ tos = {f1[r] : r \in db.refs} /\ qns = {f2[r] : r \in db.refs}
          /\ pkgs = {f3[r] : r \in db.refs} /\ modules = {f4[p] : p \in db.pkgs}
      OBVIOUS
    <2> HIDE DEF f1, f2, f3, f4, tos, qns, pkgs, modules
    <2>2. /\ IsFiniteSet({f1[r] : r \in db.refs}) /\ IsFiniteSet({f2[r] : r \in db.refs})
          /\ IsFiniteSet({f3[r] : r \in db.refs}) /\ IsFiniteSet({f4[p] : p \in db.pkgs})
      BY <1>1, FiniteImage
    <2> QED BY <2>1, <2>2
  <1>3. IsFiniteSet(U)
    <2> HIDE DEF tos, qns, pkgs, modules
    <2>1. IsFiniteSet(tos \union qns)
      BY <1>2, FS_Union
    <2>2. IsFiniteSet((tos \union qns) \union pkgs)
      BY <1>2, <2>1, FS_Union
    <2>3. IsFiniteSet(((tos \union qns) \union pkgs) \union modules)
      BY <1>2, <2>2, FS_Union
    <2> QED BY <2>3, FS_AddElement
  <1>4. \A n, kind, limit : /\ Referenced(db, n, kind) \subseteq tos
                            /\ RefsFrom(db, n, kind, limit) \subseteq tos
    BY DEF RefsFrom, Referenced, Lowest, WhereKind
  <1>5. \A n : SymbolCallers(db, n) \subseteq qns
    BY DEF SymbolCallers
  <1>6. \A n : PackageImporters(db, n) \subseteq pkgs
    BY DEF PackageImporters, ImportsOf
  <1>7. \A n : ModuleImporters(db, n) \subseteq modules
    BY DEF ModuleImporters, ModulesOf
  <1>8. \A n : /\ Followed(n) \subseteq tos \union qns \union pkgs \union modules
               /\ Linked(n) \subseteq tos \union qns \union pkgs \union modules
    <2> HIDE DEF tos, qns, pkgs, modules
    <2> QED BY <1>4, <1>5, <1>6, <1>7 DEF Followed, Linked, Successors, SymbolCallees, db
  <1> HIDE DEF tos, qns, pkgs, modules
  <1> QED BY <1>3, <1>8

(* A query with LIMIT returns all there is, or as much as LIMIT says: what *)
(* comes before the first that it leaves out.                              *)
LEMMA LowestAll ==
  ASSUME NEW S \in SUBSET Nat, IsFiniteSet(S), NEW limit \in Nat
  PROVE  /\ Lowest(limit, S) \subseteq S
         /\ ~(Cardinality(S) > limit) => Lowest(limit, S) = S
         /\ Cardinality(S) > limit => Cardinality(Lowest(limit, S)) >= limit
  <1> DEFINE below(x) == {y \in S : y < x}
             low == Lowest(limit, S)
  <1>1. \A x \in S : IsFiniteSet(below(x)) /\ Cardinality(below(x)) \in Nat
    BY FS_Subset, FS_CardinalityType
  <1>2. low = {x \in S : Cardinality(below(x)) < limit}
    BY DEF Lowest
  <1>3. ASSUME ~(Cardinality(S) > limit), NEW x \in S PROVE Cardinality(below(x)) < limit
    <2>1. below(x) \subseteq S /\ below(x) # S
      OBVIOUS
    <2> HIDE DEF below
    <2>2. Cardinality(below(x)) < Cardinality(S)
      BY <1>1, <2>1, FS_Subset, FS_CardinalityType
    <2>3. Cardinality(S) \in Nat
      BY FS_CardinalityType
    <2> QED BY <1>1, <1>3, <2>2, <2>3
  <1>4. ASSUME Cardinality(S) > limit PROVE Cardinality(low) >= limit
    <2> DEFINE rest == S \ low
    <2>1. CASE rest = {}
      <3>1. low = S
        BY <1>2, <2>1
      <3> QED BY <1>4, <3>1, FS_CardinalityType
    <2>2. CASE rest # {}
      <3>1. PICK m \in rest : \A x \in rest : m <= x
        <4> HIDE DEF low
        <4>1. rest \in SUBSET Nat
          OBVIOUS
        <4> HIDE DEF rest
        <4> QED BY <2>2, <4>1, LeastNumber
      <3>2. Cardinality(below(m)) >= limit
        BY <1>1, <1>2, <3>1
      <3>3. below(m) \subseteq low
        <4> SUFFICES ASSUME NEW y \in S, y < m PROVE y \in low
          OBVIOUS
        <4>1. y \in Nat /\ m \in Nat
          OBVIOUS
        <4>2. ~(m <= y)
          BY <4>1
        <4> HIDE DEF low
        <4>3. y \notin rest
          BY <3>1, <4>2
        <4> QED BY <4>3
      <3>4. IsFiniteSet(low)
        <4>1. low \subseteq S
          BY <1>2
        <4> QED BY <4>1, FS_Subset
      <3>7. IsFiniteSet(below(m))
        BY <1>1
      <3> HIDE DEF below, low
      <3>5. Cardinality(below(m)) <= Cardinality(low)
        BY <3>3, <3>4, FS_Subset
      <3>6. Cardinality(below(m)) \in Nat /\ Cardinality(low) \in Nat
        BY <3>4, <3>7, FS_CardinalityType
      <3> QED BY <3>2, <3>5, <3>6
    <2> QED BY <2>1, <2>2
  <1> HIDE DEF below
  <1> QED BY <1>2, <1>3, <1>4

(* So a search follows links only, and those of a node that is not crowded *)
(* all of them.                                                            *)
LEMMA FollowedIs ==
  ASSUME Tables, NEW n
  PROVE  /\ Followed(n) \subseteq Linked(n) /\ IsFiniteSet(Linked(n))
         /\ ~Crowded(n) => Followed(n) = Linked(n)
         /\ Crowded(n) => Cardinality(Followed(n)) >= RowsAsked
  <1>1. IsFiniteSet(Linked(n))
    <2>1. PICK U : IsFiniteSet(U) /\ Linked(n) \subseteq U
      BY Universe
    <2> QED BY <2>1, FS_Subset
  <1>2. CASE AsksRefsFrom
    <2> DEFINE S == Referenced(Rows, n, IF call.tool = "trace_calls" THEN "call" ELSE call.kind)
    <2>1. \A r \in Rows.refs : r.to \in Nat
      <3> SUFFICES ASSUME NEW r \in Rows.refs PROVE r.to \in Nat
        OBVIOUS
      <3>1. PICK f \in Files : r \in index[f].refs
        BY DEF Rows
      <3> QED BY <3>1, SearchAssumption DEF Tables
    <2>2. S \in SUBSET Nat
      BY <2>1 DEF Referenced, WhereKind
    <2>3. Linked(n) = S
      BY <1>2 DEF Linked
    <2>4. Followed(n) = Lowest(RowsAsked, S)
      BY <1>2 DEF Followed, RowsAsked, AsksRefsFrom, RefsFrom, Successors, SymbolCallees
    <2>5. RowsAsked \in Nat
      BY SearchAssumption DEF RowsAsked
    <2> HIDE DEF S
    <2>6. /\ Lowest(RowsAsked, S) \subseteq S
          /\ ~(Cardinality(S) > RowsAsked) => Lowest(RowsAsked, S) = S
          /\ Cardinality(S) > RowsAsked => Cardinality(Lowest(RowsAsked, S)) >= RowsAsked
      BY <1>1, <2>2, <2>3, <2>5, LowestAll
    <2> QED BY <1>1, <1>2, <2>3, <2>4, <2>6 DEF Crowded
  <1>3. CASE ~AsksRefsFrom
    BY <1>1, <1>3 DEF Followed, Linked, Crowded, AsksRefsFrom
  <1> QED BY <1>2, <1>3

(* Within, step by step.                                                   *)
LEMMA WithinIs ==
  ASSUME Tables
  PROVE  /\ Within(0) = {call.from}
         /\ \A k \in Nat : Within(k + 1) = Within(k) \union UNION {Linked(n) : n \in Within(k)}
  <1> DEFINE next(X) == X \union UNION {Linked(n) : n \in X}
             layers(g) == g = [j \in Nat |-> IF j = 0 THEN {call.from}
                                             ELSE g[j - 1] \union UNION {Linked(n) : n \in g[j - 1]}]
             near == CHOOSE g : layers(g)
  <1>1. PICK U : call.from \in U /\ \A n : Linked(n) \subseteq U
    BY Universe
  <1> DEFINE p == [X \in SUBSET U |-> next(X)]
  <1>2. \A X \in SUBSET U : p[X] = next(X) /\ p[X] \in SUBSET U
    BY <1>1
  <1>3. layers(near)
    <2>1. PICK g : AreIterates(g, p, {call.from})
      BY Iterates, Zenon
    <2> HIDE DEF p
    <2>2. \A i \in Nat : g[i] \in SUBSET U
      <3> DEFINE T == {i \in Nat : g[i] \notin SUBSET U}
      <3> SUFFICES ASSUME T # {} PROVE FALSE
        OBVIOUS
      <3>1. PICK k \in T : \A j \in T : k <= j
        <4> HIDE DEF T
        <4>1. T \in SUBSET Nat
          BY DEF T
        <4> QED BY <4>1, LeastNumber
      <3>2. k # 0
        BY <1>1, <2>1 DEF AreIterates
      <3>3. k - 1 \in Nat /\ k - 1 \notin T
        BY <3>1, <3>2
      <3> QED BY <1>2, <2>1, <3>2, <3>3 DEF AreIterates
    <2>3. \A i \in Nat : g[i] = IF i = 0 THEN {call.from} ELSE next(g[i - 1])
      <3> SUFFICES ASSUME NEW i \in Nat, i # 0 PROVE g[i] = next(g[i - 1])
        BY <2>1 DEF AreIterates
      <3>1. i - 1 \in Nat /\ g[i] = p[g[i - 1]]
        BY <2>1 DEF AreIterates
      <3> HIDE DEF next
      <3> QED BY <1>2, <2>2, <3>1
    <2>4. layers(g)
      <3> DEFINE r == [j \in Nat |-> IF j = 0 THEN {call.from} ELSE next(g[j - 1])]
      <3>1. r = [i \in Nat |-> r[i]] /\ \A i \in Nat : g[i] = r[i]
        BY <2>3
      <3>2. g = r
        <4> HIDE DEF r
        <4> QED BY <2>1, <3>1 DEF AreIterates
      <3> QED BY <3>2
    <2> HIDE DEF layers
    <2> QED BY <2>4
  <1>4. \A k : Within(k) = near[k]
    BY DEF Within
  <1> HIDE DEF near
  <1>5. \A i \in Nat : near[i] = IF i = 0 THEN {call.from} ELSE next(near[i - 1])
    BY <1>3
  <1>6. \A k \in Nat : k + 1 \in Nat /\ k + 1 # 0 /\ (k + 1) - 1 = k
    OBVIOUS
  <1> HIDE DEF layers
  <1> QED BY <1>4, <1>5, <1>6

LEMMA WithinGrows ==
  ASSUME Tables, NEW k \in Nat, NEW m \in Nat, k <= m
  PROVE  Within(k) \subseteq Within(m)
  <1> DEFINE T == {j \in Nat : k <= j /\ ~(Within(k) \subseteq Within(j))}
  <1> SUFFICES ASSUME T # {} PROVE FALSE
    OBVIOUS
  <1>1. PICK j \in T : \A i \in T : j <= i
    <2> HIDE DEF T
    <2>1. T \in SUBSET Nat
      BY DEF T
    <2> QED BY <2>1, LeastNumber
  <1>2. j # k
    BY <1>1
  <1>3. j - 1 \in Nat /\ k <= j - 1 /\ j - 1 \notin T /\ (j - 1) + 1 = j
    BY <1>1, <1>2
  <1>4. Within(j - 1) \subseteq Within(j)
    BY <1>3, WithinIs
  <1> QED BY <1>3, <1>4

(* What is near the root is in the upper layers, once these are expanded.  *)
LEMMA NearIsHigh ==
  ASSUME Tables, TreeShape, NoneCrowded, nodes # <<>>, NEW d \in Nat,
         \A n \in DOMAIN depth : depth[n] < d => Expanded(n)
  PROVE  \A k \in Nat : k <= d => \A n \in Within(k) : n \in DOMAIN depth /\ depth[n] <= k
  <1> DEFINE T == {k \in Nat : k <= d /\ \E n \in Within(k) : ~(n \in DOMAIN depth /\ depth[n] <= k)}
  <1> SUFFICES ASSUME T # {} PROVE FALSE
    OBVIOUS
  <1>1. PICK k \in T : \A i \in T : k <= i
    <2> HIDE DEF T
    <2>1. T \in SUBSET Nat
      BY DEF T
    <2> QED BY <2>1, LeastNumber
  <1>2. PICK n \in Within(k) : ~(n \in DOMAIN depth /\ depth[n] <= k)
    BY <1>1
  <1>3. call.from \in DOMAIN depth /\ depth[call.from] = 0
    <2>1. 1 \in DOMAIN nodes
      BY EmptySeq, LenProperties DEF TreeShape
    <2>2. nodes[1] \in Range(nodes)
      BY <2>1 DEF Range
    <2> QED BY <2>2 DEF TreeShape
  <1>4. k # 0
    BY <1>2, <1>3, WithinIs
  <1>5. k - 1 \in Nat /\ k - 1 \notin T /\ (k - 1) + 1 = k /\ k - 1 < d
    BY <1>1, <1>4
  <1>6. \A x \in Within(k - 1) : x \in DOMAIN depth /\ depth[x] <= k - 1 /\ depth[x] \in Nat
    BY <1>5 DEF TreeShape
  <1>7. PICK x \in Within(k - 1) : n = x \/ n \in Linked(x)
    BY <1>5, WithinIs
  <1>8. Expanded(x) /\ x \in DOMAIN depth /\ depth[x] <= k - 1 /\ depth[x] \in Nat
    BY <1>5, <1>6
  <1>9. CASE n = x
    BY <1>2, <1>8, <1>9
  <1>10. CASE n \in Linked(x)
    <2>0. n \in Followed(x)
      BY <1>8, <1>10, FollowedIs DEF NoneCrowded
    <2>1. n \in DOMAIN depth /\ depth[n] <= depth[x] + 1 /\ depth[n] \in Nat
      BY <1>8, <2>0 DEF Expanded, TreeShape
    <2> QED BY <1>2, <1>8, <2>1
  <1> QED BY <1>7, <1>9, <1>10

(* A node made of edges is as near the root as its depth says, or nearer.  *)
LEMMA HighIsNear ==
  ASSUME Tables, TreeShape, \A n \in DOMAIN parent : n \in Followed(parent[n])
  PROVE  \A n \in DOMAIN depth : n \in Within(depth[n])
  <1> DEFINE T == {k \in Nat : \E n \in DOMAIN depth : depth[n] = k /\ n \notin Within(k)}
  <1> SUFFICES ASSUME T # {} PROVE FALSE
    BY DEF TreeShape
  <1>1. PICK k \in T : \A i \in T : k <= i
    <2> HIDE DEF T
    <2>1. T \in SUBSET Nat
      BY DEF T
    <2> QED BY <2>1, LeastNumber
  <1>2. PICK n \in DOMAIN depth : depth[n] = k /\ n \notin Within(k)
    BY <1>1
  <1>3. n # call.from
    <2> SUFFICES ASSUME n = call.from PROVE FALSE
      OBVIOUS
    <2>1. nodes # <<>>
      <3>1. PICK i \in DOMAIN nodes : nodes[i] = n
        BY DEF TreeShape, Range
      <3> QED BY <3>1, NoElements
    <2> QED BY <1>2, <2>1, WithinIs DEF TreeShape
  <1>4. /\ parent[n] \in DOMAIN depth /\ depth[n] = depth[parent[n]] + 1
        /\ n \in Followed(parent[n]) /\ depth[parent[n]] \in Nat
    BY <1>2, <1>3 DEF TreeShape
  <1>5. depth[parent[n]] \notin T
    BY <1>1, <1>2, <1>4
  <1>6. parent[n] \in Within(depth[parent[n]])
    BY <1>4, <1>5
  <1>7. n \in Within(depth[parent[n]] + 1)
    <2> DEFINE q == parent[n]
               e == depth[q]
    <2>1. q \in Within(e) /\ n \in Linked(q) /\ e \in Nat
      BY <1>4, <1>6, FollowedIs
    <2>2. Within(e + 1) = Within(e) \union UNION {Linked(x) : x \in Within(e)}
      BY <2>1, WithinIs
    <2> HIDE DEF q, e
    <2>3. n \in Within(e + 1)
      BY <2>1, <2>2
    <2> QED BY <2>3 DEF e, q
  <1> QED BY <1>2, <1>4, <1>7

-----------------------------------------------------------------------------
(* The tree grows.                                                         *)

LEMMA SameGraphFollowed ==
  ASSUME UNCHANGED <<index, call>>
  PROVE  /\ \A n : Followed(n)' = Followed(n)
         /\ Rows' = Rows
  BY DEF Followed, Successors, Rows

(* The nodes of a query come each once.                                    *)
LEMMA OrderIsAll ==
  ASSUME NEW S, IsFiniteSet(S), NEW sorted, NEW o \in Orders(S, sorted)
  PROVE  /\ o \in Seq(S) /\ DOMAIN o = 1..Len(o)
         /\ \A i, j \in DOMAIN o : o[i] = o[j] => i = j
         /\ \A x \in S : \E i \in DOMAIN o : o[i] = x
  <1> DEFINE n == Cardinality(S)
  <1>1. n \in Nat
    BY FS_CardinalityType
  <1>2. /\ o \in [1..n -> S]
        /\ \A i, j \in 1..n : i < j => o[i] # o[j]
    BY DEF Orders
  <1> HIDE DEF n
  <1>3. \A i, j \in 1..n : o[i] = o[j] => i = j
    <2> SUFFICES ASSUME NEW i \in 1..n, NEW j \in 1..n, i # j PROVE o[i] # o[j]
      OBVIOUS
    <2>1. i < j \/ j < i
      OBVIOUS
    <2> QED BY <1>2, <2>1
  <1>4. o \in Injection(1..n, S)
    BY <1>2, <1>3 DEF Injection, IsInjective
  <1>5. Cardinality(1..n) = n
    BY <1>1, FS_Interval
  <1>6. o \in Surjection(1..n, S)
    BY <1>4, <1>5, FS_Injection DEF n
  <1>7. \A x \in S : \E i \in 1..n : o[i] = x
    BY <1>6 DEF Surjection
  <1>8. o \in Seq(S) /\ Len(o) = n /\ DOMAIN o = 1..n
    BY <1>1, <1>2
  <1> QED BY <1>3, <1>7, <1>8

(* A tree of one node.                                                     *)
LEMMA Planted ==
  ASSUME NEW root, PlantRoot(root), call'.from = root, DepthLimit' \in Nat
  PROVE  /\ TreeShape' /\ Layers' /\ Explored'
         /\ Len(nodes') = 1 /\ nodes' # <<>>
         /\ DOMAIN depth' = {root}
  <1>1. /\ nodes' = <<root>> /\ head' = 1 /\ parent' = <<>>
        /\ depth' = [n \in {root} |-> 0]
    BY DEF PlantRoot
  <1>2. DOMAIN depth' = {root} /\ depth'[root] = 0
    BY <1>1
  <1>3. /\ nodes' \in Seq({root}) /\ Len(nodes') = 1 /\ DOMAIN nodes' = {1}
        /\ nodes'[1] = root
    BY <1>1
  <1>4. DOMAIN parent' = {}
    BY <1>1, NoElements
  <1>5. TreeShape'
    <2>1. Range(nodes') = {root}
      BY <1>3 DEF Range
    <2>2. head' \in 1..(Len(nodes') + 1)
      BY <1>1, <1>3
    <2> QED BY <1>1, <1>2, <1>3, <1>4, <2>1, <2>2 DEF TreeShape
  <1>6. Layers'
    BY <1>1, <1>2, <1>3 DEF Layers
  <1>7. Explored'
    BY <1>1, <1>3, <1>4 DEF Explored
  <1>8. nodes' # <<>>
    BY <1>1
  <1> QED BY <1>2, <1>3, <1>5, <1>6, <1>7, <1>8

(* The call's limits are numbers.                                          *)
LEMMA Limits ==
  ASSUME Tables
  PROVE  /\ DepthLimit \in Nat /\ DepthLimit >= 1
         /\ BfsDepth \in Nat /\ BfsDepth >= 1 /\ TraceDepth \in Nat /\ TraceDepth >= 1
         /\ BfsNodes \in Nat /\ BfsNodes >= 1
  <1>1. call.maxDepth \in Int /\ call.maxNodes \in Int
    BY DEF Tables, CallsOf
  <1>2. BfsDepth \in Nat /\ BfsDepth >= 1 /\ TraceDepth \in Nat /\ TraceDepth >= 1
    BY <1>1 DEF BfsDepth, TraceDepth, DefaultMaxDepth, TraceMaxDepth
  <1>3. BfsNodes \in Nat /\ BfsNodes >= 1
    BY <1>1 DEF BfsNodes, DefaultMaxNodes
  <1> QED BY <1>2, <1>3 DEF DepthLimit

(* The newcomers of an expansion keep the shape of the tree and its layers. *)
LEMMA Joined ==
  ASSUME Tables, TreeShape, Layers, head \in DOMAIN nodes, nodes # <<>>,
         depth[nodes[head]] < DepthLimit,
         NEW fresh, fresh \cap DOMAIN depth = {},
         NEW new \in Seq(fresh), \A i, j \in DOMAIN new : new[i] = new[j] => i = j,
         Join(nodes[head], new), head' \in {head, head + 1}, UNCHANGED call
  PROVE  /\ TreeShape' /\ Layers'
         /\ Len(nodes') = Len(nodes) + Len(new)
         /\ \A i \in DOMAIN nodes : i \in DOMAIN nodes' /\ nodes'[i] = nodes[i]
         /\ DOMAIN depth' = DOMAIN depth \union Range(new)
         /\ DOMAIN parent' = DOMAIN parent \union Range(new)
         /\ \A n \in DOMAIN depth : depth'[n] = depth[n]
         /\ \A n \in DOMAIN parent : parent'[n] = parent[n]
         /\ \A n \in Range(new) : /\ depth'[n] = depth[nodes[head]] + 1
                                  /\ parent'[n] = nodes[head]
  <1> DEFINE cur == nodes[head]
             got == Range(new)
             k == Len(nodes)
  <1>1. got = {new[i] : i \in DOMAIN new}
    BY DEF Range
  <1>2. /\ nodes' = nodes \o new
        /\ parent' = [s \in DOMAIN parent \union got |-> IF s \in got THEN cur ELSE parent[s]]
        /\ depth' = [s \in DOMAIN depth \union got |->
                       IF s \in got THEN depth[cur] + 1 ELSE depth[s]]
        /\ call' = call
    BY <1>1 DEF Join
  <1>3. /\ nodes \in Seq(DOMAIN depth) /\ k \in Nat /\ DOMAIN nodes = 1..k
        /\ Len(new) \in Nat /\ DOMAIN new = 1..Len(new)
        /\ DOMAIN depth = Range(nodes) /\ cur \in DOMAIN depth
        /\ DOMAIN parent \subseteq DOMAIN depth
    <2>1. nodes \in Seq(DOMAIN depth) /\ DOMAIN depth = Range(nodes)
          /\ DOMAIN parent \subseteq DOMAIN depth
      BY DEF TreeShape
    <2>2. cur \in Range(nodes)
      BY DEF Range
    <2> QED BY <2>1, <2>2, LenProperties
  <1>4. got \subseteq fresh
    BY <1>3, ElementOfSeq DEF Range
  <1>5. /\ DOMAIN depth' = DOMAIN depth \union got
        /\ \A n \in DOMAIN depth : depth'[n] = depth[n] /\ n \notin got
        /\ \A n \in got : depth'[n] = depth[cur] + 1 /\ n \notin DOMAIN depth
        /\ DOMAIN parent' = DOMAIN parent \union got
        /\ \A n \in DOMAIN parent : parent'[n] = parent[n]
        /\ \A n \in got : parent'[n] = cur
    BY <1>2, <1>3, <1>4
  <1> DEFINE S == DOMAIN depth \union got
  <1>6. /\ nodes' \in Seq(S) /\ Len(nodes') = k + Len(new)
        /\ DOMAIN nodes' = 1..(k + Len(new))
        /\ \A i \in 1..k : nodes'[i] = nodes[i]
        /\ \A i \in 1..Len(new) : nodes'[k + i] = new[i]
    <2>1. nodes \in Seq(S) /\ new \in Seq(S)
      <3>1. \A i \in 1..Len(new) : new[i] \in S
        BY <1>3 DEF Range
      <3>2. \A i \in 1..k : nodes[i] \in S
        BY <1>3, ElementOfSeq
      <3> HIDE DEF S
      <3> QED BY <1>3, <3>1, <3>2
    <2> HIDE DEF S
    <2>2. /\ nodes \o new \in Seq(S) /\ Len(nodes \o new) = k + Len(new)
          /\ \A i \in 1..(k + Len(new)) :
               (nodes \o new)[i] = IF i <= k THEN nodes[i] ELSE new[i - k]
      BY <2>1, ConcatProperties
    <2>3. /\ \A i \in 1..k : i \in 1..(k + Len(new)) /\ i <= k
          /\ \A i \in 1..Len(new) : /\ k + i \in 1..(k + Len(new)) /\ ~(k + i <= k)
                                    /\ (k + i) - k = i
      BY <1>3
    <2>4. DOMAIN (nodes \o new) = 1..(k + Len(new))
      BY <1>3, <2>2, LenProperties
    <2> QED BY <1>2, <2>2, <2>3, <2>4
  <1>7. \A i \in 1..(k + Len(new)) : i \in 1..k \/ \E j \in 1..Len(new) : i = k + j
    <2> SUFFICES ASSUME NEW i \in 1..(k + Len(new)), i \notin 1..k
                 PROVE  \E j \in 1..Len(new) : i = k + j
      OBVIOUS
    <2>1. i - k \in 1..Len(new) /\ i = k + (i - k)
      BY <1>3
    <2> QED BY <2>1
  <1>8. \A i \in 1..Len(new) : new[i] \in got
    BY <1>3 DEF Range
  <1>9. \A i \in 1..k : nodes[i] \in DOMAIN depth
    BY <1>3, ElementOfSeq
  <1>10. \A n \in DOMAIN depth : depth[n] \in Nat
    BY DEF TreeShape
  <1> HIDE DEF k, got, S, cur
  <1>11. TreeShape'
    <2>1. nodes' \in Seq(DOMAIN depth')
      BY <1>5, <1>6 DEF S
    <2>2. head' \in 1..(Len(nodes') + 1)
      <3>1. head \in 1..k
        BY <1>3
      <3> QED BY <1>3, <1>6, <3>1
    <2>3. \A i, j \in DOMAIN nodes' : nodes'[i] = nodes'[j] => i = j
      <3> SUFFICES ASSUME NEW i \in 1..(k + Len(new)), NEW j \in 1..(k + Len(new)),
                          nodes'[i] = nodes'[j]
                   PROVE  i = j
        BY <1>6
      <3>1. CASE i \in 1..k /\ j \in 1..k
        BY <1>3, <1>6, <3>1 DEF TreeShape
      <3>2. CASE i \in 1..k /\ j \notin 1..k
        BY <1>5, <1>6, <1>7, <1>8, <1>9, <3>2
      <3>3. CASE i \notin 1..k /\ j \in 1..k
        BY <1>5, <1>6, <1>7, <1>8, <1>9, <3>3
      <3>4. CASE i \notin 1..k /\ j \notin 1..k
        <4>1. PICK a \in 1..Len(new) : i = k + a
          BY <1>7, <3>4
        <4>2. PICK b \in 1..Len(new) : j = k + b
          BY <1>7, <3>4
        <4>3. new[a] = new[b]
          BY <1>6, <4>1, <4>2
        <4>4. a = b
          BY <1>3, <4>3
        <4> QED BY <4>1, <4>2, <4>4
      <3> QED BY <3>1, <3>2, <3>3, <3>4
    <2>4. DOMAIN depth' = Range(nodes')
      <3>1. Range(nodes') \subseteq DOMAIN depth'
        BY <1>5, <1>6, <1>7, <1>8, <1>9 DEF Range
      <3>2. \A n \in DOMAIN depth : n \in Range(nodes')
        <4> SUFFICES ASSUME NEW n \in DOMAIN depth PROVE n \in Range(nodes')
          OBVIOUS
        <4>1. PICK i \in 1..k : nodes[i] = n
          BY <1>3 DEF Range
        <4>2. i \in 1..(k + Len(new)) /\ nodes'[i] = n
          BY <1>3, <1>6, <4>1
        <4> QED BY <1>6, <4>2 DEF Range
      <3>3. \A n \in got : n \in Range(nodes')
        <4> SUFFICES ASSUME NEW n \in got PROVE n \in Range(nodes')
          OBVIOUS
        <4>1. PICK i \in 1..Len(new) : new[i] = n
          BY <1>1, <1>3
        <4>2. k + i \in 1..(k + Len(new)) /\ nodes'[k + i] = n
          BY <1>3, <1>6, <4>1
        <4> QED BY <1>6, <4>2 DEF Range
      <3> QED BY <1>5, <3>1, <3>2, <3>3
    <2>5. \A n \in DOMAIN depth' : depth'[n] \in Nat
      BY <1>3, <1>5, <1>10
    <2>6. nodes' # <<>> => nodes'[1] = call'.from /\ depth'[call'.from] = 0
      <3>1. 1 \in 1..k
        BY <1>3
      <3>2. nodes[1] = call.from /\ depth[call.from] = 0 /\ call.from \in DOMAIN depth
        BY <1>9, <3>1 DEF TreeShape
      <3> QED BY <1>2, <1>5, <1>6, <3>1, <3>2
    <2>7. DOMAIN parent' = DOMAIN depth' \ {call'.from}
      <3>1. call.from \in DOMAIN depth /\ DOMAIN parent = DOMAIN depth \ {call.from}
        <4>1. 1 \in 1..k
          BY <1>3
        <4> QED BY <1>9, <4>1 DEF TreeShape
      <3> QED BY <1>2, <1>5, <3>1
    <2>8. \A n \in DOMAIN parent' : /\ parent'[n] \in DOMAIN depth'
                                    /\ depth'[n] = depth'[parent'[n]] + 1
      <3> SUFFICES ASSUME NEW n \in DOMAIN parent'
                   PROVE  parent'[n] \in DOMAIN depth' /\ depth'[n] = depth'[parent'[n]] + 1
        OBVIOUS
      <3>1. CASE n \in got
        BY <1>3, <1>5, <3>1
      <3>2. CASE n \in DOMAIN parent
        <4>1. parent[n] \in DOMAIN depth /\ depth[n] = depth[parent[n]] + 1 /\ n \in DOMAIN depth
          BY <1>3, <3>2 DEF TreeShape
        <4> QED BY <1>5, <3>2, <4>1
      <3> QED BY <1>5, <3>1, <3>2
    <2> QED BY <2>1, <2>2, <2>3, <2>4, <2>5, <2>6, <2>7, <2>8 DEF TreeShape
  <1>12. Layers'
    <2>1. /\ \A i, j \in 1..k : i <= j => depth[nodes[i]] <= depth[nodes[j]]
          /\ \A n \in DOMAIN depth : depth[n] <= depth[cur] + 1
          /\ \A n \in DOMAIN depth : depth[n] <= DepthLimit
      BY <1>3 DEF Layers, cur
    <2>2. /\ \A i \in 1..k : depth'[nodes'[i]] = depth[nodes[i]]
          /\ \A i \in 1..Len(new) : depth'[nodes'[k + i]] = depth[cur] + 1
      BY <1>5, <1>6, <1>8, <1>9
    <2>3. \A i, j \in DOMAIN nodes' : i <= j => depth'[nodes'[i]] <= depth'[nodes'[j]]
      <3> SUFFICES ASSUME NEW i \in 1..(k + Len(new)), NEW j \in 1..(k + Len(new)), i <= j
                   PROVE  depth'[nodes'[i]] <= depth'[nodes'[j]]
        BY <1>6
      <3>1. CASE i \in 1..k /\ j \in 1..k
        BY <2>1, <2>2, <3>1
      <3>2. CASE i \in 1..k /\ j \notin 1..k
        BY <1>7, <1>9, <2>1, <2>2, <3>2
      <3>3. CASE i \notin 1..k
        <4>1. j \notin 1..k
          BY <1>3, <3>3
        <4>2. depth'[nodes'[i]] = depth[cur] + 1 /\ depth'[nodes'[j]] = depth[cur] + 1
          BY <1>7, <2>2, <3>3, <4>1
        <4>3. depth[cur] + 1 \in Nat
          BY <1>3, <1>10
        <4> QED BY <4>2, <4>3
      <3> QED BY <3>1, <3>2, <3>3
    <2>4. \A n \in DOMAIN depth' : depth'[n] <= depth[cur] + 1
      BY <1>3, <1>5, <1>10, <2>1
    <2>5. head' \in DOMAIN nodes' =>
            \A n \in DOMAIN depth' : depth'[n] <= depth'[nodes'[head']] + 1
      <3> SUFFICES ASSUME head' \in DOMAIN nodes', NEW n \in DOMAIN depth'
                   PROVE  depth'[n] <= depth'[nodes'[head']] + 1
        OBVIOUS
      <3>1. head \in DOMAIN nodes' /\ head <= head' /\ depth'[nodes'[head]] = depth[cur]
        <4>1. head \in 1..k
          BY <1>3
        <4> QED BY <1>3, <1>6, <2>2, <4>1 DEF cur
      <3>2. depth[cur] <= depth'[nodes'[head']]
        BY <2>3, <3>1
      <3>3. depth'[n] \in Nat /\ depth[cur] \in Nat /\ depth'[nodes'[head']] \in Nat
        <4>1. nodes'[head'] \in DOMAIN depth'
          BY <1>11, <1>6, LenProperties, ElementOfSeq DEF TreeShape
        <4> QED BY <1>3, <1>5, <1>10, <1>11, <4>1 DEF TreeShape
      <3> QED BY <2>4, <3>2, <3>3
    <2>6. DepthLimit' = DepthLimit /\ DepthLimit \in Nat
      BY <1>2, Limits DEF DepthLimit, TraceDepth, BfsDepth
    <2>7. \A n \in DOMAIN depth' : depth'[n] <= DepthLimit
      BY <1>3, <1>5, <1>10, <2>1, <2>6 DEF cur
    <2> QED BY <2>3, <2>5, <2>6, <2>7 DEF Layers
  <1> QED
    BY <1>3, <1>5, <1>6, <1>11, <1>12 DEF cur, got, k

(* ... and, when all the new successors are among them, what is explored.  *)
LEMMA JoinedExplored ==
  ASSUME Tables, TreeShape, Layers, Explored, head \in DOMAIN nodes, nodes # <<>>,
         depth[nodes[head]] < DepthLimit,
         NEW fresh, fresh = Fresh(Followed(nodes[head]), nodes[head]),
         NEW new \in Seq(fresh), \A i, j \in DOMAIN new : new[i] = new[j] => i = j,
         Join(nodes[head], new), UNCHANGED <<index, commits, call>>,
         head' = head \/ (head' = head + 1 /\ fresh \subseteq Range(new))
  PROVE  Explored'
  <1> DEFINE cur == nodes[head]
  <1>1. fresh \cap DOMAIN depth = {} /\ fresh = Followed(cur) \ ({cur} \union DOMAIN depth)
    BY DEF Fresh
  <1>2. /\ Len(nodes') = Len(nodes) + Len(new)
        /\ \A i \in DOMAIN nodes : i \in DOMAIN nodes' /\ nodes'[i] = nodes[i]
        /\ DOMAIN depth' = DOMAIN depth \union Range(new)
        /\ DOMAIN parent' = DOMAIN parent \union Range(new)
        /\ \A n \in DOMAIN depth : depth'[n] = depth[n]
        /\ \A n \in DOMAIN parent : parent'[n] = parent[n]
        /\ \A n \in Range(new) : depth'[n] = depth[cur] + 1 /\ parent'[n] = cur
    <2>1. head' \in {head, head + 1}
      OBVIOUS
    <2> QED BY <1>1, <2>1, Joined
  <1>3. /\ \A n : Followed(n)' = Followed(n)
        /\ commits' = commits
    BY SameGraphFollowed
  <1>4. \A i \in Nat : 1 <= i /\ i <= head => i \in DOMAIN nodes
    <2>1. DOMAIN nodes = 1..Len(nodes) /\ Len(nodes) \in Nat
      BY LenProperties DEF TreeShape
    <2> QED BY <2>1
  <1>5. cur \in DOMAIN depth /\ \A i \in DOMAIN nodes : nodes[i] \in DOMAIN depth /\ i \in Nat
    <2>1. DOMAIN nodes = 1..Len(nodes) /\ Len(nodes) \in Nat /\ nodes \in Seq(DOMAIN depth)
      BY LenProperties DEF TreeShape
    <2> QED BY <2>1, ElementOfSeq
  <1>6. Range(new) \subseteq fresh
    <2>1. DOMAIN new = 1..Len(new)
      BY LenProperties
    <2> QED BY <2>1, ElementOfSeq DEF Range
  <1>7. \A n \in DOMAIN depth : depth[n] <= depth[cur] + 1
    BY DEF Layers
  <1>8. \A n \in DOMAIN depth : depth[n] \in Nat
    BY DEF TreeShape
  <1> SUFFICES ASSUME commits = 0 PROVE Explored'
    BY <1>3 DEF Explored
  <1>9. \A n \in DOMAIN parent' : n \in Followed(parent'[n])
    BY <1>1, <1>2, <1>6 DEF Explored
  <1>10. ASSUME NEW n \in DOMAIN depth, Expanded(n) PROVE Expanded(n)'
    <2>1. \A m \in Followed(n) : /\ m \in DOMAIN depth /\ depth[m] <= depth[n] + 1
      BY <1>10 DEF Expanded
    <2>2. \A m \in Followed(n) : /\ m \in DOMAIN depth' /\ depth'[m] <= depth'[n] + 1
      BY <1>2, <2>1
    <2> QED BY <1>3, <2>2 DEF Expanded
  <1>11. ASSUME head' = head + 1, fresh \subseteq Range(new), NEW c, c = cur
         PROVE  Expanded(c)'
    <2>1. ASSUME NEW m \in Followed(c) PROVE m \in DOMAIN depth' /\ depth'[m] <= depth'[c] + 1
      <3>1. CASE m \in DOMAIN depth
        BY <1>2, <1>5, <1>7, <1>11, <3>1
      <3>2. CASE m \notin DOMAIN depth
        <4>1. m \in Range(new)
          BY <1>1, <1>5, <1>11, <3>2
        <4>2. depth'[m] = depth[cur] + 1 /\ depth'[cur] = depth[cur] /\ depth[cur] \in Nat
          BY <1>2, <1>5, <1>8, <4>1
        <4> QED BY <1>2, <1>11, <4>1, <4>2
      <3> QED BY <3>1, <3>2
    <2> HIDE DEF cur
    <2> QED BY <1>3, <2>1 DEF Expanded
  <1>12. ASSUME NEW i \in DOMAIN nodes', i < head' PROVE Expanded(nodes[i])'
    <2>1. DOMAIN nodes' = 1..Len(nodes') /\ head \in Nat /\ head' \in Nat /\ i \in Nat
      <3>1. TreeShape'
        BY <1>1, Joined
      <3>2. nodes' \in Seq(DOMAIN depth') /\ head' \in 1..(Len(nodes') + 1)
        BY <3>1 DEF TreeShape
      <3>3. DOMAIN nodes' = 1..Len(nodes') /\ Len(nodes') \in Nat
        BY <3>2
      <3>4. nodes \in Seq(DOMAIN depth) /\ head \in 1..(Len(nodes) + 1)
        BY DEF TreeShape
      <3> QED BY <1>12, <3>2, <3>3, <3>4
    <2>2. i \in DOMAIN nodes
      <3>1. 1 <= i /\ i <= head
        BY <1>12, <2>1
      <3> QED BY <1>4, <2>1, <3>1
    <2>3. nodes'[i] = nodes[i]
      BY <1>2, <2>2
    <2>4. ASSUME NEW n, n = nodes[i] PROVE Expanded(n)'
      <3>1. CASE i < head
        BY <1>5, <1>10, <2>2, <2>4, <3>1 DEF Explored
      <3>2. CASE i = head /\ head' = head + 1
        BY <1>11, <2>4, <3>2
      <3>3. i < head \/ (i = head /\ head' = head + 1)
        BY <1>12, <2>1
      <3> QED BY <3>1, <3>2, <3>3
    <2> QED BY <2>3, <2>4
  <1>13. \A i \in DOMAIN nodes' : i < head' => Expanded(nodes[i])'
    BY <1>12
  <1> QED BY <1>3, <1>9, <1>13 DEF Explored, Expanded

(* What stays when the tree does.                                          *)
LEMMA TreeFrame ==
  ASSUME TreeShape, Layers, UNCHANGED <<call, nodes, head, parent, depth>>
  PROVE  TreeShape' /\ Layers'
  <1>1. TreeShape'
    BY DEF TreeShape
  <1>2. DepthLimit' = DepthLimit
    BY DEF DepthLimit, TraceDepth, BfsDepth
  <1> QED BY <1>1, <1>2 DEF Layers

LEMMA ExploredFrame ==
  ASSUME Explored, UNCHANGED <<index, commits, call, nodes, head, parent, depth>>
  PROVE  Explored'
  <1>1. \A n : Followed(n)' = Followed(n)
    BY SameGraphFollowed
  <1>2. \A n : Expanded(n)' <=> Expanded(n)
    BY <1>1 DEF Expanded
  <1> QED BY <1>1, <1>2 DEF Explored

LEMMA PathFrame ==
  ASSUME PathInv, UNCHANGED <<index, commits, call, depth, parent, hops>>,
         pc' = "synthesize" \/ answer' = "path" => pc = "synthesize" \/ answer = "path"
  PROVE  PathInv'
  <1>1. /\ \A n : Followed(n)' = Followed(n)
        /\ Rows' = Rows
    BY SameGraphFollowed
  <1> QED BY <1>1 DEF PathInv, Shows

-----------------------------------------------------------------------------
(* The steps.                                                              *)

LEMMA InitTree == Init => TreeInv
  <1> SUFFICES ASSUME Init PROVE TreeInv
    OBVIOUS
  <1> USE DEF Init, Called
  <1>1. nodes = <<>> /\ head = 1 /\ parent = <<>> /\ depth = <<>> /\ cut = ""
    BY DEF NoTree
  <1>2. DOMAIN nodes = {} /\ DOMAIN parent = {} /\ DOMAIN depth = {} /\ Len(nodes) = 0
    <2>1. Len(<<>>) = 0
      BY EmptySeq
    <2> QED BY <1>1, <2>1, NoElements
  <1>3. Tables
    <2>1. commits = 0 /\ 0 \in 0..MaxCommits
      <3>1. MaxCommits \in Nat
        BY SearchAssumption
      <3>2. 0 \in 0..MaxCommits
        <4> HIDE DEF Init, Called
        <4> QED BY <3>1
      <3> QED BY <3>2
    <2>2. /\ index \in [Files -> UNION {Contents[f] : f \in Files}]
          /\ \A f \in Files : index[f] \in Contents[f]
      OBVIOUS
    <2>3. call \in CallsOf(Nat)
      BY SearchAssumption
    <2> QED BY <2>1, <2>2, <2>3 DEF Tables
  <1>4. TreeShape
    <2>1. Range(nodes) = {}
      BY <1>2 DEF Range
    <2>2. nodes \in Seq(DOMAIN depth)
      BY <1>1, EmptySeq
    <2>3. head \in 1..(Len(nodes) + 1)
      <3> HIDE DEF Init, Called
      <3>1. head = 1
        BY <1>1
      <3>2. Len(nodes) = 0
        BY <1>2
      <3>3. 1 \in 1..(0 + 1)
        OBVIOUS
      <3> QED BY <3>1, <3>2, <3>3, Zenon
    <2>4. DOMAIN parent = DOMAIN depth \ {call.from}
      BY <1>2
    <2> HIDE DEF Init, Called
    <2>5. /\ \A i, j \in DOMAIN nodes : nodes[i] = nodes[j] => i = j
          /\ \A n \in DOMAIN depth : depth[n] \in Nat
          /\ \A n \in DOMAIN parent : /\ parent[n] \in DOMAIN depth
                                      /\ depth[n] = depth[parent[n]] + 1
      BY <1>2
    <2>6. DOMAIN depth = Range(nodes) /\ nodes = <<>>
      BY <1>1, <1>2, <2>1
    <2> QED BY <2>2, <2>3, <2>4, <2>5, <2>6 DEF TreeShape
  <1>5. Layers /\ Explored
    BY <1>2 DEF Layers, Explored
  <1>6. Phases /\ Stopped /\ Sought /\ PathInv
    BY <1>1 DEF Phases, Stopped, Sought, PathInv
  <1> QED BY <1>3, <1>4, <1>5, <1>6 DEF TreeInv

LEMMA CommitTree ==
  ASSUME TreeInv, NEW f \in Files, Commit(f)
  PROVE  TreeInv'
  <1> USE DEF TreeInv, Commit, treeVars
  <1>1. Tables'
    <2>1. PICK c \in Contents[f] : index' = [index EXCEPT ![f] = c]
      OBVIOUS
    <2>2. commits' \in 0..MaxCommits
      BY SearchAssumption DEF Tables
    <2>3. index' \in [Files -> UNION {Contents[g] : g \in Files}]
      BY <2>1 DEF Tables
    <2>4. \A g \in Files : index'[g] \in Contents[g]
      BY <2>1 DEF Tables
    <2> QED BY <2>2, <2>3, <2>4 DEF Tables
  <1>2. TreeShape' /\ Layers'
    BY TreeFrame
  <1>3. commits' # 0
    BY DEF Tables
  <1>4. Explored'
    BY <1>3 DEF Explored
  <1>5. Phases'
    BY DEF Phases
  <1>6. Stopped'
    BY DEF Stopped, BfsNodes, BfsDepth
  <1>7. Sought'
    BY DEF Sought, TraceDepth
  <1>8. PathInv'
    BY <1>3 DEF PathInv
  <1> QED BY <1>1, <1>2, <1>4, <1>5, <1>6, <1>7, <1>8

(* Steps that leave the tables and the tree alone.                         *)
LEMMA CalmTree ==
  ASSUME TreeInv, UNCHANGED <<index, commits, call, nodes, head, parent, depth>>
  PROVE  Tables' /\ TreeShape' /\ Layers' /\ Explored'
  BY TreeFrame, ExploredFrame DEF TreeInv, Tables

(* BFS plants the root; with room for one node that is all.                *)
LEMMA BeginTree ==
  ASSUME TreeInv, NEW root, Begin(root), call.tool = "dependents",
         pc \in {"called", "candidates"}, Tables', call' = [call EXCEPT !.from = root],
         UNCHANGED <<index, commits, hops>>
  PROVE  TreeInv'
  <1> USE DEF TreeInv
  <1>1. answer = "" /\ nodes = <<>> /\ \E names : call \in CallsOf(names)
    BY DEF Phases, Tables
  <1>2. call'.tool = "dependents" /\ call'.from = root
    BY <1>1 DEF CallsOf
  <1>3. /\ PlantRoot(root)
        /\ \/ BfsNodes <= 1 /\ cut' = "max_nodes" /\ pc' = "done" /\ answer' = "no dependents"
           \/ ~(BfsNodes <= 1) /\ cut' = "" /\ pc' = "expand" /\ answer' = ""
    BY <1>1 DEF Begin, Answer
  <1>4. BfsNodes' = BfsNodes /\ DepthLimit' = DepthLimit
    BY <1>1 DEF BfsNodes, DepthLimit, TraceDepth, BfsDepth, CallsOf
  <1>5. /\ BfsNodes \in Nat /\ BfsNodes >= 1 /\ DepthLimit \in Nat
    BY Limits
  <1>6. /\ TreeShape' /\ Layers' /\ Explored'
        /\ Len(nodes') = 1 /\ nodes' # <<>>
    BY <1>2, <1>3, <1>4, <1>5, Planted
  <1>7. Phases'
    BY <1>2, <1>3, <1>6 DEF Phases
  <1>8. Stopped'
    <2>1. CASE BfsNodes <= 1
      <3>1. BfsNodes' = Len(nodes') /\ Len(nodes') <= 1
        BY <1>4, <1>5, <1>6, <2>1
      <3>2. cut' = "max_nodes" /\ pc' = "done"
        BY <1>3, <2>1
      <3> QED BY <3>1, <3>2 DEF Stopped
    <2>2. CASE ~(BfsNodes <= 1)
      <3>1. Len(nodes') < BfsNodes'
        BY <1>4, <1>5, <1>6, <2>2
      <3>2. pc' = "expand" /\ answer' = ""
        BY <1>3, <2>2
      <3> QED BY <3>1, <3>2 DEF Stopped
    <2> QED BY <2>1, <2>2
  <1>9. Sought' /\ PathInv'
    BY <1>2, <1>3 DEF Sought, PathInv
  <1> QED BY <1>6, <1>7, <1>8, <1>9

LEMMA StartDependentsTree ==
  ASSUME TreeInv, StartDependents
  PROVE  TreeInv'
  <1>1. /\ Tables' /\ UNCHANGED <<index, commits, call, hops>> /\ pc = "called" /\ answer = ""
        /\ call.tool = "dependents" /\ nodes = <<>>
    BY DEF TreeInv, Tables, Phases, StartDependents
  <1>2. CASE Begin(call.from)
    <2>1. call' = [call EXCEPT !.from = call.from]
      <3>1. PICK names : call \in CallsOf(names)
        BY DEF TreeInv, Tables
      <3> QED BY <1>1, <3>1 DEF CallsOf
    <2> QED BY <1>1, <1>2, <2>1, BeginTree
  <1>3. CASE /\ UNCHANGED treeVars
             /\ \/ pc' = "done" /\ answer' = "not found"
                \/ pc' = "candidates" /\ answer' = answer
    <2>1. Tables' /\ TreeShape' /\ Layers' /\ Explored'
      BY <1>1, <1>3, CalmTree DEF treeVars
    <2>2. Phases' /\ Stopped' /\ Sought' /\ PathInv'
      BY <1>1, <1>3 DEF TreeInv, treeVars, Phases, Stopped, Sought, PathInv
    <2> QED BY <2>1, <2>2 DEF TreeInv
  <1> QED BY <1>2, <1>3 DEF StartDependents, Answer

LEMMA ResolveTargetTree ==
  ASSUME TreeInv, ResolveTarget
  PROVE  TreeInv'
  <1>1. /\ UNCHANGED <<index, commits, hops>> /\ pc = "candidates" /\ answer = ""
        /\ call.tool = "dependents"
    BY DEF TreeInv, Phases, ResolveTarget
  <1>2. ASSUME NEW id, call' = [call EXCEPT !.from = id], Begin(id)
        PROVE  TreeInv'
    <2>1. PICK names : call \in CallsOf(names)
      BY DEF TreeInv, Tables
    <2>2. call' \in CallsOf(names \union {id})
      BY <1>2, <2>1 DEF CallsOf
    <2>3. Tables'
      BY <1>1, <2>2 DEF TreeInv, Tables
    <2> QED BY <1>1, <1>2, <2>3, BeginTree
  <1>3. CASE pc' = "done" /\ answer' = "ambiguous" /\ UNCHANGED <<call, treeVars>>
    <2>1. Tables' /\ TreeShape' /\ Layers' /\ Explored'
      BY <1>1, <1>3, CalmTree DEF treeVars
    <2>2. Phases' /\ Stopped' /\ Sought' /\ PathInv'
      BY <1>1, <1>3 DEF TreeInv, treeVars, Phases, Stopped, Sought, PathInv
    <2> QED BY <2>1, <2>2 DEF TreeInv
  <1> QED BY <1>2, <1>3 DEF ResolveTarget, Answer

LEMMA ExpandTree ==
  ASSUME TreeInv, Expand
  PROVE  TreeInv'
  <1> USE DEF TreeInv, Expand, treeVars
  <1>1. /\ Tables' /\ index' = index /\ call' = call /\ commits' = commits /\ hops' = hops
        /\ pc = "expand" /\ answer = "" /\ cut = "" /\ nodes # <<>>
        /\ call.tool = "dependents"
    BY DEF Tables, Phases
  <1>2. CASE ~CanExpand
    <2>1. UNCHANGED <<nodes, head, parent, depth, cut>> /\ pc' = "done" /\ answer' = "error"
      BY <1>2 DEF Answer
    <2>2. Tables' /\ TreeShape' /\ Layers' /\ Explored'
      BY <2>1, CalmTree
    <2>3. Phases' /\ Stopped' /\ Sought' /\ PathInv'
      BY <1>1, <2>1 DEF Phases, Stopped, Sought, PathInv
    <2> QED BY <2>2, <2>3
  <1>3. CASE CanExpand
    <2> DEFINE cur == nodes[head]
               room == BfsNodes - Len(nodes)
               fresh == Fresh(Followed(cur), cur)
    <2>1. Followed(cur) = Successors(Rows, cur)
      BY <1>1 DEF Followed
    <2>2. PICK order \in Orders(fresh, Ordered) :
            /\ Join(cur, Limited(room, order))
            /\ IF Len(Limited(room, order)) = room
               THEN cut' = "max_nodes" /\ Render(nodes') /\ UNCHANGED head
               ELSE head' = head + 1 /\ UNCHANGED <<cut, pc, answer>>
      BY <1>3, <2>1
    <2> DEFINE new == Limited(room, order)
    <2>3. IsFiniteSet(fresh)
      <3>1. PICK U : IsFiniteSet(U) /\ \A n : Followed(n) \subseteq U
        BY Universe
      <3>2. fresh \in SUBSET U
        BY <3>1 DEF Fresh
      <3> QED BY <3>1, <3>2, FS_Subset
    <2>4. /\ order \in Seq(fresh) /\ DOMAIN order = 1..Len(order) /\ Len(order) \in Nat
          /\ \A i, j \in DOMAIN order : order[i] = order[j] => i = j
          /\ \A x \in fresh : \E i \in DOMAIN order : order[i] = x
      <3> HIDE DEF fresh
      <3> QED BY <2>3, OrderIsAll, LenProperties
    <2>5. room \in Nat /\ room >= 1 /\ BfsNodes' = BfsNodes /\ BfsNodes \in Nat /\ Len(nodes) \in Nat
      <3>1. BfsNodes \in Nat /\ Len(nodes) \in Nat
        BY Limits DEF TreeShape
      <3>2. Len(nodes) < BfsNodes
        BY <1>1 DEF Stopped
      <3>3. BfsNodes' = BfsNodes
        BY DEF BfsNodes
      <3> HIDE DEF fresh, new
      <3> QED BY <3>1, <3>2, <3>3
    <2> DEFINE k == IF Len(order) < room THEN Len(order) ELSE room
    <2>6. /\ new \in Seq(fresh) /\ Len(new) = k /\ DOMAIN new = 1..k
          /\ \A i \in 1..k : new[i] = order[i] /\ i \in DOMAIN order
      <3>1. k \in 0..Len(order) /\ \A i \in 1..k : i \in 1..Len(order)
        BY <2>4, <2>5
      <3>2. new = SubSeq(order, 1, k)
        BY DEF Limited
      <3> HIDE DEF k, new, fresh
      <3> QED BY <2>4, <3>1, <3>2, Prefix
    <2>7. \A i, j \in DOMAIN new : new[i] = new[j] => i = j
      <3> HIDE DEF k, new, fresh
      <3> QED BY <2>4, <2>6
    <2>8. k # room => fresh \subseteq Range(new)
      <3> SUFFICES ASSUME k # room, NEW x \in fresh PROVE x \in Range(new)
        OBVIOUS
      <3>1. k = Len(order)
        OBVIOUS
      <3> HIDE DEF k, new, fresh
      <3>2. PICK i \in DOMAIN order : order[i] = x
        BY <2>4
      <3>3. i \in DOMAIN new /\ new[i] = x
        BY <2>4, <2>6, <3>1, <3>2
      <3> QED BY <3>3 DEF Range
    <2>9. /\ Join(cur, new)
          /\ \/ k = room /\ cut' = "max_nodes" /\ Render(nodes') /\ head' = head
             \/ k # room /\ head' = head + 1 /\ cut' = cut /\ pc' = pc /\ answer' = answer
      <3> HIDE DEF k
      <3> QED BY <2>2, <2>6
    <2>10. /\ head \in DOMAIN nodes /\ depth[cur] < DepthLimit
           /\ fresh \cap DOMAIN depth = {}
      <3>1. DOMAIN nodes = 1..Len(nodes)
        BY LenProperties DEF TreeShape
      <3>2. head \in DOMAIN nodes
        <4>1. head \in 1..(Len(nodes) + 1) /\ head <= Len(nodes)
          BY DEF TreeShape
        <4> QED BY <2>5, <3>1, <4>1
      <3>3. depth[cur] < DepthLimit
        BY <1>1 DEF DepthLimit
      <3>4. fresh \cap DOMAIN depth = {}
        BY DEF Fresh
      <3> QED BY <3>2, <3>3, <3>4
    <2> HIDE DEF k, new, fresh, room
    <2>11. head' \in {head, head + 1}
      BY <2>9
    <2>12. /\ TreeShape' /\ Layers' /\ Len(nodes') = Len(nodes) + k
           /\ DOMAIN depth' = DOMAIN depth \union Range(new)
      BY <1>1, <2>6, <2>7, <2>9, <2>10, <2>11, Joined
    <2>13. Explored'
      <3>1. head' = head \/ (head' = head + 1 /\ fresh \subseteq Range(new))
        BY <2>8, <2>9
      <3> QED BY <1>1, <2>6, <2>7, <2>9, <2>10, <3>1, JoinedExplored DEF fresh
    <2>14. nodes' # <<>>
      <3>1. nodes # <<>> => Len(nodes) # 0
        BY EmptySeq DEF TreeShape
      <3>2. Len(<<>>) = 0 /\ k \in Nat
        BY <2>4, <2>5, EmptySeq DEF k
      <3>3. Len(nodes') # 0
        <4> HIDE DEF Expand, TreeInv
        <4>1. Len(nodes) # 0
          BY <1>1, <3>1
        <4>2. Len(nodes') = Len(nodes) + k
          BY <2>12
        <4>3. Len(nodes) \in Nat /\ k \in Nat
          BY <2>5, <3>2
        <4> QED BY <4>1, <4>2, <4>3
      <3> QED BY <3>2, <3>3
    <2>15. CASE k = room
      <3>1. /\ cut' = "max_nodes" /\ pc' = "done"
            /\ \/ answer' = "no dependents" /\ Len(nodes') <= 1
               \/ answer' = "tree"
        BY <2>9, <2>15 DEF Render, Answer
      <3>2. Len(nodes') = BfsNodes
        BY <2>5, <2>12, <2>15 DEF room
      <3>3. Stopped'
        BY <1>1, <2>5, <3>1, <3>2 DEF Stopped
      <3>4. Phases' /\ Sought' /\ PathInv'
        BY <1>1, <2>14, <3>1 DEF Phases, Sought, PathInv
      <3> QED BY <1>1, <2>12, <2>13, <3>3, <3>4
    <2>16. CASE k # room
      <3>1. cut' = "" /\ pc' = "expand" /\ answer' = ""
        BY <1>1, <2>9, <2>16
      <3>2. Len(nodes') < BfsNodes
        BY <2>4, <2>5, <2>12, <2>16 DEF room, k
      <3>3. Stopped'
        BY <1>1, <2>5, <3>1, <3>2 DEF Stopped
      <3>4. Phases' /\ Sought' /\ PathInv'
        BY <1>1, <2>14, <3>1 DEF Phases, Sought, PathInv
      <3> QED BY <1>1, <2>12, <2>13, <3>3, <3>4
    <2> QED BY <2>15, <2>16
  <1> QED BY <1>2, <1>3

LEMMA FinishBfsTree ==
  ASSUME TreeInv, FinishBfs
  PROVE  TreeInv'
  <1>1. /\ UNCHANGED <<index, commits, call, nodes, head, parent, depth, hops>>
        /\ pc = "expand" /\ call.tool = "dependents"
        /\ pc' = "done"
        /\ \/ answer' = "no dependents" /\ Len(nodes) <= 1
           \/ answer' = "tree"
        /\ \/ head > Len(nodes) /\ cut' = ""
           \/ head <= Len(nodes) /\ depth[nodes[head]] = BfsDepth /\ cut' = "max_depth"
    BY DEF FinishBfs, Render, Answer
  <1>2. nodes # <<>>
    BY <1>1 DEF TreeInv, Phases
  <1>3. Tables' /\ TreeShape' /\ Layers' /\ Explored'
    BY <1>1, CalmTree
  <1>4. /\ head > Len(nodes) => head \notin DOMAIN nodes
        /\ head <= Len(nodes) => head \in DOMAIN nodes
    <2>1. DOMAIN nodes = 1..Len(nodes) /\ Len(nodes) \in Nat /\ head \in 1..(Len(nodes) + 1)
      BY LenProperties DEF TreeInv, TreeShape
    <2> QED BY <2>1
  <1>5. BfsDepth' = BfsDepth
    BY <1>1 DEF BfsDepth
  <1>6. Stopped'
    BY <1>1, <1>4, <1>5 DEF Stopped
  <1>7. Phases' /\ Sought' /\ PathInv'
    BY <1>1, <1>2 DEF Phases, Sought, PathInv
  <1> QED BY <1>3, <1>6, <1>7 DEF TreeInv

LEMMA StartTraceTree ==
  ASSUME TreeInv, StartTrace
  PROVE  TreeInv'
  <1>1. /\ UNCHANGED <<index, commits, call, nodes, head, parent, depth, cut, hops>>
        /\ pc = "called" /\ call.tool = "trace_calls"
        /\ \/ pc' = "done" /\ answer' \in {"same symbol", "not found"}
           \/ pc' = "checkTo" /\ answer' = answer /\ call.from # call.to
    BY DEF StartTrace, Answer, treeVars
  <1>2. nodes = <<>> /\ head = 1 /\ answer = "" /\ cut = ""
    BY <1>1 DEF TreeInv, Phases
  <1>3. Tables' /\ TreeShape' /\ Layers' /\ Explored'
    BY <1>1, CalmTree
  <1>4. DOMAIN depth = {}
    <2>1. Range(nodes) = {}
      BY <1>2, NoElements DEF Range
    <2> QED BY <2>1 DEF TreeInv, TreeShape
  <1>5. Phases' /\ Stopped' /\ Sought' /\ PathInv'
    BY <1>1, <1>2, <1>4 DEF Phases, Stopped, Sought, PathInv
  <1> QED BY <1>3, <1>5 DEF TreeInv

LEMMA CheckToTree ==
  ASSUME TreeInv, CheckTo
  PROVE  TreeInv'
  <1>1. /\ pc = "checkTo" /\ UNCHANGED <<index, commits, call, hops>>
        /\ \/ UNCHANGED <<nodes, head, parent, depth, cut>> /\ pc' = "done" /\ answer' = "not found"
           \/ PlantRoot(call.from) /\ pc' = "expand" /\ answer' = answer /\ cut' = cut
    BY DEF CheckTo, Answer, treeVars
  <1>2. /\ call.tool = "trace_calls" /\ answer = "" /\ cut = "" /\ call.to # call.from
    BY <1>1 DEF TreeInv, Phases, Sought
  <1>3. CASE UNCHANGED <<nodes, head, parent, depth, cut>> /\ pc' = "done" /\ answer' = "not found"
    <2>1. Tables' /\ TreeShape' /\ Layers' /\ Explored'
      BY <1>1, <1>3, CalmTree
    <2>2. Phases' /\ Stopped' /\ Sought' /\ PathInv'
      BY <1>1, <1>2, <1>3 DEF Phases, Stopped, Sought, PathInv
    <2> QED BY <2>1, <2>2 DEF TreeInv
  <1>4. CASE PlantRoot(call.from) /\ pc' = "expand" /\ answer' = answer /\ cut' = cut
    <2>1. Tables'
      BY <1>1 DEF TreeInv, Tables
    <2>2. /\ TreeShape' /\ Layers' /\ Explored' /\ nodes' # <<>>
          /\ DOMAIN depth' = {call.from}
      <3>1. DepthLimit \in Nat
        BY Limits DEF TreeInv
      <3>2. DepthLimit' = DepthLimit /\ call'.from = call.from
        BY <1>1 DEF DepthLimit, TraceDepth, BfsDepth
      <3> QED BY <1>1, <1>4, <3>1, <3>2, Planted
    <2>3. Phases' /\ Stopped' /\ Sought' /\ PathInv'
      BY <1>1, <1>2, <1>4, <2>2 DEF Phases, Stopped, Sought, PathInv
    <2> QED BY <2>1, <2>2, <2>3 DEF TreeInv
  <1> QED BY <1>1, <1>3, <1>4

LEMMA FollowCallsTree ==
  ASSUME TreeInv, FollowCalls
  PROVE  TreeInv'
  <1> DEFINE cur == nodes[head]
             fresh == Fresh(Followed(cur), cur)
  <1>1. /\ pc = "expand" /\ UNCHANGED <<index, commits, call, answer, cut, hops>>
        /\ call.tool = "trace_calls" /\ head <= Len(nodes) /\ depth[cur] < TraceDepth
    BY DEF FollowCalls
  <1>2. /\ answer = "" /\ cut = "" /\ nodes # <<>> /\ Tables /\ TreeShape /\ Layers /\ Explored
        /\ call.to # call.from /\ call.to \notin DOMAIN depth
    BY <1>1 DEF TreeInv, Phases, Sought
  <1>3. Followed(cur) = RefsFrom(Rows, cur, "call", CalleeLimit)
    BY <1>1 DEF Followed
  <1>4. PICK order \in Orders(fresh, TRUE) :
          IF call.to \in fresh
          THEN /\ \E k \in DOMAIN order : /\ order[k] = call.to
                                           /\ Join(cur, SubSeq(order, 1, k))
               /\ pc' = "reconstruct" /\ head' = head
          ELSE Join(cur, order) /\ head' = head + 1 /\ pc' = pc
    BY <1>3 DEF FollowCalls
  <1>5. IsFiniteSet(fresh)
    <2>1. PICK U : IsFiniteSet(U) /\ \A n : Followed(n) \subseteq U
      BY <1>2, Universe
    <2>2. fresh \in SUBSET U
      BY <2>1 DEF Fresh
    <2> QED BY <2>1, <2>2, FS_Subset
  <1>6. /\ order \in Seq(fresh) /\ DOMAIN order = 1..Len(order) /\ Len(order) \in Nat
        /\ \A i, j \in DOMAIN order : order[i] = order[j] => i = j
        /\ \A x \in fresh : \E i \in DOMAIN order : order[i] = x
    <2> HIDE DEF fresh
    <2> QED BY <1>5, OrderIsAll, LenProperties
  <1>7. /\ head \in DOMAIN nodes /\ depth[cur] < DepthLimit
        /\ fresh \cap DOMAIN depth = {}
    <2>1. head \in DOMAIN nodes
      <3>1. DOMAIN nodes = 1..Len(nodes) /\ Len(nodes) \in Nat /\ head \in 1..(Len(nodes) + 1)
        BY <1>2, LenProperties DEF TreeShape
      <3> QED BY <1>1, <3>1
    <2>2. depth[cur] < DepthLimit
      BY <1>1 DEF DepthLimit
    <2> QED BY <2>1, <2>2 DEF Fresh
  <1>8. Tables'
    BY <1>1, <1>2 DEF Tables
  <1> HIDE DEF fresh
  <1>9. CASE call.to \in fresh
    <2>1. PICK k \in DOMAIN order : order[k] = call.to /\ Join(cur, SubSeq(order, 1, k))
      BY <1>4, <1>9
    <2> DEFINE new == SubSeq(order, 1, k)
    <2>2. k \in 1..Len(order) /\ k \in 0..Len(order) /\ \A i \in 1..k : i \in DOMAIN order
      BY <1>6
    <2>3. /\ new \in Seq(fresh) /\ Len(new) = k /\ DOMAIN new = 1..k
          /\ \A i \in 1..k : new[i] = order[i]
      BY <1>6, <2>2, Prefix
    <2>4. Join(cur, new) /\ pc' = "reconstruct" /\ head' = head
      BY <1>4, <1>9, <2>1
    <2> HIDE DEF new
    <2>5. \A i, j \in DOMAIN new : new[i] = new[j] => i = j
      BY <1>6, <2>2, <2>3
    <2>6. /\ TreeShape' /\ Layers' /\ Len(nodes') = Len(nodes) + Len(new)
          /\ DOMAIN parent' = DOMAIN parent \union Range(new)
      BY <1>1, <1>2, <1>7, <2>3, <2>4, <2>5, Joined
    <2>7. Explored'
      BY <1>1, <1>2, <1>7, <2>3, <2>4, <2>5, JoinedExplored DEF fresh
    <2>8. call.to \in DOMAIN parent'
      <3>1. k \in DOMAIN new /\ new[k] = call.to
        BY <2>1, <2>2, <2>3
      <3>2. call.to \in Range(new)
        BY <3>1 DEF Range
      <3> QED BY <2>6, <3>2
    <2>9. nodes' # <<>>
      <3>1. Len(nodes') = Len(nodes) + k /\ Len(nodes) \in Nat /\ k >= 1
        <4>1. Len(nodes) \in Nat
          BY <1>2, LenProperties DEF TreeShape
        <4>2. k \in Nat /\ k >= 1
          BY <1>6
        <4> QED BY <2>3, <2>6, <4>1, <4>2
      <3>2. Len(<<>>) = 0
        BY EmptySeq
      <3>3. Len(nodes') # 0
        BY <2>2, <3>1
      <3> QED BY <3>2, <3>3
    <2>10. Phases' /\ Stopped' /\ Sought' /\ PathInv'
      BY <1>1, <1>2, <2>4, <2>8, <2>9 DEF Phases, Stopped, Sought, PathInv
    <2> QED BY <1>8, <2>6, <2>7, <2>10 DEF TreeInv
  <1>10. CASE call.to \notin fresh
    <2>1. Join(cur, order) /\ pc' = pc /\ head' = head + 1
      BY <1>4, <1>10
    <2>2. /\ TreeShape' /\ Layers' /\ Len(nodes') = Len(nodes) + Len(order)
          /\ DOMAIN depth' = DOMAIN depth \union Range(order)
      BY <1>1, <1>2, <1>6, <1>7, <2>1, Joined
    <2>3. fresh \subseteq Range(order)
      BY <1>6 DEF Range
    <2>4. Explored'
      BY <1>1, <1>2, <1>6, <1>7, <2>1, <2>3, JoinedExplored DEF fresh
    <2>5. call.to \notin DOMAIN depth'
      <3>1. Range(order) \subseteq fresh
        BY <1>6, ElementOfSeq DEF Range
      <3> QED BY <1>2, <1>10, <2>2, <3>1
    <2>6. nodes' # <<>>
      <3>1. Len(nodes') = Len(nodes) + Len(order) /\ Len(nodes) \in Nat /\ Len(order) \in Nat
        <4>1. Len(nodes) \in Nat
          BY <1>2, LenProperties DEF TreeShape
        <4> QED BY <1>6, <2>2, <4>1
      <3>2. Len(<<>>) = 0 /\ Len(nodes) # 0
        BY <1>2, EmptySeq DEF TreeShape
      <3>3. Len(nodes') # 0
        BY <3>1, <3>2
      <3> QED BY <3>2, <3>3
    <2>7. Phases' /\ Stopped' /\ Sought' /\ PathInv'
      BY <1>1, <1>2, <2>1, <2>5, <2>6 DEF Phases, Stopped, Sought, PathInv
    <2> QED BY <1>8, <2>2, <2>4, <2>7 DEF TreeInv
  <1> QED BY <1>9, <1>10

LEMMA NoPathTree ==
  ASSUME TreeInv, NoPath
  PROVE  TreeInv'
  <1>1. /\ UNCHANGED <<index, commits, call, nodes, head, parent, depth, cut, hops>>
        /\ pc = "expand" /\ call.tool = "trace_calls"
        /\ pc' = "done" /\ answer' = "no path"
        /\ head <= Len(nodes) => depth[nodes[head]] = TraceDepth
    BY DEF NoPath, Answer, treeVars
  <1>2. nodes # <<>> /\ cut = "" /\ call.to \notin DOMAIN depth
    BY <1>1 DEF TreeInv, Phases, Sought
  <1>3. Tables' /\ TreeShape' /\ Layers' /\ Explored'
    BY <1>1, CalmTree
  <1>4. head \in DOMAIN nodes => head <= Len(nodes)
    <2>1. DOMAIN nodes = 1..Len(nodes) /\ Len(nodes) \in Nat
      BY LenProperties DEF TreeInv, TreeShape
    <2> QED BY <2>1
  <1>5. TraceDepth' = TraceDepth
    BY <1>1 DEF TraceDepth
  <1>6. Sought'
    BY <1>1, <1>2, <1>4, <1>5 DEF Sought
  <1>7. Phases' /\ Stopped' /\ PathInv'
    BY <1>1, <1>2 DEF Phases, Stopped, PathInv
  <1> QED BY <1>3, <1>6, <1>7 DEF TreeInv

(* The chain of parents PathFromRoot follows.                              *)
LEMMA Chain ==
  ASSUME NEW n
  PROVE  \E up : /\ up[0] = n
                 /\ \A i \in Nat : up[i + 1] = parent[up[i]]
                 /\ PathFromRoot(n) = [i \in 1..(depth[n] + 1) |-> up[depth[n] + 1 - i]]
  <1> DEFINE chain(up) == up = [i \in Nat |-> IF i = 0 THEN n ELSE parent[up[i - 1]]]
             up == CHOOSE g : chain(g)
  <1>1. chain(up)
    <2>1. PICK g : AreIterates(g, parent, n)
      BY Iterates, Zenon
    <2>2. chain(g)
      <3> DEFINE r == [i \in Nat |-> IF i = 0 THEN n ELSE parent[g[i - 1]]]
      <3>1. r = [i \in Nat |-> r[i]] /\ \A i \in Nat : g[i] = r[i]
        BY <2>1 DEF AreIterates
      <3>2. g = r
        <4> HIDE DEF r
        <4> QED BY <2>1, <3>1 DEF AreIterates
      <3> QED BY <3>2
    <2> HIDE DEF chain
    <2> QED BY <2>2
  <1>2. PathFromRoot(n) = [i \in 1..(depth[n] + 1) |-> up[depth[n] + 1 - i]]
    BY DEF PathFromRoot
  <1> HIDE DEF up
  <1>3. up[0] = n /\ \A i \in Nat : up[i + 1] = parent[up[i]]
    <2>1. \A i \in Nat : up[i] = IF i = 0 THEN n ELSE parent[up[i - 1]]
      BY <1>1
    <2>2. \A i \in Nat : i + 1 \in Nat /\ i + 1 # 0 /\ (i + 1) - 1 = i
      OBVIOUS
    <2> HIDE DEF chain
    <2> QED BY <2>1, <2>2
  <1> QED BY <1>2, <1>3

(* The parents of n up to the root are a path down the tree.               *)
LEMMA PathDown ==
  ASSUME TreeShape, NEW n \in DOMAIN parent
  PROVE  /\ depth[n] \in Nat /\ depth[n] >= 1
         /\ PathFromRoot(n) \in Seq(DOMAIN depth)
         /\ Len(PathFromRoot(n)) = depth[n] + 1
         /\ PathFromRoot(n)[1] = call.from
         /\ PathFromRoot(n)[depth[n] + 1] = n
         /\ \A i \in 1..depth[n] :
              /\ PathFromRoot(n)[i + 1] \in DOMAIN parent
              /\ PathFromRoot(n)[i] = parent[PathFromRoot(n)[i + 1]]
  <1> DEFINE d == depth[n]
             chain == PathFromRoot(n)
  <1>1. /\ \A x \in DOMAIN depth : depth[x] \in Nat
        /\ DOMAIN parent = DOMAIN depth \ {call.from}
        /\ \A x \in DOMAIN parent : parent[x] \in DOMAIN depth /\ depth[x] = depth[parent[x]] + 1
        /\ n \in DOMAIN depth
    BY DEF TreeShape
  <1>2. d \in Nat /\ d >= 1
    BY <1>1
  <1>3. PICK up : /\ up[0] = n
                  /\ \A i \in Nat : up[i + 1] = parent[up[i]]
                  /\ chain = [i \in 1..(d + 1) |-> up[d + 1 - i]]
    BY Chain
  <1>4. depth[call.from] = 0
    <2>1. PICK i \in DOMAIN nodes : nodes[i] = n
      BY <1>1 DEF TreeShape, Range
    <2>2. nodes # <<>>
      BY <2>1, NoElements
    <2> QED BY <2>2 DEF TreeShape
  <1> HIDE DEF d, chain
  <1>5. \A i \in 0..d : up[i] \in DOMAIN depth /\ depth[up[i]] = d - i
    <2> DEFINE T == {i \in Nat : i <= d /\ ~(up[i] \in DOMAIN depth /\ depth[up[i]] = d - i)}
    <2> SUFFICES ASSUME T # {} PROVE FALSE
      BY <1>2
    <2>1. PICK k \in T : \A i \in T : k <= i
      <3> HIDE DEF T
      <3>1. T \in SUBSET Nat
        BY DEF T
      <3> QED BY <3>1, LeastNumber
    <2>2. k # 0
      <3>1. up[0] \in DOMAIN depth /\ depth[up[0]] = d - 0
        BY <1>1, <1>2, <1>3 DEF d
      <3> QED BY <2>1, <3>1
    <2>3. k - 1 \in Nat /\ k - 1 \notin T /\ (k - 1) + 1 = k /\ k - 1 < d
      BY <1>2, <2>1, <2>2
    <2>4. up[k - 1] \in DOMAIN depth /\ depth[up[k - 1]] = d - (k - 1) /\ d - (k - 1) > 0
      BY <1>2, <2>3
    <2>5. up[k - 1] \in DOMAIN parent
      BY <1>1, <1>4, <2>4
    <2>6. up[k] = parent[up[k - 1]]
      BY <1>3, <2>3
    <2>7. up[k] \in DOMAIN depth /\ depth[up[k]] \in Nat /\ depth[up[k - 1]] = depth[up[k]] + 1
      BY <1>1, <2>5, <2>6
    <2>8. depth[up[k]] = d - k
      BY <1>2, <2>3, <2>4, <2>7
    <2> QED BY <2>7, <2>8
  <1>6. \A i \in 1..(d + 1) : d + 1 - i \in 0..d /\ chain[i] = up[d + 1 - i]
    BY <1>2, <1>3
  <1>7. chain \in Seq(DOMAIN depth) /\ Len(chain) = d + 1
    <2>1. chain \in [1..(d + 1) -> DOMAIN depth]
      BY <1>3, <1>5, <1>6
    <2> QED BY <1>2, <2>1
  <1>8. chain[1] = call.from /\ chain[d + 1] = n
    <2>1. chain[1] = up[d] /\ chain[d + 1] = up[0]
      <3>1. 1 \in 1..(d + 1) /\ d + 1 - 1 = d /\ d + 1 \in 1..(d + 1) /\ d + 1 - (d + 1) = 0
        BY <1>2
      <3> QED BY <1>6, <3>1
    <2>2. up[d] \in DOMAIN depth /\ depth[up[d]] = 0
      BY <1>2, <1>5
    <2>3. up[d] = call.from
      BY <1>1, <2>2
    <2> QED BY <1>3, <2>1, <2>3
  <1>9. ASSUME NEW i \in 1..d PROVE chain[i + 1] \in DOMAIN parent /\ chain[i] = parent[chain[i + 1]]
    <2>1. /\ i + 1 \in 1..(d + 1) /\ d + 1 - (i + 1) = d - i /\ d - i \in 0..d /\ d - i \in Nat
          /\ i \in 1..(d + 1) /\ d + 1 - i = (d - i) + 1 /\ d - (d - i) = i /\ i # 0
      BY <1>2
    <2>2. chain[i + 1] = up[d - i] /\ chain[i] = up[(d - i) + 1]
      BY <1>6, <2>1
    <2>3. up[d - i] \in DOMAIN depth /\ depth[up[d - i]] = i
      BY <1>5, <2>1
    <2>4. up[d - i] \in DOMAIN parent
      BY <1>1, <1>4, <2>1, <2>3
    <2> QED BY <1>3, <2>1, <2>2, <2>4
  <1> QED BY <1>2, <1>7, <1>8, <1>9 DEF d, chain

(* A call that was followed has a row in the index.                        *)
LEMMA EdgeHasRow ==
  ASSUME Tables, call.tool = "trace_calls", NEW a, NEW b \in Followed(a)
  PROVE  ShownKinds(Rows, a, b) # {}
  <1> DEFINE db == Rows
             rows == {r \in db.refs : FromSymbol(db, r).qn = a /\ r.to = b}
             L == {r.line : r \in rows}
  <1>1. \A r \in db.refs : r.line \in Nat
    <2> SUFFICES ASSUME NEW r \in db.refs PROVE r.line \in Nat
      OBVIOUS
    <2>1. PICK f \in Files : r \in index[f].refs
      BY DEF Rows
    <2> QED BY <2>1, SearchAssumption DEF Tables
  <1>2. b \in RefsFrom(db, a, "call", CalleeLimit)
    BY DEF Followed
  <1> HIDE DEF db
  <1>3. PICK r \in db.refs : FromSymbol(db, r).qn = a /\ r.to = b
    BY <1>2 DEF RefsFrom, Referenced, Lowest, WhereKind
  <1>4. L \in SUBSET Nat /\ L # {}
    BY <1>1, <1>3
  <1>5. PICK k \in L : \A j \in L : k <= j
    <2> HIDE DEF L
    <2> QED BY <1>4, LeastNumber
  <1>6. PICK x \in rows : x.line = k
    OBVIOUS
  <1>7. \A y \in rows : x.line <= y.line
    BY <1>5, <1>6
  <1>8. x.kind \in ShownKinds(db, a, b)
    BY <1>6, <1>7 DEF ShownKinds
  <1> QED BY <1>8 DEF db

LEMMA ReconstructTree ==
  ASSUME TreeInv, Reconstruct
  PROVE  TreeInv'
  <1> DEFINE to == call.to
             d == depth[to]
             chain == PathFromRoot(to)
             found(i) == ShownKinds(Rows, chain[i], chain[i + 1]) # {}
             hop(i, kind) == [from |-> chain[i], to |-> chain[i + 1], kind |-> kind,
                              site |-> IF found(i) THEN "ref" ELSE "asked"]
  <1>1. /\ pc = "reconstruct" /\ pc' = "synthesize"
        /\ UNCHANGED <<index, commits, call, answer, nodes, head, parent, depth, cut>>
    BY DEF Reconstruct, treeVars
  <1>2. /\ Tables /\ TreeShape /\ Explored /\ to \in DOMAIN parent
        /\ call.tool = "trace_calls" /\ answer = "" /\ cut = "" /\ nodes # <<>>
    BY <1>1 DEF TreeInv, Phases, Sought
  <1>3. /\ d \in Nat /\ d >= 1 /\ chain \in Seq(DOMAIN depth) /\ Len(chain) = d + 1
        /\ chain[1] = call.from /\ chain[d + 1] = to
        /\ \A i \in 1..d : chain[i + 1] \in DOMAIN parent /\ chain[i] = parent[chain[i + 1]]
    BY <1>2, PathDown
  <1>4. PICK shown \in [1..(Len(chain) - 1) -> RefKinds] :
          /\ hops' = [i \in DOMAIN shown |-> hop(i, shown[i])]
          /\ \A i \in DOMAIN shown :
               found(i) => shown[i] \in ShownKinds(Rows, chain[i], chain[i + 1])
    BY DEF Reconstruct
  <1> HIDE DEF chain, d, to
  <1>5. Len(chain) - 1 = d
    BY <1>3
  <1>6. \A i \in 1..d : i \in 1..(d + 1) /\ i + 1 \in 1..(d + 1) /\ i \in Nat
    BY <1>3
  <1>7. \A i \in 1..d : chain[i] \in DOMAIN depth /\ chain[i + 1] \in DOMAIN depth
    BY <1>3, <1>6, ElementOfSeq
  <1>8. shown \in [1..d -> RefKinds] /\ DOMAIN shown = 1..d
    BY <1>4, <1>5
  <1> HIDE DEF found
  <1>9. \A i \in 1..d : /\ hops'[i] = hop(i, shown[i])
                        /\ hops'[i].from = chain[i] /\ hops'[i].to = chain[i + 1]
                        /\ hops'[i].kind = shown[i]
                        /\ hops'[i].site = IF found(i) THEN "ref" ELSE "asked"
    BY <1>4, <1>8
  <1>10. /\ hops' \in Seq([from : DOMAIN depth, to : DOMAIN depth, kind : RefKinds,
                           site : {"ref", "asked", "symbol", "bare"}])
         /\ Len(hops') = d /\ DOMAIN hops' = 1..d
    <2> DEFINE H == [from : DOMAIN depth, to : DOMAIN depth, kind : RefKinds,
                     site : {"ref", "asked", "symbol", "bare"}]
    <2>1. \A i \in 1..d : hop(i, shown[i]) \in H
      BY <1>7, <1>8
    <2> HIDE DEF H, hop
    <2>2. hops' \in [1..d -> H]
      BY <1>4, <1>8, <2>1
    <2>3. d \in Nat
      BY <1>3
    <2>4. hops' \in Seq(H) /\ Len(hops') = d /\ DOMAIN hops' = 1..d
      BY <2>2, <2>3
    <2> QED BY <2>4 DEF H
  <1>11. ASSUME commits = 0, NEW i \in 1..d
         PROVE  /\ hops'[i].site = "ref" /\ hops'[i].to \in Followed(hops'[i].from)
                /\ Shows(hops'[i])
    <2>1. chain[i + 1] \in Followed(chain[i])
      BY <1>2, <1>3, <1>11 DEF Explored
    <2>2. found(i)
      BY <1>2, <2>1, EdgeHasRow DEF found
    <2>3. shown[i] \in ShownKinds(Rows, chain[i], chain[i + 1])
      BY <1>4, <1>8, <2>2 DEF found
    <2>4. hops'[i].kind \in ShownKinds(Rows, hops'[i].from, hops'[i].to)
      BY <1>9, <2>3
    <2>5. Shows(hops'[i])
      BY <2>4 DEF Shows, ShownKinds
    <2> QED BY <1>9, <2>1, <2>2, <2>5
  <1>12. PathInv'
    <2>1. (\A n : Followed(n)' = Followed(n)) /\ Rows' = Rows
      BY <1>1, SameGraphFollowed
    <2>2. hops'[1].from = call.from /\ hops'[d].to = call.to
      <3>1. 1 \in 1..d /\ d \in 1..d
        BY <1>3
      <3> QED BY <1>3, <1>9, <3>1 DEF to
    <2>3. \A i \in 2..d : hops'[i].from = hops'[i - 1].to
      <3> SUFFICES ASSUME NEW i \in 2..d PROVE hops'[i].from = hops'[i - 1].to
        OBVIOUS
      <3>1. i \in 1..d /\ i - 1 \in 1..d /\ (i - 1) + 1 = i
        BY <1>3
      <3>2. hops'[i].from = chain[i]
        BY <1>9, <3>1
      <3>3. hops'[i - 1].to = chain[(i - 1) + 1]
        BY <1>9, <3>1
      <3> QED BY <3>1, <3>2, <3>3
    <2>4. call'.to = to /\ depth' = depth /\ DOMAIN parent' = DOMAIN parent /\ commits' = commits
          /\ call' = call
      BY <1>1 DEF to
    <2>5. depth'[call'.to] = d
      BY <2>4 DEF d
    <2> HIDE DEF hop
    <2> QED BY <1>2, <1>10, <1>11, <2>1, <2>2, <2>3, <2>4, <2>5 DEF PathInv, Shows
  <1>13. Tables' /\ TreeShape' /\ Layers' /\ Explored'
    BY <1>1, CalmTree
  <1>14. Phases' /\ Stopped' /\ Sought'
    BY <1>1, <1>2 DEF Phases, Stopped, Sought
  <1> QED BY <1>12, <1>13, <1>14 DEF TreeInv

LEMMA SynthesizeTree ==
  ASSUME TreeInv, Synthesize
  PROVE  TreeInv'
  <1> DEFINE asked == {i \in DOMAIN hops : hops[i].site = "asked"}
             d == depth[call.to]
             H == [from : DOMAIN depth, to : DOMAIN depth, kind : RefKinds,
                   site : {"ref", "asked", "symbol", "bare"}]
  <1>1. /\ pc = "synthesize"
        /\ UNCHANGED <<index, commits, call, nodes, head, parent, depth, cut>>
        /\ \/ pc' = "done" /\ answer' = "path" /\ hops' = hops
           \/ /\ pc' = pc /\ answer' = answer
              /\ \E i \in asked : \E site \in {"symbol", "bare"} :
                   hops' = [hops EXCEPT ![i].site = site]
    BY DEF Synthesize, Answer, treeVars
  <1>2. /\ TreeShape /\ call.tool = "trace_calls" /\ answer = "" /\ cut = "" /\ nodes # <<>>
        /\ PathInv
    BY <1>1 DEF TreeInv, Phases
  <1>3. Tables' /\ TreeShape' /\ Layers' /\ Explored'
    BY <1>1, CalmTree
  <1>4. Phases' /\ Stopped' /\ Sought'
    BY <1>1, <1>2 DEF Phases, Stopped, Sought
  <1>5. CASE pc' = "done" /\ answer' = "path" /\ hops' = hops
    <2>1. PathInv'
      BY <1>1, <1>2, <1>5, PathFrame
    <2> QED BY <1>3, <1>4, <2>1 DEF TreeInv
  <1>6. CASE \E i \in asked : \E site \in {"symbol", "bare"} :
               hops' = [hops EXCEPT ![i].site = site]
    <2>1. PICK i \in asked, site \in {"symbol", "bare"} : hops' = [hops EXCEPT ![i].site = site]
      BY <1>6
    <2>2. /\ hops \in Seq(H) /\ Len(hops) = d /\ call.to \in DOMAIN parent
          /\ hops[1].from = call.from /\ hops[d].to = call.to
          /\ \A j \in 2..d : hops[j].from = hops[j - 1].to
          /\ commits = 0 => \A j \in DOMAIN hops : hops[j].site = "ref"
      BY <1>1, <1>2 DEF PathInv
    <2>3. commits # 0
      BY <2>2
    <2>4. DOMAIN hops = 1..d /\ d \in Nat
      BY <2>2, LenProperties
    <2> DEFINE new == [hops[i] EXCEPT !.site = site]
    <2>5. new \in H /\ new.from = hops[i].from /\ new.to = hops[i].to
      <3>1. hops[i] \in H
        BY <2>2, <2>4, ElementOfSeq
      <3> QED BY <3>1
    <2>6. hops' = [hops EXCEPT ![i] = new]
      BY <2>1
    <2> HIDE DEF new, H
    <2>7. /\ hops' \in Seq(H) /\ Len(hops') = d /\ DOMAIN hops' = 1..d
          /\ \A j \in 1..d : hops'[j] = IF j = i THEN new ELSE hops[j]
      <3>1. i \in 1..Len(hops)
        BY <2>2, <2>4
      <3>2. /\ [hops EXCEPT ![i] = new] \in Seq(H)
            /\ Len([hops EXCEPT ![i] = new]) = Len(hops)
            /\ DOMAIN [hops EXCEPT ![i] = new] = DOMAIN hops
            /\ \A j \in 1..Len(hops) :
                 [hops EXCEPT ![i] = new][j] = IF j = i THEN new ELSE hops[j]
        BY <2>2, <2>5, <3>1, Changed
      <3> QED BY <2>2, <2>4, <2>6, <3>2
    <2>8. \A j \in 1..d : hops'[j].from = hops[j].from /\ hops'[j].to = hops[j].to
      BY <2>5, <2>7
    <2>9. d >= 1
      BY <1>2, <2>2, PathDown
    <2>10. /\ 1 \in 1..d /\ d \in 1..d
           /\ \A j \in 2..d : j \in 1..d /\ j - 1 \in 1..d
      BY <2>4, <2>9
    <2> HIDE DEF asked, d
    <2>11. /\ hops'[1].from = call.from /\ hops'[d].to = call.to
           /\ \A j \in 2..d : hops'[j].from = hops'[j - 1].to
      BY <2>2, <2>8, <2>10
    <2>12. depth' = depth /\ call' = call /\ parent' = parent /\ commits' = commits
           /\ depth'[call'.to] = d
      BY <1>1 DEF d
    <2>13. PathInv'
      BY <2>2, <2>3, <2>7, <2>11, <2>12 DEF PathInv, H
    <2> QED BY <1>3, <1>4, <2>13 DEF TreeInv
  <1> QED BY <1>1, <1>5, <1>6

(* The steps of circular_imports.                                          *)
LEMMA CircularTree ==
  ASSUME TreeInv,
         \/ LoadImports \/ PickRoot \/ Return \/ ReportCycles \/ \E n : Look(n)
  PROVE  TreeInv'
  <1>1. /\ UNCHANGED <<index, commits, call, nodes, head, parent, depth, cut, hops>>
        /\ \/ pc = "called" /\ pc' = "walk" /\ call.tool = "circular_imports" /\ answer' = answer
           \/ pc = "walk" /\ pc' = "walk" /\ answer' = answer
           \/ pc = "walk" /\ pc' = "done" /\ answer' \in {"no cycles", "cycles"}
    <2>1. CASE LoadImports
      BY <2>1 DEF LoadImports, treeVars
    <2>2. CASE PickRoot
      BY <2>2 DEF PickRoot, treeVars
    <2>3. CASE Return
      BY <2>3 DEF Return, treeVars
    <2>4. CASE ReportCycles
      BY <2>4 DEF ReportCycles, Answer, treeVars
    <2>5. CASE \E n : Look(n)
      BY <2>5 DEF Look, treeVars
    <2> QED BY <2>1, <2>2, <2>3, <2>4, <2>5
  <1>2. answer = "" /\ cut = "" /\ nodes = <<>> /\ head = 1
    BY <1>1 DEF TreeInv, Phases
  <1>3. Tables' /\ TreeShape' /\ Layers' /\ Explored'
    BY <1>1, CalmTree
  <1>4. Phases' /\ Stopped' /\ Sought' /\ PathInv'
    BY <1>1, <1>2 DEF TreeInv, Phases, Stopped, Sought, PathInv
  <1> QED BY <1>3, <1>4 DEF TreeInv

LEMMA TreeStep ==
  ASSUME TreeInv, [Next]_vars
  PROVE  TreeInv'
  <1>1. CASE UNCHANGED vars
    <2>1. UNCHANGED <<index, commits, call, nodes, head, parent, depth, cut, hops, pc, answer>>
      BY <1>1 DEF vars, treeVars
    <2>2. Tables' /\ TreeShape' /\ Layers' /\ Explored'
      BY <2>1, CalmTree
    <2>3. PathInv'
      BY <2>1, PathFrame DEF TreeInv
    <2>4. Stopped' /\ Sought' /\ Phases'
      BY <2>1 DEF TreeInv, Phases, Stopped, Sought, BfsNodes, BfsDepth, TraceDepth
    <2> QED BY <2>2, <2>3, <2>4 DEF TreeInv
  <1>2. CASE \E f \in Files : Commit(f)
    BY <1>2, CommitTree
  <1>3. CASE StartDependents
    BY <1>3, StartDependentsTree
  <1>13. CASE ResolveTarget
    BY <1>13, ResolveTargetTree
  <1>4. CASE Expand
    BY <1>4, ExpandTree
  <1>5. CASE FinishBfs
    BY <1>5, FinishBfsTree
  <1>6. CASE StartTrace
    BY <1>6, StartTraceTree
  <1>7. CASE CheckTo
    BY <1>7, CheckToTree
  <1>8. CASE FollowCalls
    BY <1>8, FollowCallsTree
  <1>9. CASE NoPath
    BY <1>9, NoPathTree
  <1>10. CASE Reconstruct
    BY <1>10, ReconstructTree
  <1>11. CASE Synthesize
    BY <1>11, SynthesizeTree
  <1>12. CASE LoadImports \/ PickRoot \/ Return \/ ReportCycles \/ \E n : Look(n)
    BY <1>12, CircularTree
  <1> QED
    BY <1>1, <1>2, <1>3, <1>4, <1>5, <1>6, <1>7, <1>8, <1>9, <1>10, <1>11, <1>12, <1>13
       DEF Next, Step

-----------------------------------------------------------------------------
(* What the answers say.                                                   *)

(* The root and the last node of the tree.                                 *)
LEMMA Ends ==
  ASSUME TreeShape, Layers, nodes # <<>>
  PROVE  /\ Len(nodes) \in Nat /\ Len(nodes) >= 1 /\ DOMAIN nodes = 1..Len(nodes)
         /\ call.from \in DOMAIN depth /\ depth[call.from] = 0
         /\ \A n \in DOMAIN depth : \E i \in 1..Len(nodes) : nodes[i] = n
         /\ nodes[Len(nodes)] \in DOMAIN depth
         /\ \A n \in DOMAIN depth : depth[n] <= depth[nodes[Len(nodes)]]
         /\ MaxDepthHint = depth[nodes[Len(nodes)]]
  <1> DEFINE k == Len(nodes)
             last == nodes[k]
  <1>1. k \in Nat /\ k # 0 /\ DOMAIN nodes = 1..k /\ nodes \in Seq(DOMAIN depth)
    BY EmptySeq, LenProperties DEF TreeShape
  <1> HIDE DEF k
  <1>2. k >= 1 /\ 1 \in 1..k /\ k \in 1..k
    BY <1>1
  <1>3. \A i \in 1..k : nodes[i] \in DOMAIN depth
    BY <1>1, ElementOfSeq DEF k
  <1>4. \A n \in DOMAIN depth : \E i \in 1..k : nodes[i] = n
    BY <1>1 DEF TreeShape, Range
  <1>5. call.from \in DOMAIN depth /\ depth[call.from] = 0
    BY <1>2, <1>3 DEF TreeShape
  <1>6. \A n \in DOMAIN depth : depth[n] <= depth[last]
    <2> SUFFICES ASSUME NEW n \in DOMAIN depth PROVE depth[n] <= depth[last]
      OBVIOUS
    <2>1. PICK i \in 1..k : nodes[i] = n
      BY <1>4
    <2>2. i <= k
      BY <1>1
    <2> QED BY <1>1, <1>2, <2>1, <2>2 DEF Layers
  <1>7. MaxDepthHint = depth[last]
    <2> DEFINE D == {depth[n] : n \in DOMAIN depth}
               top(d) == \A n \in DOMAIN depth : depth[n] <= d
    <2>1. depth[last] \in D /\ top(depth[last])
      BY <1>2, <1>3, <1>6
    <2>2. \A d \in D : top(d) => d = depth[last]
      <3> SUFFICES ASSUME NEW n \in DOMAIN depth, top(depth[n]) PROVE depth[n] = depth[last]
        OBVIOUS
      <3>1. depth[last] <= depth[n] /\ depth[n] <= depth[last]
        BY <1>2, <1>3, <1>6
      <3>2. depth[last] \in Nat /\ depth[n] \in Nat
        BY <1>2, <1>3 DEF TreeShape
      <3> QED BY <3>1, <3>2
    <2>3. MaxDepthHint = CHOOSE d \in D : top(d)
      BY DEF MaxDepthHint
    <2> HIDE DEF D, top, last
    <2> QED BY <2>1, <2>2, <2>3
  <1> QED BY <1>1, <1>2, <1>3, <1>4, <1>5, <1>6, <1>7 DEF k

(* The layers above the one being expanded are expanded.                   *)
LEMMA UpperIsExpanded ==
  ASSUME TreeShape, Layers, Explored, nodes # <<>>, commits = 0, NEW n \in DOMAIN depth,
         head \in DOMAIN nodes => depth[n] < depth[nodes[head]]
  PROVE  Expanded(n)
  <1>1. PICK i \in 1..Len(nodes) : nodes[i] = n
    BY Ends
  <1>2. /\ Len(nodes) \in Nat /\ DOMAIN nodes = 1..Len(nodes) /\ head \in 1..(Len(nodes) + 1)
    BY Ends DEF TreeShape
  <1>3. i < head
    <2>1. CASE head \in DOMAIN nodes
      <3> SUFFICES ASSUME head <= i PROVE FALSE
        BY <1>2, <2>1
      <3>1. depth[nodes[head]] <= depth[n] /\ depth[n] < depth[nodes[head]]
        BY <1>1, <1>2, <2>1 DEF Layers
      <3>2. depth[n] \in Nat /\ depth[nodes[head]] \in Nat
        BY <2>1, <1>2, ElementOfSeq DEF TreeShape
      <3> QED BY <3>1, <3>2
    <2>2. CASE head \notin DOMAIN nodes
      BY <1>2, <2>2
    <2> QED BY <2>1, <2>2
  <1> QED BY <1>1, <1>2, <1>3 DEF Explored

(* No node could have been found nearer to the root.                       *)
LEMMA Nearest ==
  ASSUME Tables, TreeShape, Layers, Explored, nodes # <<>>, commits = 0,
         NoneCrowded, NEW d \in Nat, NEW n \in DOMAIN depth, depth[n] = d + 1
  PROVE  /\ n \notin Within(d)
         /\ Within(d) \subseteq DOMAIN depth
  <1>1. ASSUME NEW m \in DOMAIN depth, depth[m] < d PROVE Expanded(m)
    <2>1. ASSUME head \in DOMAIN nodes PROVE depth[m] < depth[nodes[head]]
      <3>1. depth[n] <= depth[nodes[head]] + 1
        BY <2>1 DEF Layers
      <3>2. depth[m] \in Nat /\ depth[nodes[head]] \in Nat
        BY <2>1, Ends, ElementOfSeq DEF TreeShape
      <3> QED BY <1>1, <3>1, <3>2
    <2> QED BY <2>1, UpperIsExpanded
  <1>2. \A x \in Within(d) : x \in DOMAIN depth /\ depth[x] <= d
    BY <1>1, NearIsHigh
  <1>3. ~(d + 1 <= d)
    OBVIOUS
  <1> QED BY <1>2, <1>3

LEMMA ExactTree ==
  ASSUME TreeInv
  PROVE  TreeIsExact
  <1>0. SUFFICES ASSUME Quiet, answer \in {"tree", "no dependents"}
                 PROVE  TreeIsExact
    BY DEF TreeIsExact
  <1> DEFINE last == nodes[Len(nodes)]
  <1>1. /\ Tables /\ TreeShape /\ Layers /\ Explored /\ commits = 0
        /\ nodes # <<>> /\ call.tool = "dependents" /\ cut \in {"", "max_depth", "max_nodes"}
    BY <1>0 DEF TreeInv, Phases, Quiet
  <1>2. /\ Len(nodes) \in Nat /\ Len(nodes) >= 1 /\ DOMAIN nodes = 1..Len(nodes)
        /\ call.from \in DOMAIN depth /\ depth[call.from] = 0
        /\ \A n \in DOMAIN depth : \E i \in 1..Len(nodes) : nodes[i] = n
        /\ last \in DOMAIN depth
        /\ \A n \in DOMAIN depth : depth[n] <= depth[last]
        /\ MaxDepthHint = depth[last]
    BY <1>1, Ends
  <1>3. \A n \in DOMAIN depth : depth[n] \in Nat
    BY <1>1 DEF TreeShape
  <1>4. BfsDepth \in Nat /\ BfsDepth >= 1 /\ DepthLimit = BfsDepth
    BY <1>1, Limits DEF DepthLimit
  <1>5. /\ cut = "" => head \notin DOMAIN nodes
        /\ cut = "max_depth" => head \in DOMAIN nodes /\ depth[nodes[head]] = BfsDepth
        /\ cut = "max_nodes" => Len(nodes) = BfsNodes
        /\ answer = "no dependents" => Len(nodes) <= 1
    BY <1>0 DEF TreeInv, Stopped
  <1>6. \A n \in DOMAIN depth : n \in Within(depth[n])
    BY <1>1, HighIsNear DEF Explored
  <1>14. ASSUME NEW n \in DOMAIN depth, Crowded(n), cut # "max_nodes", depth[n] < BfsDepth
         PROVE  Cardinality(Linked(n) \intersect DOMAIN depth) >= RowLimit
    <2>1. Expanded(n)
      BY <1>1, <1>5, <1>14, UpperIsExpanded
    <2>2. /\ Followed(n) \subseteq Linked(n) \intersect DOMAIN depth
          /\ IsFiniteSet(Linked(n) \intersect DOMAIN depth)
      <3>1. Followed(n) \subseteq Linked(n) /\ IsFiniteSet(Linked(n))
        BY <1>1, FollowedIs
      <3> QED BY <2>1, <3>1, FS_Subset DEF Expanded
    <2>3. Cardinality(Followed(n)) >= RowsAsked /\ RowsAsked = RowLimit
      BY <1>1, <1>14, FollowedIs DEF RowsAsked
    <2>4. /\ Cardinality(Followed(n)) <= Cardinality(Linked(n) \intersect DOMAIN depth)
          /\ Cardinality(Followed(n)) \in Nat
          /\ Cardinality(Linked(n) \intersect DOMAIN depth) \in Nat
      BY <2>2, FS_Subset, FS_CardinalityType
    <2> QED BY <2>3, <2>4, SearchAssumption
  <1>7. ASSUME NoneCrowded, NEW n \in DOMAIN depth, depth[n] > 0
        PROVE  /\ n \notin Within(depth[n] - 1)
               /\ Within(depth[n] - 1) \subseteq DOMAIN depth
    <2>1. depth[n] - 1 \in Nat /\ depth[n] = (depth[n] - 1) + 1
      BY <1>3, <1>7
    <2> QED BY <1>1, <1>7, <2>1, Nearest
  <1>8. cut = "" => \A n \in DOMAIN depth : Expanded(n)
    BY <1>1, <1>5, UpperIsExpanded
  <1>9. cut = "" /\ NoneCrowded => UNION {Linked(n) : n \in DOMAIN depth} \subseteq DOMAIN depth
    BY <1>1, <1>8, FollowedIs DEF Expanded, NoneCrowded
  <1>10. ASSUME NoneCrowded, cut = "max_depth" PROVE DOMAIN depth = Within(BfsDepth)
    <2>1. \A n \in DOMAIN depth : depth[n] < BfsDepth => Expanded(n)
      BY <1>1, <1>5, <1>10, UpperIsExpanded
    <2>2. Within(BfsDepth) \subseteq DOMAIN depth
      <3>1. BfsDepth <= BfsDepth
        BY <1>4
      <3> QED BY <1>1, <1>4, <1>10, <2>1, <3>1, NearIsHigh
    <2>3. ASSUME NEW n \in DOMAIN depth PROVE n \in Within(BfsDepth)
      <3>1. depth[n] <= BfsDepth
        BY <1>1, <1>4 DEF Layers
      <3> QED BY <1>1, <1>3, <1>4, <1>6, <3>1, WithinGrows
    <2> QED BY <2>2, <2>3
  <1>11. NoneCrowded /\ MaxDepthHint > 0 => Within(MaxDepthHint - 1) \subseteq DOMAIN depth
    BY <1>2, <1>7
  <1>12. NoneCrowded => Within(BfsDepth + 1) \subseteq DOMAIN depth \/ MarkedLeaves # {}
    <2>1. CASE cut = ""
      <3>1. BfsDepth + 1 \in Nat /\ BfsDepth + 1 <= BfsDepth + 1
        BY <1>4
      <3> QED BY <1>1, <1>8, <2>1, <3>1, NearIsHigh
    <2>2. CASE cut # ""
      <3>1. Children(last) = {}
        <4> SUFFICES ASSUME NEW c \in DOMAIN parent, parent[c] = last PROVE FALSE
          BY DEF Children
        <4>1. c \in DOMAIN depth /\ depth[c] = depth[last] + 1
          BY <1>1 DEF TreeShape
        <4>2. depth[c] <= depth[last] /\ depth[last] \in Nat
          BY <1>2, <1>3, <4>1
        <4> QED BY <4>1, <4>2
      <3> HIDE DEF last
      <3> QED BY <1>2, <2>2, <3>1 DEF MarkedLeaves
    <2> QED BY <2>1, <2>2
  <1>13. ASSUME NoneCrowded, answer = "no dependents"
         PROVE  Linked(call.from) \subseteq {call.from} \/ BfsNodes = 1
    <2>1. Len(nodes) = 1
      <3>1. Len(nodes) <= 1
        BY <1>5, <1>13
      <3> QED BY <1>2, <3>1
    <2>2. \A n \in DOMAIN depth : n = call.from
      <3>1. 1..Len(nodes) = {1}
        BY <2>1
      <3> QED BY <1>2, <3>1
    <2>3. CASE cut = ""
      <3>1. Linked(call.from) \subseteq DOMAIN depth
        BY <1>2, <1>9, <1>13, <2>3
      <3> QED BY <2>2, <3>1
    <2>4. CASE cut = "max_depth"
      <3>1. nodes[head] \in DOMAIN depth /\ depth[nodes[head]] = BfsDepth
        BY <1>1, <1>2, <1>5, <2>4, ElementOfSeq DEF TreeShape
      <3>2. depth[nodes[head]] = 0
        BY <1>2, <2>2, <3>1
      <3> QED BY <1>4, <3>1, <3>2
    <2>5. CASE cut = "max_nodes"
      <3>1. BfsNodes = 1
        BY <1>5, <2>1, <2>5
      <3> QED BY <3>1
    <2> QED BY <1>1, <2>3, <2>4, <2>5
  <1> HIDE DEF last
  <1> QED
    BY <1>0, <1>5, <1>6, <1>7, <1>9, <1>10, <1>11, <1>12, <1>13, <1>14
       DEF TreeIsExact, NoneCrowded

LEMMA ExactPath ==
  ASSUME TreeInv
  PROVE  PathIsExact
  <1>1. ASSUME answer = "path"
        PROVE  /\ hops[1].from = call.from
               /\ hops[Len(hops)].to = call.to
               /\ \A i \in 2..Len(hops) : hops[i].from = hops[i - 1].to
               /\ Len(hops) <= TraceDepth
               /\ Quiet => \A i \in DOMAIN hops : /\ hops[i].site = "ref"
                                                   /\ hops[i].to \in Linked(hops[i].from)
                                                   /\ Shows(hops[i])
               /\ Quiet /\ NoneCrowded => call.to \notin Within(Len(hops) - 1)
    <2>1. /\ Tables /\ TreeShape /\ Layers /\ Explored /\ nodes # <<>>
          /\ call.tool = "trace_calls"
      BY <1>1 DEF TreeInv, Phases
    <2>2. /\ call.to \in DOMAIN parent /\ Len(hops) = depth[call.to]
          /\ hops[1].from = call.from
          /\ hops[Len(hops)].to = call.to
          /\ \A i \in 2..Len(hops) : hops[i].from = hops[i - 1].to
          /\ commits = 0 => \A i \in DOMAIN hops : /\ hops[i].site = "ref"
                                                   /\ hops[i].to \in Followed(hops[i].from)
                                                   /\ Shows(hops[i])
      BY <1>1 DEF TreeInv, PathInv
    <2>3. call.to \in DOMAIN depth /\ depth[call.to] \in Nat /\ depth[call.to] >= 1
      BY <2>1, <2>2, PathDown DEF TreeShape
    <2>4. depth[call.to] <= TraceDepth
      BY <2>1, <2>3 DEF Layers, DepthLimit
    <2>5. commits = 0 /\ NoneCrowded => call.to \notin Within(depth[call.to] - 1)
      <3>1. depth[call.to] - 1 \in Nat /\ depth[call.to] = (depth[call.to] - 1) + 1
        BY <2>3
      <3> QED BY <2>1, <2>3, <3>1, Nearest
    <2> QED BY <2>1, <2>2, <2>4, <2>5, FollowedIs DEF Quiet
  <1>2. ASSUME Quiet, NoneCrowded, answer = "no path" PROVE call.to \notin Within(TraceDepth)
    <2>1. /\ Tables /\ TreeShape /\ Layers /\ Explored /\ nodes # <<>> /\ commits = 0
      BY <1>2 DEF TreeInv, Phases, Quiet
    <2>2. /\ call.to \notin DOMAIN depth
          /\ head \in DOMAIN nodes => depth[nodes[head]] = TraceDepth
      BY <1>2 DEF TreeInv, Sought
    <2>3. TraceDepth \in Nat /\ TraceDepth <= TraceDepth
      BY <2>1, Limits
    <2>4. \A n \in DOMAIN depth : depth[n] < TraceDepth => Expanded(n)
      BY <2>1, <2>2, UpperIsExpanded
    <2>5. \A n \in Within(TraceDepth) : n \in DOMAIN depth
      BY <1>2, <2>1, <2>3, <2>4, NearIsHigh
    <2> QED BY <2>2, <2>5
  <1> QED BY <1>1, <1>2 DEF PathIsExact, NoneCrowded

LEMMA TreeTypes ==
  ASSUME TreeInv
  PROVE  TypeOK
  BY DEF TreeInv, Tables, Phases, TreeShape, TypeOK

-----------------------------------------------------------------------------
(* Reachability.                                                           *)

(* What can be reached: the imports, and what can be reached from them.    *)
LEMMA Reach ==
  ASSUME NEW n
  PROVE  /\ Imported(n) \subseteq ReachedFrom(n)
         /\ \A m \in ReachedFrom(n) : Imported(m) \subseteq ReachedFrom(n)
         /\ \A m \in ReachedFrom(n) : ReachedFrom(m) \subseteq ReachedFrom(n)
         /\ \A m \in ReachedFrom(n) :
              \E v \in Imported(n) : m = v \/ m \in ReachedFrom(v)
  <1> DEFINE imported == {e[2] : e \in adj}
             closed(k, S) == /\ Imported(k) \subseteq S
                             /\ \A x \in S : Imported(x) \subseteq S
  <1>1. \A k : Imported(k) \subseteq imported
    BY DEF Imported
  <1>2. \A k : ReachedFrom(k) =
          {m \in imported : \A S \in SUBSET imported : closed(k, S) => m \in S}
    <2> SUFFICES ASSUME NEW k, NEW m \in imported
                 PROVE  m \in ReachedFrom(k) <=>
                          \A S \in SUBSET imported : closed(k, S) => m \in S
      BY DEF ReachedFrom
    <2>1. \A S : closed(k, S) <=>
            Imported(k) \union UNION {Imported(x) : x \in S} \subseteq S
      OBVIOUS
    <2> HIDE DEF closed
    <2> QED BY <2>1 DEF ReachedFrom
  <1> HIDE DEF imported
  <1>3. \A k : Imported(k) \subseteq ReachedFrom(k)
    BY <1>1, <1>2
  <1>4. \A k : \A m \in ReachedFrom(k) : Imported(m) \subseteq ReachedFrom(k)
    <2> SUFFICES ASSUME NEW k, NEW m \in ReachedFrom(k), NEW x \in Imported(m)
                 PROVE  x \in ReachedFrom(k)
      OBVIOUS
    <2>1. ASSUME NEW S \in SUBSET imported, closed(k, S) PROVE x \in S
      <3>1. m \in S
        BY <1>2, <2>1
      <3> QED BY <2>1, <3>1
    <2>2. x \in imported
      BY <1>1
    <2> HIDE DEF closed
    <2> QED BY <1>2, <2>1, <2>2
  <1>5. \A k : \A m \in ReachedFrom(k) : ReachedFrom(m) \subseteq ReachedFrom(k)
    <2> SUFFICES ASSUME NEW k, NEW m \in ReachedFrom(k)
                 PROVE  ReachedFrom(m) \subseteq ReachedFrom(k)
      OBVIOUS
    <2>1. closed(m, ReachedFrom(k)) /\ ReachedFrom(k) \in SUBSET imported
      BY <1>2, <1>4
    <2> HIDE DEF closed
    <2> QED BY <1>2, <2>1
  <1>6. \A m \in ReachedFrom(n) : \E v \in Imported(n) : m = v \/ m \in ReachedFrom(v)
    <2> DEFINE T == {m \in imported : \E v \in Imported(n) : m = v \/ m \in ReachedFrom(v)}
    <2>1. Imported(n) \subseteq T
      BY <1>1
    <2>2. ASSUME NEW x \in T, NEW y \in Imported(x) PROVE y \in T
      <3>1. PICK v \in Imported(n) : x = v \/ x \in ReachedFrom(v)
        OBVIOUS
      <3>2. y \in ReachedFrom(v) /\ y \in imported
        BY <1>1, <1>3, <1>4, <3>1
      <3> QED BY <3>2
    <2>3. closed(n, T) /\ T \in SUBSET imported
      BY <2>1, <2>2
    <2>4. \A m \in ReachedFrom(n) : m \in T
      <3> HIDE DEF closed, T
      <3> QED BY <1>2, <2>3
    <2> QED BY <2>4
  <1> QED BY <1>3, <1>4, <1>5, <1>6

(* What is imported is imported by an edge, and is a package.              *)
LEMMA EdgesAre ==
  ASSUME AdjOK, NEW n, NEW v
  PROVE  /\ v \in Imported(n) <=> <<n, v>> \in adj
         /\ v \in Imported(n) => v # n /\ v \in Packages /\ n \in Packages
  BY DEF AdjOK, Imported, Packages

(* Two cycles with one key are made of the same packages.                  *)
LEMMA SameKeySameNodes ==
  ASSUME NEW S, NEW c \in Seq(S), NEW d \in Seq(S), Len(c) >= 1,
         CanonicalKey(c) = CanonicalKey(d)
  PROVE  Range(c) \subseteq Range(d)
  <1>1. /\ Len(c) \in Nat /\ Len(d) \in Nat /\ DOMAIN c = 1..Len(c) /\ DOMAIN d = 1..Len(d)
    OBVIOUS
  <1> DEFINE r == [i \in 1..Len(c) |-> c[Around(c, i + Len(c))]]
  <1>2. r \in CanonicalKey(d)
    <2>1. r \in Rotations(c)
      BY <1>1 DEF Rotations
    <2> QED BY <2>1 DEF CanonicalKey
  <1>3. \A i \in 1..Len(c) : r[i] = c[i]
    BY <1>1 DEF Around
  <1>4. ASSUME NEW e, Len(e) = Len(d), Range(e) \subseteq Range(d), DOMAIN e = DOMAIN d,
               NEW x \in Rotations(e)
        PROVE  DOMAIN x = 1..Len(d) /\ \A i \in DOMAIN x : x[i] \in Range(d)
    <2>1. PICK k \in 1..Len(e) : x = [i \in 1..Len(e) |-> e[Around(e, i + k)]]
      BY DEF Rotations
    <2>2. \A i \in 1..Len(e) : Around(e, i + k) \in 1..Len(e)
      BY <1>1, <1>4 DEF Around
    <2>3. \A i \in 1..Len(e) : e[Around(e, i + k)] \in Range(e)
      BY <1>1, <1>4, <2>2 DEF Range
    <2> QED BY <1>4, <2>1, <2>3
  <1>5. /\ Len(Reverse(d)) = Len(d) /\ DOMAIN Reverse(d) = DOMAIN d
        /\ Range(Reverse(d)) \subseteq Range(d)
    <2>1. Reverse(d) = [i \in 1..Len(d) |-> d[(Len(d) - i) + 1]]
      BY DEF Reverse
    <2>2. \A i \in 1..Len(d) : (Len(d) - i) + 1 \in 1..Len(d)
      BY <1>1
    <2>3. Reverse(d) \in Seq(S) /\ Len(Reverse(d)) = Len(d)
      BY <1>1, <2>1, <2>2
    <2> QED BY <1>1, <2>1, <2>2, <2>3 DEF Range
  <1>6. DOMAIN r = 1..Len(d) /\ \A i \in DOMAIN r : r[i] \in Range(d)
    <2>1. CASE r \in Rotations(d)
      BY <1>4, <2>1
    <2>2. CASE r \in Rotations(Reverse(d))
      BY <1>4, <1>5, <2>2
    <2> QED BY <1>2, <2>1, <2>2 DEF CanonicalKey
  <1>7. \A i \in 1..Len(c) : c[i] \in Range(d)
    <2>1. DOMAIN r = 1..Len(c)
      OBVIOUS
    <2> HIDE DEF r
    <2> QED BY <1>3, <1>6, <2>1
  <1> QED BY <1>1, <1>7 DEF Range

-----------------------------------------------------------------------------
(* circular_imports.                                                       *)

LEMMA SameGraph ==
  ASSUME UNCHANGED adj
  PROVE  /\ \A n : Imported(n)' = Imported(n)
         /\ \A n : ReachedFrom(n)' = ReachedFrom(n)
         /\ Packages' = Packages
  BY DEF Imported, ReachedFrom, Packages

(* The other tools leave the variables of the search for cycles alone.     *)
LEMMA CyclesFrame ==
  ASSUME CyclesInv, UNCHANGED cycleVars,
         pc' = "walk" <=> pc = "walk", pc' = "called" => pc = "called",
         pc' = "done" /\ call'.tool = "circular_imports" =>
           pc = "done" /\ call.tool = "circular_imports"
  PROVE  CyclesInv'
  <1>1. /\ adj' = adj /\ stack' = stack /\ finished' = finished /\ cycles' = cycles
    BY DEF cycleVars
  <1>2. /\ \A n : Imported(n)' = Imported(n)
        /\ \A n : ReachedFrom(n)' = ReachedFrom(n)
        /\ Packages' = Packages
    BY <1>1, SameGraph
  <1>3. AdjOK' /\ StackOK'
    BY <1>1, <1>2 DEF CyclesInv, AdjOK, StackOK
  <1>4. Reports'
    BY <1>1, <1>2 DEF CyclesInv, Reports, IsCycle
  <1>5. Looked'
    BY <1>1, <1>2 DEF CyclesInv, Looked, SettledAt, Reported
  <1>6. Knots'
    BY <1>1, <1>2 DEF CyclesInv, Knots, Knotted
  <1> QED BY <1>1, <1>3, <1>4, <1>5, <1>6 DEF CyclesInv, Waiting

LEMMA InitCycles == Init => CyclesInv
  <1> SUFFICES ASSUME Init PROVE CyclesInv
    OBVIOUS
  <1>1. adj = {} /\ stack = <<>> /\ finished = {} /\ cycles = <<>> /\ pc = "called"
    BY DEF Init, Called, NoCycles
  <1> QED
    BY <1>1 DEF CyclesInv, AdjOK, StackOK, Reports, Looked, Knots

(* The stack while it is walked.                                           *)
LEMMA StackFacts ==
  ASSUME StackOK, stack # <<>>
  PROVE  /\ Len(stack) \in Nat /\ Len(stack) >= 1 /\ DOMAIN stack = 1..Len(stack)
         /\ \A i \in 1..Len(stack) :
              /\ stack[i] \in [node : Packages, left : SUBSET Packages]
              /\ stack[i].node \in Packages /\ stack[i].left \subseteq Packages
  <1>1. stack \in Seq([node : Packages, left : SUBSET Packages])
    BY DEF StackOK
  <1>2. Len(stack) \in Nat \ {0} /\ DOMAIN stack = 1..Len(stack)
    BY <1>1, EmptySeq, LenProperties
  <1>3. \A i \in 1..Len(stack) : stack[i] \in [node : Packages, left : SUBSET Packages]
    BY <1>1, ElementOfSeq
  <1>4. \A r \in [node : Packages, left : SUBSET Packages] :
          r.node \in Packages /\ r.left \subseteq Packages
    OBVIOUS
  <1> QED BY <1>2, <1>3, <1>4

(* The slice of the stack that is reported is a cycle through n.           *)
LEMMA CycleExtracted ==
  ASSUME CyclesInv, stack # <<>>, NEW n \in stack[Len(stack)].left, n \in OnStack
  PROVE  /\ ExtractCycle(n) \in Seq(Packages)
         /\ IsCycle(ExtractCycle(n))
         /\ n \in Range(ExtractCycle(n))
         /\ \E j \in DOMAIN stack : j < Len(stack) /\ stack[j].node = n
  <1> DEFINE at == CHOOSE i \in DOMAIN stack : stack[i].node = n
             len == Len(stack) - at + 1
             c == [i \in 1..len |-> stack[at + i - 1].node]
  <1>1. /\ Len(stack) \in Nat /\ Len(stack) >= 1 /\ DOMAIN stack = 1..Len(stack)
        /\ \A i \in 1..Len(stack) : stack[i].node \in Packages
    BY StackFacts DEF CyclesInv
  <1>2. at \in 1..Len(stack) /\ stack[at].node = n
    <2>1. \E i \in DOMAIN stack : stack[i].node = n
      BY DEF OnStack
    <2> QED BY <1>1, <2>1
  <1>3. n \in Imported(stack[Len(stack)].node) /\ n # stack[Len(stack)].node
    <2>1. n \in Imported(stack[Len(stack)].node)
      BY <1>1 DEF CyclesInv, StackOK
    <2> QED BY <2>1, EdgesAre DEF CyclesInv
  <1>4. at < Len(stack)
    BY <1>1, <1>2, <1>3
  <1>5. ExtractCycle(n) = c
    BY DEF ExtractCycle
  <1> HIDE DEF at
  <1>6. len \in Nat /\ len >= 2 /\ \A i \in 1..len : at + i - 1 \in 1..Len(stack)
    BY <1>1, <1>2, <1>4
  <1>7. c \in Seq(Packages) /\ Len(c) = len /\ DOMAIN c = 1..len
    <2>1. \A i \in 1..len : stack[at + i - 1].node \in Packages
      BY <1>1, <1>6
    <2>2. c \in [1..len -> Packages]
      BY <2>1
    <2> HIDE DEF c, len
    <2> QED BY <1>6, <2>2
  <1>8. \A i \in 1..len : c[i] = stack[at + i - 1].node
    OBVIOUS
  <1>9. c[1] = n /\ c[len] = stack[Len(stack)].node
    <2>1. at + 1 - 1 = at /\ at + len - 1 = Len(stack) /\ 1 \in 1..len /\ len \in 1..len
      BY <1>1, <1>2, <1>6
    <2> QED BY <1>2, <1>8, <2>1
  <1>10. \A i, j \in 1..len : c[i] = c[j] => i = j
    <2> SUFFICES ASSUME NEW i \in 1..len, NEW j \in 1..len, c[i] = c[j] PROVE i = j
      OBVIOUS
    <2>1. at + i - 1 = at + j - 1
      BY <1>1, <1>6, <1>8 DEF CyclesInv, StackOK
    <2> QED BY <2>1, <1>2, <1>6
  <1>11. \A i \in 1..len : <<c[i], c[Around(c, i + 1)]>> \in adj
    <2> SUFFICES ASSUME NEW i \in 1..len PROVE c[Around(c, i + 1)] \in Imported(c[i])
      BY EdgesAre DEF CyclesInv
    <2>1. CASE i < len
      <3>0. /\ i \in Nat /\ at \in Int
            /\ i + 1 \in 1..len /\ i + 1 <= len
        <4> HIDE DEF len
        <4> QED BY <1>2, <1>6, <2>1
      <3>1. /\ Around(c, i + 1) = i + 1 /\ i + 1 \in 1..len
            /\ at + (i + 1) - 1 = (at + i - 1) + 1
        <4> HIDE DEF len, c
        <4> QED BY <1>7, <3>0 DEF Around
      <3>2. stack[(at + i - 1) + 1].node \in Imported(stack[at + i - 1].node)
        BY <1>1, <1>6, <3>1 DEF CyclesInv, StackOK
      <3>3. c[i + 1] = stack[(at + i - 1) + 1].node
        BY <1>8, <3>1
      <3> HIDE DEF c, len
      <3> QED BY <1>8, <3>1, <3>2, <3>3
    <2>2. CASE i = len
      <3>1. Around(c, i + 1) = 1
        BY <1>6, <1>7, <2>2 DEF Around
      <3> QED BY <1>3, <1>9, <2>2, <3>1
    <2> QED BY <1>6, <2>1, <2>2
  <1>12. IsCycle(c)
    BY <1>6, <1>7, <1>10, <1>11 DEF IsCycle
  <1>13. n \in Range(c)
    BY <1>6, <1>7, <1>9 DEF Range
  <1> QED
    BY <1>1, <1>2, <1>4, <1>5, <1>7, <1>12, <1>13

(* One more cycle in the report: reported ones stay, new ones are cycles.  *)
LEMMA ReportGrows ==
  ASSUME Reports, UNCHANGED adj, NEW c \in Seq(Packages), IsCycle(c),
         cycles' = IF Seen(c) THEN cycles ELSE Append(cycles, c)
  PROVE  /\ Reports'
         /\ \A n : Reported(n) => Reported(n)'
         /\ \A n : Knotted(n) => Knotted(n)'
         /\ \A n \in Range(c) : Reported(n)'
  <1>0. /\ cycles \in Seq(Seq(Packages)) /\ Len(cycles) \in Nat
        /\ DOMAIN cycles = 1..Len(cycles)
    BY DEF Reports
  <1>1. /\ \A n : Imported(n)' = Imported(n)
        /\ \A n : ReachedFrom(n)' = ReachedFrom(n)
        /\ Packages' = Packages
    BY SameGraph
  <1>2. CASE Seen(c)
    <2>1. cycles' = cycles
      BY <1>2
    <2>2. PICK i \in DOMAIN cycles : CanonicalKey(cycles[i]) = CanonicalKey(c)
      BY <1>2 DEF Seen
    <2>3. Range(c) \subseteq Range(cycles[i])
      <3>1. cycles[i] \in Seq(Packages) /\ Len(c) \in Nat /\ Len(c) >= 1
        BY DEF Reports, IsCycle
      <3> QED BY <2>2, <3>1, SameKeySameNodes
    <2>4. Reports'
      BY <1>1, <2>1 DEF Reports, IsCycle
    <2>5. /\ \A n : Reported(n)' <=> Reported(n)
          /\ \A n : Knotted(n)' <=> Knotted(n)
      BY <1>1, <2>1 DEF Reported, Knotted
    <2>6. \A n \in Range(c) : Reported(n)
      BY <2>3 DEF Reported
    <2> QED BY <2>4, <2>5, <2>6
  <1>3. CASE ~Seen(c)
    <2> DEFINE k == Len(cycles) + 1
    <2>1. /\ cycles' = Append(cycles, c) /\ cycles' \in Seq(Seq(Packages))
          /\ Len(cycles') = k /\ DOMAIN cycles' = 1..k
          /\ \A i \in 1..Len(cycles) : cycles'[i] = cycles[i]
          /\ cycles'[k] = c /\ k \in DOMAIN cycles'
      BY <1>0, <1>3, AppendProperties
    <2> HIDE DEF k
    <2>2. \A i \in DOMAIN cycles' : i = k \/ i \in DOMAIN cycles
      BY <1>0, <2>1 DEF k
    <2>3. ASSUME NEW i \in DOMAIN cycles'
          PROVE  cycles'[i] \in Seq(Packages) /\ IsCycle(cycles'[i])
      <3>1. CASE i = k
        BY <2>1, <3>1
      <3>2. CASE i \in DOMAIN cycles
        BY <1>0, <2>1, <3>2 DEF Reports
      <3> QED BY <2>2, <3>1, <3>2
    <2>4. \A i \in DOMAIN cycles' : cycles'[i] \in Seq(Packages)' /\ IsCycle(cycles[i])'
      BY <1>1, <2>3 DEF IsCycle
    <2>5. ASSUME NEW i \in DOMAIN cycles', NEW j \in DOMAIN cycles',
                 CanonicalKey(cycles'[i]) = CanonicalKey(cycles'[j])
          PROVE  i = j
      <3>1. \A m \in DOMAIN cycles : /\ CanonicalKey(cycles[m]) # CanonicalKey(c)
                                     /\ cycles'[m] = cycles[m]
        BY <1>0, <1>3, <2>1 DEF Seen
      <3> QED BY <2>1, <2>2, <2>5, <3>1 DEF Reports
    <2>6. Reports'
      BY <1>1, <2>1, <2>4, <2>5 DEF Reports
    <2>7. \A i \in DOMAIN cycles : i \in DOMAIN cycles' /\ cycles'[i] = cycles[i]
      BY <1>0, <2>1 DEF k
    <2>8. /\ \A n : Reported(n) => Reported(n)'
          /\ \A n : Knotted(n) => Knotted(n)'
      BY <1>1, <2>7 DEF Reported, Knotted
    <2>9. \A n \in Range(c) : Reported(n)'
      BY <2>1 DEF Reported
    <2> QED BY <2>6, <2>8, <2>9
  <1> QED BY <1>2, <1>3

LEMMA LoadImportsCycles ==
  ASSUME CyclesInv, LoadImports
  PROVE  CyclesInv'
  <1> USE DEF CyclesInv, LoadImports
  <1>1. stack = <<>> /\ finished = {} /\ cycles = <<>>
    BY DEF StackOK
  <1>2. AdjOK'
    BY DEF AdjOK, ImportEdges
  <1>3. stack' = <<>> /\ finished' = {} /\ cycles' = <<>> /\ pc' = "walk"
    BY <1>1
  <1> QED
    BY <1>2, <1>3 DEF StackOK, Reports, Looked, Knots

(* dfs is called for a node the outer loop comes to.                       *)
LEMMA PickRootCycles ==
  ASSUME CyclesInv, PickRoot
  PROVE  CyclesInv'
  <1> USE DEF CyclesInv, PickRoot
  <1>1. PICK n \in Waiting : stack' = <<Frame(n)>>
    OBVIOUS
  <1>2. /\ adj' = adj /\ finished' = finished /\ cycles' = cycles /\ pc' = "walk"
        /\ \A m : Imported(m)' = Imported(m)
        /\ \A m : ReachedFrom(m)' = ReachedFrom(m)
        /\ Packages' = Packages
    BY SameGraph
  <1>3. n \in Packages /\ Imported(n) \subseteq Packages
    BY DEF Waiting, Packages, Imported
  <1>4. /\ Len(stack') = 1 /\ DOMAIN stack' = {1} /\ stack'[1] = Frame(n)
        /\ stack'[1].node = n /\ stack'[1].left = Imported(n)
    BY <1>1 DEF Frame
  <1>5. stack' \in Seq([node : Packages, left : SUBSET Packages])
    BY <1>1, <1>3 DEF Frame
  <1>6. AdjOK' /\ StackOK'
    BY <1>2, <1>4, <1>5 DEF AdjOK, StackOK
  <1>7. Looked'
    BY <1>2, <1>4 DEF Looked
  <1>8. Reports' /\ Knots'
    BY <1>2 DEF Reports, IsCycle, Knots, Knotted
  <1> QED BY <1>2, <1>6, <1>7, <1>8

(* The loop of dfs takes one successor off those it has not looked at.     *)
LEMMA RestKeeps ==
  ASSUME StackOK, stack # <<>>, NEW n \in stack[Len(stack)].left,
         NEW rest, rest = [stack EXCEPT ![Len(stack)].left = @ \ {n}]
  PROVE  /\ rest \in Seq([node : Packages, left : SUBSET Packages])
         /\ Len(rest) = Len(stack) /\ DOMAIN rest = DOMAIN stack
         /\ \A i \in DOMAIN stack :
              /\ rest[i].node = stack[i].node
              /\ rest[i].left = IF i = Len(stack) THEN stack[i].left \ {n} ELSE stack[i].left
  <1> DEFINE top == Len(stack)
             new == [stack[top] EXCEPT !.left = @ \ {n}]
  <1>1. /\ top \in 1..Len(stack) /\ DOMAIN stack = 1..Len(stack)
        /\ stack[top] \in [node : Packages, left : SUBSET Packages]
        /\ stack \in Seq([node : Packages, left : SUBSET Packages])
    BY StackFacts DEF StackOK
  <1>2. /\ new \in [node : Packages, left : SUBSET Packages]
        /\ new.node = stack[top].node /\ new.left = stack[top].left \ {n}
    BY <1>1
  <1>3. rest = [stack EXCEPT ![top] = new]
    OBVIOUS
  <1> DEFINE Frames == [node : Packages, left : SUBSET Packages]
  <1> HIDE DEF new, top, Frames
  <1>4. /\ rest \in Seq(Frames) /\ Len(rest) = Len(stack) /\ DOMAIN rest = DOMAIN stack
        /\ \A i \in 1..Len(stack) : rest[i] = IF i = top THEN new ELSE stack[i]
    <2>1. stack \in Seq(Frames) /\ top \in 1..Len(stack) /\ new \in Frames
      BY <1>1, <1>2 DEF Frames
    <2>2. /\ [stack EXCEPT ![top] = new] \in Seq(Frames)
          /\ Len([stack EXCEPT ![top] = new]) = Len(stack)
          /\ \A i \in 1..Len(stack) :
               [stack EXCEPT ![top] = new][i] = IF i = top THEN new ELSE stack[i]
      BY <2>1, Changed
    <2> QED BY <1>3, <2>2
  <1> QED
    BY <1>1, <1>2, <1>4 DEF Frames, top

LEMMA LookCycles ==
  ASSUME CyclesInv, NEW n, Look(n)
  PROVE  CyclesInv'
  <1> USE DEF CyclesInv, Look
  <1> DEFINE top == Len(stack)
             rest == [stack EXCEPT ![top].left = @ \ {n}]
  <1>1. /\ adj' = adj /\ finished' = finished /\ pc' = "walk" /\ pc = "walk"
        /\ n \in stack[top].left
        /\ \A m : Imported(m)' = Imported(m)
        /\ \A m : ReachedFrom(m)' = ReachedFrom(m)
        /\ Packages' = Packages
    BY SameGraph
  <1>2. /\ top \in Nat /\ top >= 1 /\ DOMAIN stack = 1..top
        /\ \A i \in 1..top : stack[i].node \in Packages
    BY StackFacts
  <1>3. /\ rest \in Seq([node : Packages, left : SUBSET Packages])
        /\ Len(rest) = top /\ DOMAIN rest = 1..top
        /\ \A i \in 1..top :
             /\ rest[i].node = stack[i].node
             /\ rest[i].left = IF i = top THEN stack[i].left \ {n} ELSE stack[i].left
    BY <1>2, RestKeeps
  <1>4. n \in Imported(stack[top].node) /\ n \in Packages
    <2>1. n \in Imported(stack[top].node)
      BY <1>1, <1>2 DEF StackOK
    <2> QED BY <2>1, EdgesAre
  <1>5. AdjOK'
    BY <1>1 DEF AdjOK
  <1> HIDE DEF rest
  <1>6. /\ \A i \in 1..top : /\ stack[i].left \subseteq Imported(stack[i].node)
                             /\ i + 1 \in 1..top =>
                                  stack[i + 1].node \in Imported(stack[i].node)
        /\ \A i, j \in 1..top :
             /\ stack[i].node = stack[j].node => i = j
             /\ i < j => stack[j].node \in ReachedFrom(stack[i].node)
    BY <1>2 DEF StackOK
  <1>7. ASSUME stack' = rest PROVE StackOK'
    <2>1. DOMAIN stack' = 1..top /\ \A i \in 1..top : stack'[i].node = stack[i].node
      BY <1>3, <1>7
    <2>2. \A i \in 1..top : stack'[i].left \subseteq stack[i].left
      BY <1>3, <1>7
    <2> HIDE DEF CyclesInv, Look, top
    <2>3. \A i \in 1..top : (stack[i].left \subseteq Imported(stack[i].node))'
      <3> TAKE i \in 1..top
      <3>1. stack[i].left \subseteq Imported(stack[i].node)
        BY <1>6
      <3>2. Imported(stack[i].node)' = Imported(stack[i].node)
        BY <1>1, <2>1
      <3> QED BY <2>2, <3>1, <3>2
    <2>4. \A i \in 1..top : i + 1 \in 1..top =>
            (stack[i + 1].node \in Imported(stack[i].node))'
      <3> TAKE i \in 1..top
      <3> HAVE i + 1 \in 1..top
      <3>1. stack[i + 1].node \in Imported(stack[i].node)
        BY <1>6
      <3>2. Imported(stack[i].node)' = Imported(stack[i].node)
        BY <1>1, <2>1
      <3> QED BY <2>1, <3>1, <3>2
    <2>5. \A i, j \in 1..top :
            /\ (stack[i].node = stack[j].node)' => i = j
            /\ i < j => (stack[j].node \in ReachedFrom(stack[i].node))'
      <3> TAKE i, j \in 1..top
      <3>1. ReachedFrom(stack[i].node)' = ReachedFrom(stack[i].node)
        BY <1>1, <2>1
      <3> QED BY <1>6, <2>1, <3>1
    <2>6. /\ (stack \in Seq([node : Packages, left : SUBSET Packages]))'
          /\ (pc # "walk" => stack = <<>>)'
      BY <1>1, <1>3, <1>7
    <2> QED BY <2>1, <2>3, <2>4, <2>5, <2>6 DEF StackOK
  (* The cycle the successor closes.                                       *)
  <1>8. CASE n \in OnStack /\ stack' = rest /\
             cycles' = IF Seen(ExtractCycle(n)) THEN cycles
                       ELSE Append(cycles, ExtractCycle(n))
    <2>1. /\ ExtractCycle(n) \in Seq(Packages) /\ IsCycle(ExtractCycle(n))
          /\ n \in Range(ExtractCycle(n))
      BY <1>1, <1>8, CycleExtracted
    <2>2. PICK k \in 1..top : k < top /\ stack[k].node = n
      BY <1>1, <1>2, <1>8, CycleExtracted
    <2>3. /\ Reports'
          /\ \A m : Reported(m) => Reported(m)'
          /\ \A m : Knotted(m) => Knotted(m)'
          /\ Reported(n)'
      BY <1>1, <1>8, <2>1, ReportGrows
    <2>4. Looked'
      <3> SUFFICES ASSUME NEW i \in 1..top,
                          NEW v \in Imported(rest[i].node) \ rest[i].left
                   PROVE  \/ v \in finished
                          \/ \E j \in 1..top :
                               /\ j < i /\ rest[j].node = v
                               /\ \E k1 \in DOMAIN cycles' : v \in Range(cycles'[k1])
                          \/ i + 1 \in 1..top /\ rest[i + 1].node = v
        <4>1. stack' = rest /\ DOMAIN stack' = 1..top /\ finished' = finished
          BY <1>1, <1>3, <1>8
        <4>2. \A m : Reported(m)' <=> \E k1 \in DOMAIN cycles' : m \in Range(cycles'[k1])
          BY DEF Reported
        <4> QED BY <1>1, <4>1, <4>2 DEF Looked, SettledAt
      <3>1. CASE i = top /\ v = n
        BY <1>3, <2>2, <2>3, <3>1 DEF Reported
      <3>2. CASE ~(i = top /\ v = n)
        <4>1. v \in Imported(stack[i].node) \ stack[i].left
          BY <1>3, <3>2
        <4>2. SettledAt(i, v)
          BY <1>2, <4>1 DEF Looked
        <4>3. Reported(v) => \E k1 \in DOMAIN cycles' : v \in Range(cycles'[k1])
          BY <2>3 DEF Reported
        <4> QED BY <1>2, <1>3, <4>2, <4>3 DEF SettledAt
      <3> QED BY <3>1, <3>2
    <2>5. Knots'
      BY <1>1, <2>3 DEF Knots
    <2> QED BY <1>1, <1>5, <1>7, <1>8, <2>3, <2>4, <2>5
  <1>9. CASE n \notin OnStack /\ n \in finished /\ stack' = rest /\ cycles' = cycles
    <2>1. Reports' /\ Knots'
      BY <1>1, <1>9 DEF Reports, IsCycle, Knots, Knotted
    <2>2. Looked'
      <3> SUFFICES ASSUME NEW i \in 1..top,
                          NEW v \in Imported(rest[i].node) \ rest[i].left
                   PROVE  \/ v \in finished
                          \/ \E j \in 1..top : j < i /\ rest[j].node = v /\ Reported(v)
                          \/ i + 1 \in 1..top /\ rest[i + 1].node = v
        BY <1>1, <1>3, <1>9 DEF Looked, SettledAt, Reported
      <3>1. CASE i = top /\ v = n
        BY <1>9, <3>1
      <3>2. CASE ~(i = top /\ v = n)
        <4>1. v \in Imported(stack[i].node) \ stack[i].left
          BY <1>3, <3>2
        <4>2. SettledAt(i, v)
          BY <1>2, <4>1 DEF Looked
        <4> QED BY <1>2, <1>3, <4>2 DEF SettledAt
      <3> QED BY <3>1, <3>2
    <2> QED BY <1>1, <1>5, <1>7, <1>9, <2>1, <2>2
  (* dfs calls itself.                                                     *)
  <1>10. CASE n \notin OnStack /\ stack' = Append(rest, Frame(n)) /\ cycles' = cycles
    <2>1. Frame(n) \in [node : Packages, left : SUBSET Packages]
      BY <1>4, EdgesAre DEF Frame
    <2>2. /\ stack' \in Seq([node : Packages, left : SUBSET Packages])
          /\ DOMAIN stack' = 1..(top + 1)
          /\ \A i \in 1..top : stack'[i] = rest[i]
          /\ stack'[top + 1] = Frame(n)
      <3> DEFINE Frames == [node : Packages, left : SUBSET Packages]
      <3>1. rest \in Seq(Frames) /\ Frame(n) \in Frames
        BY <1>3, <2>1
      <3> HIDE DEF Frames
      <3>2. /\ stack' \in Seq(Frames) /\ Len(stack') = top + 1
            /\ \A i \in 1..top : stack'[i] = rest[i]
            /\ stack'[top + 1] = Frame(n)
        <4> DEFINE e == Frame(n)
        <4>1. rest \in Seq(Frames) /\ e \in Frames
          BY <3>1
        <4> HIDE DEF e
        <4>2. /\ Append(rest, e) \in Seq(Frames)
              /\ Len(Append(rest, e)) = Len(rest) + 1
              /\ \A i \in 1..Len(rest) : Append(rest, e)[i] = rest[i]
              /\ Append(rest, e)[Len(rest) + 1] = e
          BY <4>1, PutLast
        <4>3. stack' = Append(rest, e) /\ Len(rest) = top
          BY <1>3, <1>10 DEF e
        <4> QED BY <4>1, <4>2, <4>3 DEF e
      <3> QED BY <1>2, <3>2, LenProperties DEF Frames
    <2>3. /\ \A i \in 1..top : /\ stack'[i].node = stack[i].node
                               /\ stack'[i].left = IF i = top THEN stack[i].left \ {n}
                                                   ELSE stack[i].left
          /\ stack'[top + 1].node = n /\ stack'[top + 1].left = Imported(n)
      <3>1. Frame(n).node = n /\ Frame(n).left = Imported(n)
        BY DEF Frame
      <3> QED BY <1>3, <2>2, <3>1
    <2>4. \A i \in 1..top : stack[i].node # n
      BY <1>2, <1>10 DEF OnStack
    <2>5. \A i \in 1..top : n \in ReachedFrom(stack[i].node)
      <3> SUFFICES ASSUME NEW i \in 1..top PROVE n \in ReachedFrom(stack[i].node)
        OBVIOUS
      <3>1. CASE i = top
        BY <1>4, <3>1, Reach
      <3>2. CASE i < top
        <4>1. stack[top].node \in ReachedFrom(stack[i].node)
          BY <1>2, <1>6, <3>2
        <4> QED BY <1>4, <4>1, Reach
      <3> QED BY <1>2, <3>1, <3>2
    <2>6. StackOK'
      <3>1. ASSUME NEW i \in 1..(top + 1), NEW j \in 1..(top + 1)
            PROVE  /\ stack'[i].node = stack'[j].node => i = j
                   /\ i < j => stack'[j].node \in ReachedFrom(stack'[i].node)
        <4>1. /\ i \in 1..top \/ i = top + 1
              /\ j \in 1..top \/ j = top + 1
          BY <1>2
        <4>2. CASE i \in 1..top /\ j \in 1..top
          BY <1>6, <2>3, <4>2
        <4>3. CASE i \in 1..top /\ j = top + 1
          BY <1>2, <2>3, <2>4, <2>5, <4>3
        <4>4. CASE i = top + 1 /\ j \in 1..top
          <5>1. stack'[i].node = n /\ stack'[j].node # n
            BY <2>3, <2>4, <4>4
          <5>2. ~(i < j)
            BY <1>2, <4>4
          <5> QED BY <5>1, <5>2
        <4>5. CASE i = top + 1 /\ j = top + 1
          BY <1>2, <4>5
        <4> QED BY <4>1, <4>2, <4>3, <4>4, <4>5
      <3>2. ASSUME NEW i \in 1..(top + 1)
            PROVE  /\ stack'[i].left \subseteq Imported(stack'[i].node)
                   /\ i + 1 \in 1..(top + 1) =>
                        stack'[i + 1].node \in Imported(stack'[i].node)
        <4>1. CASE i \in 1..top
          <5>1. i + 1 \in 1..top \/ i = top
            BY <1>2, <4>1
          <5> QED BY <1>2, <1>4, <1>6, <2>3, <4>1, <5>1
        <4>2. CASE i = top + 1
          BY <1>2, <2>3, <4>2
        <4> QED BY <1>2, <4>1, <4>2
      <3> QED BY <1>1, <2>2, <3>1, <3>2 DEF StackOK
    <2>7. Looked'
      <3> SUFFICES ASSUME NEW i \in 1..(top + 1),
                          NEW v \in Imported(stack'[i].node) \ stack'[i].left
                   PROVE  \/ v \in finished
                          \/ \E j \in 1..(top + 1) :
                               j < i /\ stack'[j].node = v /\ Reported(v)
                          \/ i + 1 \in 1..(top + 1) /\ stack'[i + 1].node = v
        BY <1>1, <1>10, <2>2 DEF Looked, SettledAt, Reported
      <3>1. CASE i = top + 1
        BY <2>3, <3>1
      <3>2. CASE i = top /\ v = n
        BY <1>2, <2>3, <3>2
      <3>3. CASE i \in 1..top /\ ~(i = top /\ v = n)
        <4>1. v \in Imported(stack[i].node) \ stack[i].left
          BY <2>3, <3>3
        <4>2. SettledAt(i, v)
          BY <1>2, <3>3, <4>1 DEF Looked
        <4>3. \A j \in 1..top : j \in 1..(top + 1)
          BY <1>2
        <4> QED BY <1>2, <2>3, <3>3, <4>2, <4>3 DEF SettledAt
      <3> QED BY <1>2, <3>1, <3>2, <3>3
    <2>8. Reports' /\ Knots'
      BY <1>1, <1>10 DEF Reports, IsCycle, Knots, Knotted
    <2> QED BY <1>1, <1>5, <2>6, <2>7, <2>8
  <1>11. \/ n \in OnStack /\ stack' = rest /\
              cycles' = IF Seen(ExtractCycle(n)) THEN cycles
                        ELSE Append(cycles, ExtractCycle(n))
         \/ n \notin OnStack /\ n \in finished /\ stack' = rest /\ cycles' = cycles
         \/ n \notin OnStack /\ stack' = Append(rest, Frame(n)) /\ cycles' = cycles
    BY DEF rest
  <1> QED BY <1>8, <1>9, <1>10, <1>11

(* dfs returns: each successor was finished before or closed a cycle.      *)
LEMMA ReturnCycles ==
  ASSUME CyclesInv, Return
  PROVE  CyclesInv'
  <1> USE DEF CyclesInv, Return
  <1> DEFINE top == Len(stack)
             s == stack[top].node
             below == SubSeq(stack, 1, top - 1)
  <1>1. /\ adj' = adj /\ cycles' = cycles /\ pc' = "walk" /\ pc = "walk"
        /\ finished' = finished \union {s} /\ stack' = below
        /\ \A m : Imported(m)' = Imported(m)
        /\ \A m : ReachedFrom(m)' = ReachedFrom(m)
        /\ Packages' = Packages
    BY SameGraph
  <1>2. /\ top \in Nat /\ top >= 1 /\ DOMAIN stack = 1..top
        /\ \A i \in 1..top : stack[i].node \in Packages
    BY StackFacts
  <1>3. /\ below \in Seq([node : Packages, left : SUBSET Packages])
        /\ DOMAIN below = 1..(top - 1)
        /\ \A i \in 1..(top - 1) : below[i] = stack[i]
    <2> DEFINE Frames == [node : Packages, left : SUBSET Packages]
    <2>1. stack \in Seq(Frames)
      BY DEF StackOK
    <2> HIDE DEF Frames
    <2>2. /\ below \in Seq(Frames) /\ DOMAIN below = 1..(top - 1)
          /\ \A i \in 1..(top - 1) : below[i] = stack[i]
      <3>1. top - 1 \in 0..Len(stack)
        BY <1>2
      <3> QED BY <2>1, <3>1, Prefix
    <2> QED BY <2>2 DEF Frames
  <1> HIDE DEF below
  <1>4. ASSUME NEW v \in Imported(s)
        PROVE  \/ v \in finished
               \/ \E j \in 1..top : j < top /\ stack[j].node = v /\ Reported(v)
    <2>1. v \in Imported(stack[top].node) \ stack[top].left
      OBVIOUS
    <2>2. SettledAt(top, v)
      BY <1>2, <2>1 DEF Looked
    <2> QED BY <1>2, <2>2 DEF SettledAt
  <1>5. \A i, j \in 1..top : i < j => stack[j].node \in ReachedFrom(stack[i].node)
    BY <1>2 DEF StackOK
  <1>6. ASSUME s \in ReachedFrom(s) PROVE Knotted(s)
    <2>1. CASE \E v \in Imported(s) : \E j \in 1..top :
                 j < top /\ stack[j].node = v /\ Reported(v)
      <3>1. PICK v \in Imported(s), j \in 1..top :
                   j < top /\ stack[j].node = v /\ Reported(v)
        BY <2>1
      <3>2. v \in ReachedFrom(s)
        BY Reach
      <3>3. s \in ReachedFrom(v)
        BY <1>2, <1>5, <3>1
      <3> HIDE DEF s
      <3> QED BY <3>1, <3>2, <3>3 DEF Knotted, Reported
    <2>2. CASE \A v \in Imported(s) : v \in finished
      <3>1. PICK v \in Imported(s) : s = v \/ s \in ReachedFrom(v)
        BY <1>6, Reach
      <3>2. v # s
        BY EdgesAre
      <3>3. v \in ReachedFrom(s) /\ s \in ReachedFrom(v)
        BY <3>1, <3>2, Reach
      <3>4. ReachedFrom(s) \subseteq ReachedFrom(v) /\ ReachedFrom(v) \subseteq ReachedFrom(s)
        BY <3>3, Reach
      <3>5. Knotted(v)
        BY <2>2, <3>3, <3>4 DEF Knots
      <3>6. PICK i \in DOMAIN cycles : \E m \in Range(cycles[i]) :
                   m \in ReachedFrom(v) /\ v \in ReachedFrom(m)
        BY <3>5 DEF Knotted
      <3>9. PICK m \in Range(cycles[i]) : m \in ReachedFrom(v) /\ v \in ReachedFrom(m)
        BY <3>6
      <3>7. m \in ReachedFrom(s)
        BY <3>4, <3>9
      <3>8. s \in ReachedFrom(m)
        <4>1. ReachedFrom(v) \subseteq ReachedFrom(m)
          BY <3>9, Reach
        <4> QED BY <3>3, <4>1
      <3> HIDE DEF s
      <3> QED BY <3>9, <3>7, <3>8 DEF Knotted
    <2> QED BY <1>4, <2>1, <2>2
  <1>7. Knots'
    <2>1. s \in Packages
      BY <1>2
    <2>2. \A n : Knotted(n)' <=> Knotted(n)
      BY <1>1 DEF Knotted
    <2>3. ASSUME NEW n \in finished', n \in ReachedFrom(n) PROVE Knotted(n)
      <3>1. n = s \/ n \in finished
        BY <1>1
      <3> QED BY <1>6, <2>3, <3>1 DEF Knots
    <2> HIDE DEF s
    <2> QED BY <1>1, <2>1, <2>2, <2>3 DEF Knots
  <1>8. Looked'
    <2> DEFINE settled(i, v) ==
                 \/ v \in finished \union {s}
                 \/ \E j \in 1..(top - 1) : j < i /\ stack[j].node = v /\ Reported(v)
                 \/ i + 1 \in 1..(top - 1) /\ stack[i + 1].node = v
    <2>0. ASSUME \A i \in 1..(top - 1) :
                   \A v \in Imported(stack[i].node) \ stack[i].left : settled(i, v)
          PROVE  Looked'
      <3>1. \A n : Reported(n)' <=> Reported(n)
        BY <1>1 DEF Reported
      <3>2. stack' = below /\ finished' = finished \union {s}
        BY <1>1
      <3>3. \A i \in 1..(top - 1) : \A v : settled(i, v) => SettledAt(i, v)'
        <4> SUFFICES ASSUME NEW i \in 1..(top - 1), NEW v, settled(i, v)
                     PROVE  SettledAt(i, v)'
          OBVIOUS
        <4>1. CASE v \in finished \union {s}
          BY <3>2, <4>1 DEF SettledAt
        <4>2. CASE \E j \in 1..(top - 1) : j < i /\ stack[j].node = v /\ Reported(v)
          BY <1>3, <3>1, <3>2, <4>2 DEF SettledAt
        <4>3. CASE i + 1 \in 1..(top - 1) /\ stack[i + 1].node = v
          BY <1>3, <3>2, <4>3 DEF SettledAt
        <4> QED BY <4>1, <4>2, <4>3
      <3> HIDE DEF s, settled, top
      <3> QED BY <1>1, <1>3, <2>0, <3>2, <3>3 DEF Looked
    <2> SUFFICES ASSUME NEW i \in 1..(top - 1),
                        NEW v \in Imported(stack[i].node) \ stack[i].left
                 PROVE  settled(i, v)
      BY <2>0
    <2>1. i \in 1..top /\ i < top
      BY <1>2
    <2>2. SettledAt(i, v)
      BY <1>2, <2>1 DEF Looked
    <2>3. CASE i + 1 \in DOMAIN stack /\ stack[i + 1].node = v
      BY <1>2, <2>1, <2>3
    <2>4. CASE v \in finished \/ \E j \in DOMAIN stack :
                                   j < i /\ stack[j].node = v /\ Reported(v)
      BY <1>2, <2>1, <2>4
    <2> QED BY <2>2, <2>3, <2>4 DEF SettledAt
  <1>9. StackOK'
    <2>1. \A i \in 1..(top - 1) : i \in 1..top
      BY <1>2
    <2>2. \A i \in 1..(top - 1) : i + 1 \in 1..(top - 1) => i + 1 \in 1..top
      BY <1>2
    <2>3. stack' = below
      BY <1>1
    <2>4. /\ \A i, j \in 1..top : stack[i].node = stack[j].node => i = j
          /\ \A i \in 1..top : stack[i].left \subseteq Imported(stack[i].node)
          /\ \A i \in 1..top : i + 1 \in 1..top =>
               stack[i + 1].node \in Imported(stack[i].node)
      BY <1>2 DEF StackOK
    <2> HIDE DEF top, s, Return, CyclesInv
    <2>5. /\ \A i, j \in 1..(top - 1) : stack[i].node = stack[j].node => i = j
          /\ \A i \in 1..(top - 1) : stack[i].left \subseteq Imported(stack[i].node)
          /\ \A i \in 1..(top - 1) : i + 1 \in 1..(top - 1) =>
               stack[i + 1].node \in Imported(stack[i].node)
          /\ \A i, j \in 1..(top - 1) : i < j =>
               stack[j].node \in ReachedFrom(stack[i].node)
      BY <1>5, <2>1, <2>2, <2>4
    <2> QED BY <1>1, <1>3, <2>3, <2>5 DEF StackOK
  <1>10. AdjOK' /\ Reports'
    BY <1>1 DEF AdjOK, Reports, IsCycle
  <1> QED BY <1>1, <1>7, <1>8, <1>9, <1>10

LEMMA ReportCyclesCycles ==
  ASSUME CyclesInv, ReportCycles
  PROVE  CyclesInv'
  <1> USE DEF CyclesInv, ReportCycles
  <1>1. /\ adj' = adj /\ stack' = stack /\ finished' = finished /\ cycles' = cycles
        /\ \A n : Imported(n)' = Imported(n)
        /\ \A n : ReachedFrom(n)' = ReachedFrom(n)
        /\ Packages' = Packages /\ pc' = "done"
    BY SameGraph DEF cycleVars, Answer
  <1>2. AdjOK' /\ StackOK'
    BY <1>1 DEF AdjOK, StackOK
  <1>3. Reports' /\ Looked' /\ Knots'
    <2>1. Reports'
      <3>1. \A c : IsCycle(c)' <=> IsCycle(c)
        BY <1>1, Zenon DEF IsCycle
      <3> QED BY <1>1, <3>1, Zenon DEF Reports
    <2>2. Looked'
      <3>1. stack' = <<>>
        BY <1>1
      <3>2. DOMAIN stack' = {}
        BY <3>1, NoElements, Zenon
      <3> HIDE DEF CyclesInv, ReportCycles
      <3> QED BY <3>2 DEF Looked
    <2>3. Knots'
      BY <1>1 DEF Knots, Knotted
    <2> QED BY <2>1, <2>2, <2>3
  <1>4. Waiting' = {}
    BY <1>1 DEF Waiting
  <1> QED BY <1>1, <1>2, <1>3, <1>4

LEMMA CyclesStep ==
  ASSUME CyclesInv, Tables, Phases, [Next]_vars
  PROVE  CyclesInv'
  <1> DEFINE calm == /\ UNCHANGED cycleVars /\ call'.tool = call.tool
                     /\ pc' = "walk" <=> pc = "walk"
                     /\ pc' = "called" => pc = "called"
                     /\ pc' = "done" => pc = "done" \/ call.tool # "circular_imports"
  <1>1. calm => CyclesInv'
    BY CyclesFrame
  <1>2. CASE UNCHANGED vars
    BY <1>1, <1>2 DEF vars
  <1>3. CASE \E f \in Files : Commit(f)
    <2>1. UNCHANGED <<call, pc, cycleVars>>
      BY <1>3 DEF Commit
    <2> QED BY <1>1, <2>1
  <1>4. CASE StartDependents
    <2>1. calm
      BY <1>4 DEF StartDependents, Begin, Answer
    <2> QED BY <1>1, <2>1
  <1>18. CASE ResolveTarget
    <2>1. PICK names : call \in CallsOf(names)
      BY DEF Tables
    <2>2. call'.tool = call.tool
      BY <1>18, <2>1 DEF ResolveTarget, CallsOf
    <2>3. calm
      BY <1>18, <2>2 DEF ResolveTarget, Begin, Answer, Phases
    <2> QED BY <1>1, <2>3
  <1>5. CASE Expand
    <2>1. calm
      BY <1>5 DEF Expand, Answer, Render
    <2> QED BY <1>1, <2>1
  <1>6. CASE FinishBfs
    <2>1. calm
      BY <1>6 DEF FinishBfs, Answer, Render
    <2> QED BY <1>1, <2>1
  <1>7. CASE StartTrace
    <2>1. calm
      BY <1>7 DEF StartTrace, Answer
    <2> QED BY <1>1, <2>1
  <1>8. CASE CheckTo
    <2>1. calm
      BY <1>8 DEF CheckTo, Answer, Phases
    <2> QED BY <1>1, <2>1
  <1>9. CASE FollowCalls
    <2>1. calm
      BY <1>9 DEF FollowCalls
    <2> QED BY <1>1, <2>1
  <1>10. CASE NoPath
    <2>1. calm
      BY <1>10 DEF NoPath, Answer
    <2> QED BY <1>1, <2>1
  <1>11. CASE Reconstruct
    <2>1. calm
      BY <1>11 DEF Reconstruct
    <2> QED BY <1>1, <2>1
  <1>12. CASE Synthesize
    <2>1. calm
      BY <1>12 DEF Synthesize, Answer, Phases
    <2> QED BY <1>1, <2>1
  <1>13. CASE LoadImports
    BY <1>13, LoadImportsCycles
  <1>14. CASE PickRoot
    BY <1>14, PickRootCycles
  <1>15. CASE Return
    BY <1>15, ReturnCycles
  <1>16. CASE ReportCycles
    BY <1>16, ReportCyclesCycles
  <1>17. CASE \E n : Look(n)
    BY <1>17, LookCycles
  <1> QED
    BY <1>2, <1>3, <1>4, <1>5, <1>6, <1>7, <1>8, <1>9, <1>10, <1>11, <1>12,
       <1>13, <1>14, <1>15, <1>16, <1>17, <1>18 DEF Next, Step

(* When dfs has started from every package that imports one, every package *)
(* on a cycle is finished.                                                 *)
LEMMA CyclesReported ==
  ASSUME CyclesInv
  PROVE  CyclesAreFound
  <1> USE DEF CyclesInv
  <1>1. ASSUME pc = "done", call.tool = "circular_imports", NEW e \in adj,
               e[1] \in ReachedFrom(e[1])
        PROVE  Knotted(e[1])
    BY <1>1 DEF Waiting, Knots
  <1> QED BY <1>1 DEF CyclesAreFound, Reports, Knotted

-----------------------------------------------------------------------------
(* The theorems.                                                           *)

LEMMA SearchAlways == Spec => [](TreeInv /\ CyclesInv)
  <1>1. Init => TreeInv /\ CyclesInv
    BY InitTree, InitCycles
  <1>2. TreeInv /\ CyclesInv /\ [Next]_vars => TreeInv' /\ CyclesInv'
    BY TreeStep, CyclesStep DEF TreeInv
  <1> QED BY <1>1, <1>2, PTL DEF Spec

(* Every variable keeps its type and the tree of a search is one: no node  *)
(* twice, every node below a parent found before it, whatever the builds   *)
(* commit between two queries.                                             *)
THEOREM TypesKept == Spec => []TypeOK
  BY TreeTypes, SearchAlways, PTL

(* dependents, read while nothing is committed, shows nodes that can be    *)
(* reached from the target in as many edges as their depth says.  When no  *)
(* node in it has more callees than the query returns (refs.go's LIMIT),   *)
(* the depths are the distances and it lacks only what max_depth and       *)
(* max_nodes exclude, with a leaf marked.  Below a node that has more, all *)
(* that is certain is that the tree holds RowLimit of them.                *)
THEOREM TreesExact == Spec => []TreeIsExact
  BY ExactTree, SearchAlways, PTL

(* trace_calls answers with a chain from the one end to the other; read    *)
(* while nothing is committed, every hop of it is a call and shows a row   *)
(* of the index.  When no node it has met has more callees than the query  *)
(* returns (path.go's limit), the chain is a shortest one and "no path"    *)
(* says that there is none of at most max_depth calls.                     *)
THEOREM PathsExact == Spec => []PathIsExact
  BY ExactPath, SearchAlways, PTL

(* circular_imports reports cycles of the imports, each once, and none of  *)
(* the packages on a cycle goes without a report.                          *)
THEOREM CyclesFound == Spec => []CyclesAreFound
  BY CyclesReported, SearchAlways, PTL
====
