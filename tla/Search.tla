------------------------------- MODULE Search -------------------------------
(***************************************************************************)
(* The graph traversals of the read tools: dependents (graph.BFS over      *)
(* callers, callees, importing packages or modules), trace_calls           *)
(* (path.Between) and circular_imports (queries.ImportCycles).             *)
(*                                                                         *)
(* A traversal runs one SELECT per node it expands, each against the index *)
(* as it is then, while the watcher's builds commit file by file between   *)
(* them: a step of the tool is one query with the work done in memory on   *)
(* its rows, and Commit replaces the rows of one file.  The frontier of    *)
(* both breadth-first searches is kept as one queue, nodes, whose part     *)
(* from head on is not expanded yet: the code's frontier and next slices   *)
(* are the nodes of two successive depths, in the same order.              *)
(***************************************************************************)
EXTENDS Queries

CONSTANTS Files,      \* the files of the project
          Contents,   \* the rows a build may write for each file
          Calls,      \* the tool calls a client may make
          Suffixed,   \* <<id, input>>: the package id is LIKE '%/' || input
          MaxCommits  \* bound on the commits during a call

DefaultMaxDepth == 4
DefaultMaxNodes == 500
TraceMaxDepth == 6
RefKinds == {"call", "type-use", "import"}

\* The arguments of a call, those with a default filled in.
CallsOf(names) ==
  [tool : {"dependents", "trace_calls", "circular_imports"},
   level : {"symbol", "package", "module"}, direction : {"callers", "callees"},
   from : names, to : names, kind : RefKinds \union {AnyKind}, transitive : BOOLEAN,
   maxDepth : Int, maxNodes : Int]

\* The tables are finite, a row's line and the name it refers to are numbers,
\* and so are names and limits.
ASSUME SearchAssumption ==
  /\ MaxCommits \in Nat /\ RowLimit \in Nat /\ CalleeLimit \in Nat
  /\ IsFiniteSet(Files)
  /\ \A f \in Files : \A c \in Contents[f] :
       /\ IsFiniteSet(c.refs)
       /\ IsFiniteSet(c.pkgs)
       /\ \A r \in c.refs : r.line \in Nat /\ r.to \in Nat
  /\ Calls \subseteq CallsOf(Nat)

VARIABLES index,     \* the rows of each file
          commits,   \* commits since the call began
          call,      \* the call's arguments, from resolved to a package
          pc,        \* where the call is
          answer,    \* the kind of answer given
          nodes,     \* Tree.Nodes: discovered, in order
          head,      \* the first of nodes that is not expanded
          parent,    \* Tree.Parent
          depth,     \* Tree.Depth
          cut,       \* Tree.Reason, "" when not Truncated
          hops,      \* trace_calls: the edges of the path found
          adj,       \* circular_imports: the edges loaded
          stack,     \* the depth-first path: [node, left], left its
                     \* successors that are not looked at yet
          finished,  \* nodes explored to the end
          cycles     \* the cycles found, in order

treeVars == <<nodes, head, parent, depth, cut>>
cycleVars == <<adj, stack, finished, cycles>>
vars == <<index, commits, call, pc, answer, treeVars, hops, cycleVars>>

Rows == [files |-> {f \in Files : index[f].pkgs # {}},
         syms  |-> UNION {index[f].syms : f \in Files},
         refs  |-> UNION {index[f].refs : f \in Files},
         pkgs  |-> UNION {index[f].pkgs : f \in Files}]

NoTree == /\ nodes = <<>>
          /\ head = 1
          /\ parent = <<>>
          /\ depth = <<>>
          /\ cut = ""

NoCycles == /\ adj = {}
            /\ stack = <<>>
            /\ finished = {}
            /\ cycles = <<>>

Called == /\ commits = 0
          /\ call \in Calls
          /\ pc = "called"
          /\ answer = ""
          /\ NoTree
          /\ hops = <<>>
          /\ NoCycles

Init == /\ index \in {i \in [Files -> UNION {Contents[f] : f \in Files}] :
                        \A f \in Files : i[f] \in Contents[f]}
        /\ Called

-----------------------------------------------------------------------------
(* A build, in the daemon's process, commits one file.                     *)

Commit(f) ==
  /\ pc # "done"
  /\ commits < MaxCommits
  /\ \E c \in Contents[f] \ {index[f]} : index' = [index EXCEPT ![f] = c]
  /\ commits' = commits + 1
  /\ UNCHANGED <<call, pc, answer, treeVars, hops, cycleVars>>

Answer(a) == pc' = "done" /\ answer' = a

-----------------------------------------------------------------------------
(* dependents                                                              *)

\* Options with a value of 0 or less mean the defaults of package graph.
BfsDepth == LET d == IF call.transitive THEN call.maxDepth ELSE 1
            IN  IF d <= 0 THEN DefaultMaxDepth ELSE d
BfsNodes == IF call.maxNodes <= 0 THEN DefaultMaxNodes ELSE call.maxNodes

\* The closure dependents hands to BFS: the successors of n, and whether
\* the query orders them.
Successors(db, n) ==
  CASE call.level = "module" -> ModuleImporters(db, n)
    [] call.level = "package" -> PackageImporters(db, n)
    [] call.direction = "callers" -> SymbolCallers(db, n)
    [] OTHER -> SymbolCallees(db, n, call.kind)

Ordered == call.level = "symbol" /\ call.direction = "callees"

CanExpand == call.level = "symbol" /\ call.direction = "callers"
               => CanAskCallers(call.kind)

\* The orders in which new nodes may come out of a query.
Orders(S, sorted) ==
  {o \in [1..Cardinality(S) -> S] :
     \A i, j \in 1..Cardinality(S) : i < j => o[i] # o[j] /\ (sorted => o[i] < o[j])}

PlantRoot(root) == /\ nodes' = <<root>>
                   /\ head' = 1
                   /\ parent' = <<>>
                   /\ depth' = [n \in {root} |-> 0]

\* BFS up to its first query.
Begin(root) ==
  /\ PlantRoot(root)
  /\ IF BfsNodes <= 1
     THEN cut' = "max_nodes" /\ Answer("no dependents")
     ELSE cut' = "" /\ pc' = "expand" /\ UNCHANGED answer

PackageIds(db) == {p.id : p \in db.pkgs}

\* The lookup of the target.  A package is first looked for as it is named.
StartDependents ==
  /\ pc = "called"
  /\ call.tool = "dependents"
  /\ LET found == CASE call.level = "symbol" -> SymbolByQName(Rows, call.from) # {}
                     [] call.level = "module" -> call.from \in ModuleList
                     [] OTHER -> call.from \in PackageIds(Rows)
     IN  IF found THEN Begin(call.from)
         ELSE /\ UNCHANGED treeVars
              /\ IF call.level \in {"symbol", "module"} THEN Answer("not found")
                 ELSE pc' = "candidates" /\ UNCHANGED answer
  /\ UNCHANGED <<index, commits, call, hops, cycleVars>>

\* resolvePackageIDCandidates, whose pass A only asks for some of these.
PackageMatches(db, input) ==
  {id \in PackageIds(db) : id = input \/ <<id, input>> \in Suffixed}

\* resolvePackageID: the one match, or the input as it was typed.
ResolveTarget ==
  /\ pc = "candidates"
  /\ LET hits == PackageMatches(Rows, call.from)
     IN  IF Cardinality(hits) > 1
         THEN Answer("ambiguous") /\ UNCHANGED <<call, treeVars>>
         ELSE \E id \in IF hits = {} THEN {call.from} ELSE hits :
                /\ call' = [call EXCEPT !.from = id]
                /\ Begin(id)
  /\ UNCHANGED <<index, commits, hops, cycleVars>>

\* What the handler does with the tree BFS leaves: a tree of one node says
\* that nothing depends on the target.
Render(tree) == IF Len(tree) <= 1 THEN Answer("no dependents") ELSE Answer("tree")

\* The newcomers of one expansion join the tree in the order they come.
Join(cur, new) ==
  LET got == {new[i] : i \in DOMAIN new}
  IN  /\ nodes' = nodes \o new
      /\ parent' = [s \in DOMAIN parent \union got |->
                      IF s \in got THEN cur ELSE parent[s]]
      /\ depth' = [s \in DOMAIN depth \union got |->
                      IF s \in got THEN depth[cur] + 1 ELSE depth[s]]

\* Mutant: visited is not consulted.
FreshRevisits(successors, cur) == successors \ {cur}

Fresh(successors, cur) == successors \ ({cur} \union DOMAIN depth)

\* One call of expand; the loop over its successors stops at MaxNodes.
Expand ==
  /\ pc = "expand"
  /\ call.tool = "dependents"
  /\ head <= Len(nodes)
  /\ depth[nodes[head]] < BfsDepth
  /\ IF ~CanExpand
     THEN Answer("error") /\ UNCHANGED treeVars
     ELSE LET cur == nodes[head]
              room == BfsNodes - Len(nodes)
          IN  \E order \in Orders(Fresh(Successors(Rows, cur), cur), Ordered) :
                LET new == Limited(room, order)
                IN  /\ Join(cur, new)
                    /\ IF Len(new) = room
                       THEN /\ cut' = "max_nodes"
                            /\ Render(nodes')
                            /\ UNCHANGED head
                       ELSE /\ head' = head + 1
                            /\ UNCHANGED <<cut, pc, answer>>
  /\ UNCHANGED <<index, commits, call, hops, cycleVars>>

\* Mutant: a frontier left at MaxDepth is not flagged.
FinishBfsUnflagged ==
  /\ pc = "expand"
  /\ call.tool = "dependents"
  /\ head <= Len(nodes) => depth[nodes[head]] = BfsDepth
  /\ Render(nodes)
  /\ UNCHANGED <<index, commits, call, treeVars, hops, cycleVars>>

\* The frontier is empty, or stands at MaxDepth.
FinishBfs ==
  /\ pc = "expand"
  /\ call.tool = "dependents"
  /\ \/ head > Len(nodes) /\ cut' = ""
     \/ head <= Len(nodes) /\ depth[nodes[head]] = BfsDepth /\ cut' = "max_depth"
  /\ Render(nodes)
  /\ UNCHANGED <<index, commits, call, nodes, head, parent, depth, hops, cycleVars>>

\* MaxDepthHint, Children and buildNode: the leaves marked as truncated.
Children(n) == {c \in DOMAIN parent : parent[c] = n}
MaxDepthHint == CHOOSE d \in {depth[n] : n \in DOMAIN depth} :
                  \A n \in DOMAIN depth : depth[n] <= d
MarkedLeaves == IF cut = "" THEN {}
                ELSE {n \in DOMAIN depth : Children(n) = {} /\ depth[n] = MaxDepthHint}

-----------------------------------------------------------------------------
(* trace_calls                                                             *)

TraceDepth == IF call.maxDepth <= 0 THEN TraceMaxDepth ELSE call.maxDepth

StartTrace ==
  /\ pc = "called"
  /\ call.tool = "trace_calls"
  /\ IF call.from = call.to THEN Answer("same symbol")
     ELSE IF SymbolByQName(Rows, call.from) = {} THEN Answer("not found")
     ELSE pc' = "checkTo" /\ UNCHANGED answer
  /\ UNCHANGED <<index, commits, call, treeVars, hops, cycleVars>>

CheckTo ==
  /\ pc = "checkTo"
  /\ IF SymbolByQName(Rows, call.to) = {}
     THEN Answer("not found") /\ UNCHANGED treeVars
     ELSE /\ PlantRoot(call.from)
          /\ pc' = "expand"
          /\ UNCHANGED <<answer, cut>>
  /\ UNCHANGED <<index, commits, call, hops, cycleVars>>

\* One getCallees: the loop over the callees stops at the one looked for.
FollowCalls ==
  /\ pc = "expand"
  /\ call.tool = "trace_calls"
  /\ head <= Len(nodes)
  /\ depth[nodes[head]] < TraceDepth
  /\ LET cur == nodes[head]
         fresh == Fresh(RefsFrom(Rows, cur, "call", CalleeLimit), cur)
     IN  \E order \in Orders(fresh, TRUE) :
           IF call.to \in fresh
           THEN /\ \E k \in DOMAIN order : /\ order[k] = call.to
                                            /\ Join(cur, SubSeq(order, 1, k))
                /\ pc' = "reconstruct"
                /\ UNCHANGED head
           ELSE /\ Join(cur, order)
                /\ head' = head + 1
                /\ UNCHANGED pc
  /\ UNCHANGED <<index, commits, call, answer, cut, hops, cycleVars>>

NoPath ==
  /\ pc = "expand"
  /\ call.tool = "trace_calls"
  /\ head <= Len(nodes) => depth[nodes[head]] = TraceDepth
  /\ Answer("no path")
  /\ UNCHANGED <<index, commits, call, treeVars, hops, cycleVars>>

\* Mutant: the chain is not reversed.
PathToRoot(n) ==
  LET up[i \in Nat] == IF i = 0 THEN n ELSE parent[up[i - 1]]
  IN  [i \in 1..(depth[n] + 1) |-> up[i - 1]]

\* The chain of parents of n, root first (also Tree.PathFromRoot).
PathFromRoot(n) ==
  LET up[i \in Nat] == IF i = 0 THEN n ELSE parent[up[i - 1]]
  IN  [i \in 1..(depth[n] + 1) |-> up[depth[n] + 1 - i]]

\* The kinds the grouped query may show for an edge: those of the rows with
\* its lowest line, whatever their kind.
ShownKinds(db, a, b) ==
  LET rows == {r \in db.refs : FromSymbol(db, r).qn = a /\ r.to = b}
  IN  {r.kind : r \in {x \in rows : \A y \in rows : x.line <= y.line}}

\* The one query over all the edges of the chain.
Reconstruct ==
  /\ pc = "reconstruct"
  /\ LET chain == PathFromRoot(call.to)
         kinds(i) == ShownKinds(Rows, chain[i], chain[i + 1])
         found(i) == kinds(i) # {}
     IN  \E shown \in [1..(Len(chain) - 1) -> RefKinds] :
           /\ \A i \in DOMAIN shown :
                shown[i] \in IF found(i) THEN kinds(i) ELSE {"call"}
           /\ hops' = [i \in DOMAIN shown |->
                         [from |-> chain[i], to |-> chain[i + 1], kind |-> shown[i],
                          site |-> IF found(i) THEN "ref" ELSE "asked"]]
  /\ pc' = "synthesize"
  /\ UNCHANGED <<index, commits, call, answer, treeVars, cycleVars>>

\* A hop whose row is gone is given the callee's own symbol as its source,
\* or none when that is gone too.
Synthesize ==
  /\ pc = "synthesize"
  /\ LET asked == {i \in DOMAIN hops : hops[i].site = "asked"}
     IN  IF asked = {} THEN Answer("path") /\ UNCHANGED hops
         ELSE \E i \in asked :
                /\ \A j \in asked : i <= j
                /\ hops' = [hops EXCEPT ![i].site =
                              IF SymbolByQName(Rows, hops[i].to) # {} THEN "symbol" ELSE "bare"]
                /\ UNCHANGED <<pc, answer>>
  /\ UNCHANGED <<index, commits, call, treeVars, cycleVars>>

-----------------------------------------------------------------------------
(* circular_imports                                                        *)

LoadImports ==
  /\ pc = "called"
  /\ call.tool = "circular_imports"
  /\ adj' = ImportEdges(Rows)
  /\ pc' = "walk"
  /\ UNCHANGED <<index, commits, call, answer, treeVars, hops,
                 stack, finished, cycles>>

OnStack == {stack[i].node : i \in DOMAIN stack}
Imported(n) == {e[2] : e \in {x \in adj : x[1] = n}}
Frame(n) == [node |-> n, left |-> Imported(n)]

\* The unfinished nodes the outer loop has not started from yet.
Waiting == {e[1] : e \in adj} \ finished

PickRoot ==
  /\ pc = "walk"
  /\ stack = <<>>
  /\ Waiting # {}
  /\ \E n \in Waiting : /\ \A m \in Waiting : n <= m
                        /\ stack' = <<Frame(n)>>
  /\ UNCHANGED <<index, commits, call, pc, answer, treeVars, hops,
                 adj, finished, cycles>>

\* A place of a cycle, counted on past its end.
Around(c, i) == IF i <= Len(c) THEN i ELSE i - Len(c)
Rotations(c) == {[i \in 1..Len(c) |-> c[Around(c, i + k)]] : k \in 1..Len(c)}
\* canonicalKey: the same for every rotation of a cycle and of its reverse.
CanonicalKey(c) == Rotations(c) \union Rotations(Reverse(c))

Seen(c) == \E i \in DOMAIN cycles : CanonicalKey(cycles[i]) = CanonicalKey(c)

\* Mutant: the slice starts after the node the cycle returns to.
ExtractCycleShort(start) ==
  LET at == CHOOSE i \in DOMAIN stack : stack[i].node = start
  IN  [i \in 1..(Len(stack) - at) |-> stack[at + i].node]

\* extractCycle: the stack from start on.
ExtractCycle(start) ==
  LET at == CHOOSE i \in DOMAIN stack : stack[i].node = start
  IN  [i \in 1..(Len(stack) - at + 1) |-> stack[at + i - 1].node]

\* The loop over adj[node] looks at one successor.
Look(n) ==
  /\ pc = "walk"
  /\ stack # <<>>
  /\ n \in stack[Len(stack)].left
  /\ LET rest == [stack EXCEPT ![Len(stack)].left = @ \ {n}]
     IN  \/ /\ n \in OnStack
            /\ cycles' = IF Seen(ExtractCycle(n)) THEN cycles
                         ELSE Append(cycles, ExtractCycle(n))
            /\ stack' = rest
         \/ /\ n \notin OnStack
            /\ stack' = IF n \in finished THEN rest ELSE Append(rest, Frame(n))
            /\ UNCHANGED cycles
  /\ UNCHANGED <<index, commits, call, pc, answer, treeVars, hops, adj, finished>>

\* dfs returns.
Return ==
  /\ pc = "walk"
  /\ stack # <<>>
  /\ stack[Len(stack)].left = {}
  /\ finished' = finished \union {stack[Len(stack)].node}
  /\ stack' = SubSeq(stack, 1, Len(stack) - 1)
  /\ UNCHANGED <<index, commits, call, pc, answer, treeVars, hops, adj, cycles>>

ReportCycles ==
  /\ pc = "walk"
  /\ stack = <<>>
  /\ Waiting = {}
  /\ Answer(IF cycles = <<>> THEN "no cycles" ELSE "cycles")
  /\ UNCHANGED <<index, commits, call, treeVars, hops, cycleVars>>

-----------------------------------------------------------------------------
Step == \/ StartDependents \/ ResolveTarget \/ Expand \/ FinishBfs
        \/ StartTrace \/ CheckTo \/ FollowCalls \/ NoPath
        \/ Reconstruct \/ Synthesize
        \/ LoadImports \/ PickRoot \/ Return \/ ReportCycles
        \/ \E n \in Imported(IF stack = <<>> THEN 0 ELSE stack[Len(stack)].node) : Look(n)

Next == Step \/ \E f \in Files : Commit(f)

Spec == Init /\ [][Next]_vars

-----------------------------------------------------------------------------
(* Properties.                                                             *)

\* The graph a search is about: every successor of n, however many rows a
\* query may return.
AsksRefsFrom == call.tool = "trace_calls" \/ (call.level = "symbol" /\ call.direction # "callers")
Linked(n) ==
  IF AsksRefsFrom
  THEN Referenced(Rows, n, IF call.tool = "trace_calls" THEN "call" ELSE call.kind)
  ELSE Successors(Rows, n)

\* n has more successors than its query returns.
RowsAsked == IF call.tool = "trace_calls" THEN CalleeLimit ELSE RowLimit
Crowded(n) == AsksRefsFrom /\ Cardinality(Linked(n)) > RowsAsked

\* What is at most k edges away from the root.
Within(k) ==
  LET near[j \in Nat] ==
        IF j = 0 THEN {call.from}
        ELSE near[j - 1] \union UNION {Linked(n) : n \in near[j - 1]}
  IN  near[k]

\* The call has been answered and nothing was committed meanwhile.
Quiet == pc = "done" /\ commits = 0

\* Every variable keeps its type, and the tree of a search is one whatever
\* is committed between its queries: no node twice, the root first, every
\* other node below a parent that was found before it.
TypeOK ==
  /\ commits \in 0..MaxCommits
  /\ pc \in {"called", "candidates", "checkTo", "expand", "reconstruct", "synthesize", "walk", "done"}
  /\ cut \in {"", "max_depth", "max_nodes"}
  /\ head \in 1..(Len(nodes) + 1)
  /\ \A i, j \in DOMAIN nodes : nodes[i] = nodes[j] => i = j
  /\ DOMAIN depth = Range(nodes)
  /\ nodes # <<>> => nodes[1] = call.from /\ depth[call.from] = 0
  /\ DOMAIN parent = DOMAIN depth \ {call.from}
  /\ \A n \in DOMAIN parent : /\ parent[n] \in DOMAIN depth
                              /\ depth[n] = depth[parent[n]] + 1

\* A tree of dependents, read while nothing is committed, shows nodes that
\* are reached from the target in as many edges as their depth says.  When
\* no node in it is crowded, its depths are the distances, it lacks only
\* what its limits exclude, and a leaf is marked as truncated when it lacks
\* something that is there.  A crowded node lacks callees and no mark says
\* so; all that is certain is that RowLimit of them are in the tree.  "No
\* dependents" is true when the target is not crowded, except that
\* max_nodes = 1 answers it of every target.
TreeIsExact ==
  Quiet /\ answer \in {"tree", "no dependents"} =>
    /\ \A n \in DOMAIN depth : n \in Within(depth[n])
    /\ \A n \in DOMAIN depth :
         Crowded(n) /\ cut # "max_nodes" /\ depth[n] < BfsDepth
           => Cardinality(Linked(n) \intersect DOMAIN depth) >= RowLimit
    /\ (\A n \in DOMAIN depth : ~Crowded(n)) =>
         /\ \A n \in DOMAIN depth : depth[n] > 0 => n \notin Within(depth[n] - 1)
         /\ cut = "" => UNION {Linked(n) : n \in DOMAIN depth} \subseteq DOMAIN depth
         /\ cut = "max_depth" => DOMAIN depth = Within(BfsDepth)
         /\ cut = "max_nodes" => /\ Len(nodes) = BfsNodes
                                 /\ MaxDepthHint > 0
                                      => Within(MaxDepthHint - 1) \subseteq DOMAIN depth
         /\ answer = "tree" => Within(BfsDepth + 1) \subseteq DOMAIN depth \/ MarkedLeaves # {}
         /\ answer = "no dependents" => Linked(call.from) \subseteq {call.from} \/ BfsNodes = 1

\* The index holds the row a hop shows.
Shows(hop) == \E r \in Rows.refs : /\ FromSymbol(Rows, r).qn = hop.from
                                   /\ r.to = hop.to /\ r.kind = hop.kind

\* A path is a chain of at most max_depth hops from the one end to the
\* other, at any time.  Read while nothing is committed, each hop is a call
\* and shows a row of the index, which may be another reference that the
\* caller makes to the callee; and when no node the search has met is
\* crowded, the path is a shortest one and "no path" says that there is
\* none of at most max_depth calls.
PathIsExact ==
  /\ answer = "path" =>
       /\ hops[1].from = call.from
       /\ hops[Len(hops)].to = call.to
       /\ \A i \in 2..Len(hops) : hops[i].from = hops[i - 1].to
       /\ Len(hops) <= TraceDepth
  /\ Quiet /\ answer = "path" =>
       \A i \in DOMAIN hops : /\ hops[i].site = "ref"
                              /\ hops[i].to \in Linked(hops[i].from)
                              /\ Shows(hops[i])
  /\ Quiet /\ (\A n \in DOMAIN depth : ~Crowded(n)) =>
       /\ answer = "path" => call.to \notin Within(Len(hops) - 1)
       /\ answer = "no path" => call.to \notin Within(TraceDepth)

\* What is reachable from n by at least one import: what is in every set
\* that holds the imports of n and of its own members.
ReachedFrom(n) ==
  LET imported == {e[2] : e \in adj}
  IN  {m \in imported :
         \A S \in SUBSET imported :
           Imported(n) \union UNION {Imported(x) : x \in S} \subseteq S => m \in S}

IsCycle(c) ==
  /\ Len(c) >= 2
  /\ \A i, j \in DOMAIN c : c[i] = c[j] => i = j
  /\ \A i \in DOMAIN c : <<c[i], c[Around(c, i + 1)]>> \in adj

\* Each cycle reported is a cycle of the imports, none is reported twice,
\* and every package that lies on a cycle is knotted with a reported one
\* (not every cycle is reported, as the tool's description has it: a search
\* that meets a finished node goes no further).  So the report is empty
\* exactly when the imports are acyclic.
CyclesAreFound ==
  /\ \A i \in DOMAIN cycles :
       /\ IsCycle(cycles[i])
       /\ \A j \in DOMAIN cycles :
            CanonicalKey(cycles[i]) = CanonicalKey(cycles[j]) => i = j
  /\ pc = "done" /\ call.tool = "circular_imports" =>
       \A e \in adj :
         e[1] \in ReachedFrom(e[1]) =>
           \E i \in DOMAIN cycles : \E m \in Range(cycles[i]) :
             m \in ReachedFrom(e[1]) /\ e[1] \in ReachedFrom(m)
=============================================================================
