------------------------------ MODULE MCSearch ------------------------------
(***************************************************************************)
(* Four files; file n declares function n in package 10 + n, and its       *)
(* imports anchor.  An index either has calls between the functions or     *)
(* imports between the packages, along any subset of MCLinks.              *)
(***************************************************************************)
EXTENDS Search

MCFiles == 1..4
MCPathOf == [f \in MCFiles |-> <<f>>]
MCPathLength == [f \in MCFiles |-> 1]
MCModules == {21, 22}

\* Short names of packages: 5 is short for two, 6 for one, 7 for none.
MCSuffixed == {<<12, 5>>, <<14, 5>>, <<13, 6>>}

MCLinks == {<<1, 2>>, <<1, 3>>, <<1, 4>>, <<2, 3>>, <<3, 2>>, <<3, 4>>, <<4, 1>>}

Symbol(id, qn, kind, f) ==
  [id |-> id, qn |-> qn, kind |-> kind, file |-> f, pkg |-> 10 + f,
   parent |-> NoParent, exported |-> TRUE, shape |-> "plain", start |-> id, end |-> id]

\* A type is mentioned above the call of its constructor: line 0 and kind
\* type-use for the reference from 1 to 2.
CallRow(n, m) == [from |-> n, to |-> m, kind |-> "call", line |-> m]
TypeRow == [from |-> 1, to |-> 2, kind |-> "type-use", line |-> 0]
ImportRow(n, m) == [from |-> 30 + n, to |-> 10 + m, kind |-> "import", line |-> m]

LinksOf(f) == SUBSET {l \in MCLinks : l[1] = f}

Content(f, refs) ==
  [syms |-> {Symbol(f, f, "func", f), Symbol(30 + f, 30 + f, "imports", f)},
   refs |-> refs,
   pkgs |-> {[id |-> 10 + f, module |-> IF f <= 2 THEN 21 ELSE 22]}]

NoContent == [syms |-> {}, refs |-> {}, pkgs |-> {}]

CallContents(f) ==
  {Content(f, {CallRow(l[1], l[2]) : l \in L} \union (IF f = 1 THEN {TypeRow} ELSE {})) :
     L \in LinksOf(f)}
ImportContents(f) ==
  {Content(f, {ImportRow(l[1], l[2]) : l \in L}) : L \in LinksOf(f)}

\* The last file may be gone; the calls and the imports are built apart.
MCContents ==
  [f \in MCFiles |-> CallContents(f) \union ImportContents(f)
                       \union (IF f = 4 THEN {NoContent} ELSE {})]

Dependents(level, direction, root, kind, d, n) ==
  [tool |-> "dependents", level |-> level, direction |-> direction, from |-> root,
   to |-> 0, kind |-> kind, transitive |-> d # 1, maxDepth |-> d, maxNodes |-> n]
Trace(from, to, d) ==
  [tool |-> "trace_calls", level |-> "symbol", direction |-> "callees", from |-> from,
   to |-> to, kind |-> "call", transitive |-> TRUE, maxDepth |-> d, maxNodes |-> 0]

MCCalls ==
  {Dependents("symbol", "callees", 1, "call", d, n) : d \in {0, 1, 2}, n \in {0, 1, 3}}
    \union {Dependents("symbol", "callers", 4, k, 0, n) : k \in {AnyKind, "call"}, n \in {0, 3}}
    \union {Dependents("package", "callers", 12, AnyKind, d, 0) : d \in {0, 2}}
    \union {Dependents("package", "callers", p, AnyKind, 0, 0) : p \in {5, 6, 7}}
    \union {Dependents("module", "callers", m, AnyKind, 0, 0) : m \in {21, 23}}
    \union {Trace(1, 4, d) : d \in {0, 1, 2}}
    \union {Trace(1, 1, 0), Trace(3, 9, 0)}
    \union {[Trace(0, 0, 0) EXCEPT !.tool = "circular_imports"]}

\* The initial states whose index has the rows the call follows.
Calling == call.tool # "circular_imports" /\ call.level = "symbol"
MCInit ==
  /\ Called
  /\ \E c1 \in IF Calling THEN CallContents(1) ELSE ImportContents(1),
        c2 \in IF Calling THEN CallContents(2) ELSE ImportContents(2),
        c3 \in IF Calling THEN CallContents(3) ELSE ImportContents(3),
        c4 \in {NoContent} \union (IF Calling THEN CallContents(4) ELSE ImportContents(4)) :
       index = <<c1, c2, c3, c4>>
MCSpec == MCInit /\ [][Next]_vars
=============================================================================
