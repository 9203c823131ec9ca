----------------------------- MODULE MCHandlers -----------------------------
(***************************************************************************)
(* Four files in three packages of one module.  Two of them end with       *)
(* ba/doc: one below the directory b, the other below ba, which LIKE 'b%'  *)
(* brings into the tree of b.  Each has a first version with a type, its   *)
(* method and an imports anchor, and a second, shorter one; the second     *)
(* version of a doc file declares nothing.                                 *)
(***************************************************************************)
EXTENDS Handlers

MCFiles == 1..4
MCPathOf == << <<"b", "ba", "doc">>, <<"b", "lib">>, <<"ba", "doc">>, <<"ba", "main">> >>
MCPathLength == <<8, 5, 6, 7>>
MCPrefixLike == (MCFiles \X {<<>>}) \union (MCFiles \X {<<"b">>}) \union {<<4, <<"ba", "main">>>>}
MCSuffixLike == {<<1, <<"doc">>>>, <<3, <<"doc">>>>, <<2, <<"lib">>>>, <<1, <<"ba", "doc">>>>}
MCModules == {40}
MCPkgPath == (31 :> <<"mod", "b", "ba">>) @@ (32 :> <<"mod", "b">>) @@ (33 :> <<"mod", "ba">>)
MCModPath == [m \in MCModules |-> <<"mod">>]
PkgOf == <<31, 32, 33, 33>>

Symbol(id, qn, kind, f, parent, from, to) ==
  [id |-> id, qn |-> qn, kind |-> kind, file |-> f, pkg |-> PkgOf[f], parent |-> parent,
   exported |-> kind = "type", shape |-> IF f = 4 THEN "main" ELSE "plain",
   start |-> from, end |-> to]

Ref(from, to, kind, line) == [from |-> from, to |-> to, kind |-> kind, line |-> line]

Full(f, length) ==
  [syms |-> {Symbol(10 * f, 10 * f, "imports", f, NoParent, 1, 1),
             Symbol(10 * f + 1, 10 * f + 1, "type", f, NoParent, 2, 3),
             Symbol(10 * f + 2, 10 * f + 2, "method", f, 10 * f + 1, length - 1, length)},
   refs |-> {Ref(10 * f, 31, "import", 1), Ref(10 * f + 1, 11, "type-use", 2),
             Ref(10 * f + 2, 11, "call", 4), Ref(10 * f + 2, 21, "call", 5)},
   pkgs |-> {[id |-> PkgOf[f], module |-> 40]}]

Empty(f) == [syms |-> {}, refs |-> {}, pkgs |-> {[id |-> PkgOf[f], module |-> 40]}]

MCVersions == 1..2
MCParsed == [f \in MCFiles |->
               <<Full(f, 6), IF f \in {1, 3} THEN Empty(f) ELSE Full(f, 4)>>]
MCLinesIn == [f \in MCFiles |-> <<6, IF f \in {1, 3} THEN 1 ELSE 4>>]

Call(tool) == [tool |-> tool, name |-> 11, path |-> <<>>, head |-> 2, depth |-> 0,
               body |-> TRUE, max |-> 0, kinds |-> {}, unexported |-> FALSE, tests |-> FALSE]

MCCalls ==
  {Call(t) : t \in {"who_calls", "list_modules", "show_modules", "status", "type_hierarchy",
                    "unused", "show_changes"}}
    \union {[Call("show_changes") EXCEPT !.head = 0],
            [Call("unused") EXCEPT !.unexported = TRUE],
            [Call("what_calls") EXCEPT !.name = 12],
            [Call("type_hierarchy") EXCEPT !.name = 12],
            [Call("list_importers") EXCEPT !.name = 31],
            [Call("list_imports") EXCEPT !.name = 31]}
    \union {[Call("list_file") EXCEPT !.path = p] : p \in {<<"doc">>, <<"lib">>, <<"ba", "doc">>}}
    \union {[Call("get_symbol") EXCEPT !.name = n, !.max = m, !.body = b] :
              n \in {11, 22}, m \in {0, 1}, b \in {TRUE}}
    \union {[Call("get_symbol") EXCEPT !.body = FALSE]}
    \union {[Call("list_package") EXCEPT !.path = p] : p \in {<<"ba">>, <<"mod", "b">>, <<"b", "ba">>}}
    \union {[Call("list_files") EXCEPT !.path = p, !.depth = d, !.head = h] :
              p \in {<<>>, <<"b">>, <<"ba", "main">>}, d \in {0, 2}, h \in {1, 2, 3}}

\* The disk differs from the index in one file at most when a call begins.
MCInit ==
  /\ Called
  /\ index \in [Files -> Versions \union {Absent}]
  /\ \E f \in Files : \E v \in Versions \union {Absent, Denied} :
       disk = [index EXCEPT ![f] = v]
MCSpec == MCInit /\ [][Next]_vars
=============================================================================
