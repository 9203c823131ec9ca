------------------------------ MODULE Queries ------------------------------
(***************************************************************************)
(* The read queries of the index: one operator per SELECT of               *)
(* internal/core/queries, over the rows of the index at one instant.       *)
(*                                                                         *)
(* Rows are records:                                                       *)
(*   symbol  [id, qn, kind, file, pkg, parent, exported, shape,            *)
(*            start, end]                                                  *)
(*   ref     [from, to, kind, line]   from is a symbol's id, to a name     *)
(*   package [id, module]                                                  *)
(* and an index is [files, syms, refs, pkgs].  Names, paths and ids are    *)
(* numbers, ordered the way SQLite orders the strings they stand for; a    *)
(* path's segments are PathOf[file].  A query without ORDER BY returns a   *)
(* set; one with it returns a set too when its callers use it as one, and  *)
(* a sequence otherwise.                                                   *)
(***************************************************************************)
EXTENDS Integers, FiniteSets, Sequences, SequencesExt

CONSTANTS PathOf,      \* the segments of the path of each file
          PathLength,  \* length(path): the characters of it
          PrefixLike,  \* the <<file, prefix>> with path LIKE prefix || '%'
          SuffixLike,  \* the <<file, input>> with path LIKE '%/' || input
          ModuleList,  \* the modules the last full build stamped into meta
          RowLimit,    \* LIMIT when the caller passes none: 100
          CalleeLimit  \* LIMIT path.Between passes: 200

AnyKind == "any"      \* kind = "": no filter
NoParent == 0

-----------------------------------------------------------------------------
(* Helpers of the SQL fragments.                                           *)

WhereKind(refs, kind) == {r \in refs : kind = AnyKind \/ r.kind = kind}

\* JOIN symbols s ON s.id = r.from_symbol
FromSymbol(db, r) == CHOOSE s \in db.syms : s.id = r.from

\* ORDER BY x LIMIT limit, over a set of numbers
Lowest(limit, S) == {x \in S : Cardinality({y \in S : y < x}) < limit}

\* ORDER BY: the members of S, x before y when Before(x, y).
Sorted(S, Before(_, _)) ==
  LET insert(x, s) == SelectSeq(s, LAMBDA y : ~Before(x, y)) \o <<x>>
                        \o SelectSeq(s, LAMBDA y : Before(x, y))
  IN  FoldSet(insert, <<>>, S)

\* ORDER BY f.path, s.start_line
InFileOrder(syms) ==
  Sorted(syms, LAMBDA s, t : \/ s.file < t.file
                             \/ (s.file = t.file /\ s.start < t.start))

Limited(limit, s) == SubSeq(s, 1, IF Len(s) < limit THEN Len(s) ELSE limit)
-----------------------------------------------------------------------------
(* Symbols and references.                                                 *)

SymbolByQName(db, qn) == {s \in db.syms : s.qn = qn}

RefsTo(db, qn, kind) ==
  Limited(RowLimit,
          Sorted(WhereKind({r \in db.refs : r.to = qn}, kind),
                 LAMBDA p, q : LET f == FromSymbol(db, p).file
                                   g == FromSymbol(db, q).file
                               IN  f < g \/ (f = g /\ p.line < q.line)))

Referenced(db, qn, kind) ==
  {r.to : r \in WhereKind({r \in db.refs : FromSymbol(db, r).qn = qn}, kind)}

RefsFrom(db, qn, kind, limit) == Lowest(limit, Referenced(db, qn, kind))

SymbolCallees(db, qn, kind) == RefsFrom(db, qn, kind, RowLimit)

\* whereKind adds a second placeholder that nothing binds: with a kind the
\* statement cannot run.  CanAskCallers says when it can.
CanAskCallers(kind) == kind = AnyKind

SymbolCallers(db, qn) ==
  {FromSymbol(db, r).qn : r \in {x \in db.refs : x.to = qn}}

-----------------------------------------------------------------------------
(* Packages and modules.                                                   *)

ImportsOf(db, pkg) == {r \in db.refs : r.kind = "import" /\ r.to = pkg}

PackageImporters(db, pkg) == {FromSymbol(db, r).pkg : r \in ImportsOf(db, pkg)}

ListImporters(db, pkg) == {p \in db.pkgs : p.id \in PackageImporters(db, pkg)}

ModulesOf(db, pkg) == {p.module : p \in {q \in db.pkgs : q.id = pkg}}

ModuleImporters(db, module) ==
  UNION {ModulesOf(db, FromSymbol(db, r).pkg) :
           r \in {x \in db.refs : /\ x.kind = "import"
                                  /\ module \in ModulesOf(db, x.to)}}
    \ {module}

\* The adjacency ImportCycles loads: imports between indexed packages.
ImportEdges(db) ==
  {e \in {<<FromSymbol(db, r).pkg, r.to>> :
            r \in {x \in db.refs : x.kind = "import"}} :
     /\ e[1] # e[2]
     /\ ModulesOf(db, e[1]) # {}
     /\ ModulesOf(db, e[2]) # {}}

\* The declarations of the files whose imports anchor names the package.
ListImports(db, pkg) ==
  LET files == {FromSymbol(db, r).file :
                  r \in {x \in ImportsOf(db, pkg) :
                           FromSymbol(db, x).kind = "imports"}}
  IN  InFileOrder({s \in db.syms : /\ s.file \in files
                                   /\ s.kind # "imports"
                                   /\ s.parent = NoParent})

PackageOutline(db, pkg, kinds) ==
  InFileOrder({s \in db.syms : /\ s.pkg = pkg
                               /\ s.kind # "imports"
                               /\ kinds # {} => s.kind \in kinds})

\* ModuleOverview's COUNT columns for one package.
PackageSummary(db, pkg) ==
  LET own == {s \in db.syms : s.pkg = pkg}
      named == {s \in own : s.kind # "imports"}
  IN  [files    |-> Cardinality({s.file : s \in own}),
       symbols  |-> Cardinality(named),
       exported |-> Cardinality({s \in named : s.exported})]

ModuleOverview(db) ==
  [m \in ModuleList |->
     {[pkg |-> p.id, sum |-> PackageSummary(db, p.id)] :
        p \in {q \in db.pkgs : q.module = m}}]

Stats(db) == [files |-> Cardinality(db.files), packages |-> Cardinality(db.pkgs),
              symbols |-> Cardinality(db.syms), refs |-> Cardinality(db.refs)]

-----------------------------------------------------------------------------
(* Types.                                                                  *)

\* The children of the symbol of that name with the lowest id.
TypeMembers(db, qn) ==
  LET same == SymbolByQName(db, qn)
      type == CHOOSE s \in same : \A t \in same : s.id <= t.id
  IN  IF same = {} THEN {} ELSE {s \in db.syms : s.parent = type.id}

InterfaceImplementers(db, qn) ==
  {FromSymbol(db, r) : r \in {x \in db.refs : /\ x.kind = "type-use"
                                              /\ x.to = qn
                                              /\ FromSymbol(db, x).kind = "type"}}

-----------------------------------------------------------------------------
(* Dead code candidates.                                                   *)

\* The clause is "s.exported = 1" when includeUnexported is set and "1 = 1"
\* when it is not.
UnusedSymbols(db, includeUnexported, limit) ==
  LET idle == {s \in db.syms : /\ s.kind # "imports"
                               /\ s.parent = NoParent
                               /\ includeUnexported => s.exported
                               /\ ~ \E r \in db.refs : r.to = s.qn}
  IN  {s \in idle : Cardinality({t \in idle : t.qn < s.qn}) < limit}

\* filterEntryPoints, on what a symbol's name, signature and file amount to.
EntryPoint(s, includeTests) ==
  \/ s.shape = "main"
  \/ s.shape \in {"testfile", "test"} /\ ~includeTests
  \/ s.kind = "method" /\ s.shape = "interface"

-----------------------------------------------------------------------------
(* Files.                                                                  *)

\* LIKE knows no segments where it has no '/', takes '_' for any character
\* and A for a: which paths it matches is a constant.
PathIs(db, path) == {f \in db.files : PathOf[f] = path}
SuffixMatches(db, input) == {f \in db.files : <<f, input>> \in SuffixLike}

FilePathCandidates(db, input) == PathIs(db, input) \union SuffixMatches(db, input)

\* ResolveFilePath asks for the path itself first, and then for one of the
\* shortest that end with it.
ShortestSuffixMatch(db, input) ==
  LET hits == SuffixMatches(db, input)
  IN  {f \in hits : \A g \in hits : PathLength[f] <= PathLength[g]}

FileOutline(db, file) == {s \in db.syms : s.file = file}

\* Where FileTree hangs a file: at its path when it lies below the prefix;
\* one that LIKE brought in hangs below the prefix by the whole of its path.
Place(prefix, file) ==
  IF IsStrictPrefix(prefix, PathOf[file]) THEN PathOf[file] ELSE prefix \o PathOf[file]

\* The paths that begin with the prefix, without those that would hang
\* deeper than maxDepth.
FilesUnder(db, prefix, maxDepth) ==
  {f \in db.files :
     /\ <<f, prefix>> \in PrefixLike
     /\ maxDepth > 0 => Len(Place(prefix, f)) - Len(prefix) <= maxDepth}
=============================================================================
