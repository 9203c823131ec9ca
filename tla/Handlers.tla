------------------------------ MODULE Handlers ------------------------------
(***************************************************************************)
(* The listing tools of internal/handlers: list_file, get_symbol with its  *)
(* body, list_package, list_files, show_changes, unused, type_hierarchy    *)
(* and the tools that are one query and a cap.                             *)
(*                                                                         *)
(* A handler runs its queries one after another with no transaction around *)
(* them, and two of them read the project's files as well.  Meanwhile the  *)
(* files are edited (Edit) and the daemon's builds commit what they read   *)
(* (Reindex), so a handler may see the index of one moment and the disk,   *)
(* or the rest of the index, of another.                                   *)
(***************************************************************************)
EXTENDS Queries

CONSTANTS Files,     \* the files of the project, in path order
          Versions,  \* the contents a file may have
          Absent, Denied,  \* no such file; a file that cannot be read
          None,      \* no row
          Parsed,    \* what the frontend makes of a version of a file
          LinesIn,   \* how many lines a version of a file has
          PkgPath,   \* the segments of each package id
          ModPath,   \* the segments of each module of ModuleList
          UnusedLimit, \* the limit unused asks for by default: 200
          Calls,     \* the tool calls a client may make
          MaxMoves   \* bound on the edits and commits during a call

\* strings.Split returns one line at least.
ASSUME HandlersAssumption ==
  /\ MaxMoves \in Nat
  /\ IsFiniteSet(Files) /\ Files \subseteq Nat
  /\ Absent \notin Versions /\ Denied \notin Versions \union {Absent}
  /\ \A f \in Files : PathOf[f] \in Seq(STRING) \ {<<>>} /\ PathLength[f] \in Nat
  /\ \A f \in Files : \A v \in Versions : LinesIn[f][v] \in Nat \ {0}
  /\ \A c \in Calls : c.head \in Int /\ c.max \in Int /\ c.path \in Seq(STRING)

\* A frontend reports lines that are in the file it has parsed.
ASSUME FrontendAssumption ==
  \A f \in Files : \A v \in Versions : \A s \in Parsed[f][v].syms :
    /\ s.file = f
    /\ s.start \in 1..s.end /\ s.end \in 1..LinesIn[f][v]

\* ORDER BY path leaves together what lies below one directory.
ASSUME PathsAssumption ==
  \A f, g, h \in Files : f <= g /\ g <= h =>
    \A dir \in Prefixes(PathOf[f]) :
      IsStrictPrefix(dir, PathOf[f]) /\ IsStrictPrefix(dir, PathOf[h])
        => IsStrictPrefix(dir, PathOf[g])

\* What lies below a directory is LIKE its path, and what ends with a path is
\* LIKE it; more than that may be.
ASSUME LikeAssumption ==
  \A c \in Calls : \A f \in Files :
    /\ c.tool = "list_files" /\ IsStrictPrefix(c.path, PathOf[f])
         => <<f, c.path>> \in PrefixLike
    /\ c.tool = "list_file" /\ IsSuffix(c.path, PathOf[f])
         => c.path \in {<<>>, PathOf[f]} \/ <<f, c.path>> \in SuffixLike

VARIABLES disk, index,  \* the version of each file on disk and in the index
          moves,        \* edits and commits since the call began
          call, pc, answer,
          found,        \* list_file: the candidates; list_package: the matches;
                        \* list_files: the files of the tree
          row,          \* the file, symbol, package or tree the call settled on
          slice,        \* get_symbol: the lines read [from, to, of]
          prev, left,   \* show_changes: files of the index; files still to visit
          diff,         \* show_changes: the four buckets and seen
          items         \* what the answer lists

results == <<found, row, slice, prev, left, diff, items>>
vars == <<disk, index, moves, call, pc, answer, results>>

Indexed == {f \in Files : index[f] # Absent}
Rows == [files |-> Indexed,
         syms  |-> UNION {Parsed[f][index[f]].syms : f \in Indexed},
         refs  |-> UNION {Parsed[f][index[f]].refs : f \in Indexed},
         pkgs  |-> UNION {Parsed[f][index[f]].pkgs : f \in Indexed}]

NoDiff == [added |-> <<>>, modified |-> <<>>, inaccessible |-> <<>>,
           removed |-> <<>>, seen |-> {}]

Called == /\ moves = 0
          /\ call \in Calls
          /\ pc = "called"
          /\ answer = ""
          /\ found = {}
          /\ row = None
          /\ slice = <<>>
          /\ prev = <<>>
          /\ left = {}
          /\ diff = NoDiff
          /\ items = <<>>

Init == /\ disk \in [Files -> Versions \union {Absent, Denied}]
        /\ index \in [Files -> Versions \union {Absent}]
        /\ Called

-----------------------------------------------------------------------------
(* The project and the daemon move on.                                     *)

Edit(f) ==
  /\ pc # "done"
  /\ moves < MaxMoves
  /\ \E v \in (Versions \union {Absent, Denied}) \ {disk[f]} : disk' = [disk EXCEPT ![f] = v]
  /\ moves' = moves + 1
  /\ UNCHANGED <<index, call, pc, answer, results>>

\* A build commits the file as it is; one it cannot read keeps its rows.
Reindex(f) ==
  /\ pc # "done"
  /\ moves < MaxMoves
  /\ disk[f] \notin {index[f], Denied}
  /\ index' = [index EXCEPT ![f] = disk[f]]
  /\ moves' = moves + 1
  /\ UNCHANGED <<disk, call, pc, answer, results>>

-----------------------------------------------------------------------------
(* The cap on what is shown.                                               *)

\* capFor: head = 0 or less shows everything.
Shown(total) == IF call.head <= 0 \/ total <= call.head THEN total ELSE call.head
Capped(s) == SubSeq(s, 1, Shown(Len(s)))

Answer(a) == pc' = "done" /\ answer' = a
Waits(p) == pc' = p /\ UNCHANGED answer

Keeps(others) == UNCHANGED <<disk, index, moves, call, others>>

\* ORDER BY, of a set of numbers: as many of them are lower as stand before.
InOrder(S) ==
  [i \in 1..Cardinality(S) |-> CHOOSE x \in S : Cardinality({y \in S : y < x}) = i - 1]

-----------------------------------------------------------------------------
(* Tools that are one query.                                               *)

OneQuery(db) ==
  CASE call.tool = "who_calls" -> RefsTo(db, call.name, AnyKind)
    [] call.tool = "what_calls" -> InOrder(RefsFrom(db, call.name, AnyKind, RowLimit))
    [] call.tool = "list_importers" -> InOrder({p.id : p \in ListImporters(db, call.name)})
    [] call.tool = "list_imports" -> ListImports(db, call.name)
    [] call.tool = "list_modules" -> InOrder(ModuleList)
    [] call.tool = "show_modules" ->
         LET sums == ModuleOverview(db) IN [i \in 1..Cardinality(ModuleList) |->
                                              sums[InOrder(ModuleList)[i]]]
    [] call.tool = "status" -> <<Stats(db)>>
    [] call.tool = "unused" ->
         SelectSeq(Sorted(UnusedSymbols(db, call.unexported, UnusedLimit),
                          LAMBDA s, t : s.qn < t.qn),
                   LAMBDA s : ~EntryPoint(s, call.tests))

OneQueryTools == {"who_calls", "what_calls", "list_importers", "list_imports",
                  "list_modules", "show_modules", "status", "unused"}

AnswerOneQuery ==
  /\ pc = "called"
  /\ call.tool \in OneQueryTools
  /\ items' = Capped(OneQuery(Rows))
  /\ Answer("list")
  /\ Keeps(<<found, row, slice, prev, left, diff>>)

-----------------------------------------------------------------------------
(* list_file                                                               *)

StartListFile ==
  /\ pc = "called"
  /\ call.tool = "list_file"
  /\ found' = FilePathCandidates(Rows, call.path)
  /\ IF found' = {} THEN Answer("not_found") ELSE Waits("resolve")
  /\ Keeps(<<row, slice, prev, left, diff, items>>)

\* FileOutline resolves the path afresh, with two queries of its own: the
\* path itself, and when no file has it, one that ends with it.
ResolveOutline ==
  /\ pc = "resolve"
  /\ LET exact == PathIs(Rows, call.path)
     IN  IF exact # {} THEN row' \in exact /\ Waits("outline")
         ELSE UNCHANGED row /\ Waits("suffix")
  /\ Keeps(<<found, slice, prev, left, diff, items>>)

ResolveSuffix ==
  /\ pc = "suffix"
  /\ LET hits == ShortestSuffixMatch(Rows, call.path)
     IN  IF hits = {} THEN row' = None ELSE row' \in hits
  /\ Waits("outline")
  /\ Keeps(<<found, slice, prev, left, diff, items>>)

\* Mutant: the announcement is made for a single match as well.
OutlineAnnounces ==
  /\ pc = "outline"
  /\ LET syms == IF row = None THEN {} ELSE FileOutline(Rows, row)
     IN  IF syms # {}
         THEN Answer("outline") /\ items' = InFileOrder(syms)
         ELSE Answer("panic") /\ UNCHANGED items
  /\ Keeps(<<found, row, slice, prev, left, diff>>)

\* An ambiguous path is announced with the file of the first symbol, which
\* need not exist: syms[0] of an empty outline stops the program.
Outline ==
  /\ pc = "outline"
  /\ LET syms == IF row = None THEN {} ELSE FileOutline(Rows, row)
     IN  IF syms # {}
         THEN Answer("outline") /\ items' = InFileOrder(syms)
         ELSE /\ Answer(IF Cardinality(found) > 1 THEN "panic" ELSE "no_symbols")
              /\ UNCHANGED items
  /\ Keeps(<<found, row, slice, prev, left, diff>>)

-----------------------------------------------------------------------------
(* get_symbol                                                              *)

StartGetSymbol ==
  /\ pc = "called"
  /\ call.tool = "get_symbol"
  /\ LET same == SymbolByQName(Rows, call.name)
     IN  IF same = {} THEN Answer("no_symbol") /\ UNCHANGED row
         ELSE /\ row' \in {s \in same : \A t \in same : s.start <= t.start}
              /\ IF call.body THEN Waits("slice") ELSE Answer("header")
  /\ Keeps(<<found, slice, prev, left, diff, items>>)

\* SourceSlice looks the symbol's file up again ...
FindSource ==
  /\ pc = "slice"
  /\ IF row.file \in Rows.files THEN Waits("read") ELSE Answer("error")
  /\ Keeps(results)

\* Mutant: the last line of the index is trusted.
ClampTrusts(lines, sym, max) ==
  LET to == IF sym.end <= 0 THEN lines ELSE sym.end
      lo == IF sym.start < 1 THEN 1 ELSE sym.start
      from == IF lo > to THEN to ELSE lo
  IN  <<from, IF max > 0 /\ to - from + 1 > max THEN from + max - 1 ELSE to>>

\* ... and reads the lines of the index from the file on disk.
Clamp(lines, sym, max) ==
  LET to == IF sym.end <= 0 \/ sym.end > lines THEN lines ELSE sym.end
      lo == IF sym.start < 1 THEN 1 ELSE sym.start
      from == IF lo > to THEN to ELSE lo
  IN  <<from, IF max > 0 /\ to - from + 1 > max THEN from + max - 1 ELSE to>>

ReadSource ==
  /\ pc = "read"
  /\ LET v == disk[row.file]
     IN  IF v \in {Absent, Denied} THEN Answer("error") /\ UNCHANGED slice
         ELSE /\ slice' = Append(Clamp(LinesIn[row.file][v], row, call.max), v)
              /\ Answer("body")
  /\ Keeps(<<found, row, prev, left, diff, items>>)

-----------------------------------------------------------------------------
(* list_package                                                            *)

PackageIds(db) == {p.id : p \in db.pkgs}

\* resolvePackageID: an exact id, else the one match, else the input as it
\* is, which no package has.
StartListPackage ==
  /\ pc = "called"
  /\ call.tool = "list_package"
  /\ LET exact == {p \in PackageIds(Rows) : PkgPath[p] = call.path}
     IN  IF exact # {} THEN row' \in exact /\ Waits("package")
         ELSE UNCHANGED row /\ Waits("candidates")
  /\ Keeps(<<found, slice, prev, left, diff, items>>)

PackageMatches(db) ==
  {p \in PackageIds(db) :
     \/ \E m \in ModuleList : PkgPath[p] = ModPath[m] \o call.path
     \/ IsSuffix(call.path, PkgPath[p])}

ResolvePackageID ==
  /\ pc = "candidates"
  /\ found' = PackageMatches(Rows)
  /\ IF Cardinality(found') > 1 THEN Answer("ambiguous") /\ UNCHANGED row
     ELSE /\ Waits("package")
          /\ IF found' = {} THEN row' = None ELSE row' \in found'
  /\ Keeps(<<slice, prev, left, diff, items>>)

ListPackage ==
  /\ pc = "package"
  /\ items' = Capped(PackageOutline(Rows, row, call.kinds))
  /\ Answer(IF items' = <<>> THEN "no_symbols" ELSE "list")
  /\ Keeps(<<found, row, slice, prev, left, diff>>)

-----------------------------------------------------------------------------
(* type_hierarchy                                                          *)

StartTypeHierarchy ==
  /\ pc = "called"
  /\ call.tool = "type_hierarchy"
  /\ LET same == SymbolByQName(Rows, call.name)
     IN  IF same = {} THEN Answer("no_symbol")
         ELSE IF \A s \in same : s.kind # "type" THEN Answer("not_a_type")
         ELSE Waits("members")
  /\ Keeps(results)

ListMembers ==
  /\ pc = "members"
  /\ found' = TypeMembers(Rows, call.name)
  /\ Waits("implementers")
  /\ Keeps(<<row, slice, prev, left, diff, items>>)

ListImplementers ==
  /\ pc = "implementers"
  /\ items' = Capped(InFileOrder(found)) \o
               Capped(InFileOrder(InterfaceImplementers(Rows, call.name)))
  /\ Answer("hierarchy")
  /\ Keeps(<<found, row, slice, prev, left, diff>>)

-----------------------------------------------------------------------------
(* list_files                                                              *)

\* The directories of the tree are paths.  A file hangs in the last of those
\* above its place; the next one toward it, seen from dir, is the file itself
\* when it hangs in dir.
At(f) == Place(call.path, f)
Dirs == {call.path} \union UNION {Prefixes(At(f)) : f \in Files}
Toward(dir, f) == SubSeq(At(f), 1, Len(dir) + 1)
HangsIn(dir, f) == Toward(dir, f) = At(f)

\* A directory lists its files, and each directory in it at the first file
\* that hangs below that one.  An entry is named by that file.
Entries(files, dir) ==
  LET below == {f \in files : IsStrictPrefix(dir, At(f))}
  IN  InOrder({f \in below : HangsIn(dir, f) \/ \A g \in below :
                 Toward(dir, g) = Toward(dir, f) => HangsIn(dir, g) \/ f <= g})

\* A tree is what it shows, the files at its leaves, in pre-order.
Leaves(files, top) ==
  LET leaves[d \in Dirs] ==
        LET entries == Entries(files, d)
        IN  FlattenSeq([i \in DOMAIN entries |->
                          IF HangsIn(d, entries[i]) THEN <<entries[i]>>
                          ELSE leaves[Toward(d, entries[i])]])
  IN  leaves[top]

\* Mutant: each child is trimmed to max, whatever was kept before it.
TrimFileTreeAfresh(files, top, most) ==
  LET trim[d \in Dirs] ==
        [max \in 1..most |->
          IF Len(Leaves(files, d)) <= max THEN Leaves(files, d)
          ELSE FoldLeft(LAMBDA kept, f : IF Len(kept) >= max THEN kept
                          ELSE kept \o IF HangsIn(d, f) THEN <<f>> ELSE trim[Toward(d, f)][max],
                        <<>>, Entries(files, d))]
  IN  trim[top][most]

\* trimFileTree: children are kept until max leaves are, and the last one is
\* trimmed in its turn.
TrimFileTree(files, top, most) ==
  LET trim[d \in Dirs] ==
        [max \in 1..most |->
          IF Len(Leaves(files, d)) <= max THEN Leaves(files, d)
          ELSE FoldLeft(LAMBDA kept, f : IF Len(kept) >= max THEN kept
                          ELSE kept \o IF HangsIn(d, f) THEN <<f>>
                                       ELSE trim[Toward(d, f)][max - Len(kept)],
                        <<>>, Entries(files, d))]
  IN  trim[top][most]

\* lookupFileNode: a prefix that is a file is answered with that file.
StartListFiles ==
  /\ pc = "called"
  /\ call.tool = "list_files"
  /\ LET exact == PathIs(Rows, call.path)
     IN  IF exact # {} THEN Answer("list") /\ items' = InOrder(exact)
         ELSE Waits("tree") /\ UNCHANGED items
  /\ Keeps(<<found, row, slice, prev, left, diff>>)

\* found keeps the files, row the whole tree, items the data that is returned.
ListFiles ==
  /\ pc = "tree"
  /\ found' = FilesUnder(Rows, call.path, call.depth)
  /\ row' = Leaves(found', call.path)
  /\ items' = IF Shown(Len(row')) < Len(row')
              THEN TrimFileTree(found', call.path, Shown(Len(row')))
              ELSE row'
  /\ Answer("list")
  /\ Keeps(<<slice, prev, left, diff>>)

-----------------------------------------------------------------------------
(* show_changes                                                            *)

\* AllFiles, then the walk reads the directory.
StartShowChanges ==
  /\ pc = "called"
  /\ call.tool = "show_changes"
  /\ prev' = index
  /\ Waits("walk")
  /\ Keeps(<<found, row, slice, left, diff, items>>)

ReadDirectory ==
  /\ pc = "walk"
  /\ left' = {f \in Files : disk[f] # Absent}
  /\ Waits("visit")
  /\ Keeps(<<found, row, slice, prev, diff, items>>)

\* Fingerprint of one file, and the bucket it falls into.  A file that
\* cannot be read, or is gone since the directory was read, is not seen.
Visit(f) ==
  /\ pc = "visit"
  /\ f \in left
  /\ \A g \in left : f <= g
  /\ left' = left \ {f}
  /\ diff' =
       IF disk[f] \in {Absent, Denied}
       THEN [diff EXCEPT !.inaccessible = Append(@, f),
                         !.modified = IF prev[f] # Absent THEN Append(@, f) ELSE @]
       ELSE IF prev[f] = Absent
       THEN [diff EXCEPT !.seen = @ \union {f}, !.added = Append(@, f)]
       ELSE [diff EXCEPT !.seen = @ \union {f},
                         !.modified = IF prev[f] # disk[f] THEN Append(@, f) ELSE @]
  /\ UNCHANGED <<pc, answer>>
  /\ Keeps(<<found, row, slice, prev, items>>)

\* Mutant: a list that does not fit is shown whole.
TakeWhole(n, s) == IF n <= 0 THEN <<>> ELSE s

\* take, list after list, until the cap is used up.
Take(n, s) == SubSeq(s, 1, IF Len(s) <= n THEN Len(s) ELSE n)

FinishDiff ==
  /\ pc = "visit"
  /\ left = {}
  /\ LET gone == InOrder({f \in Files : prev[f] # Absent} \ diff.seen)
         all == diff.added \o diff.modified \o gone \o diff.inaccessible
         n == Shown(Len(all))
         a == Take(n, diff.added)
         m == Take(n - Len(a), diff.modified)
         r == Take(n - Len(a) - Len(m), gone)
         i == Take(n - Len(a) - Len(m) - Len(r), diff.inaccessible)
     IN  /\ diff' = [diff EXCEPT !.removed = gone]
         /\ items' = a \o m \o r \o i
  /\ Answer("changes")
  /\ Keeps(<<found, row, slice, prev, left>>)

-----------------------------------------------------------------------------
Step == \/ AnswerOneQuery
        \/ StartListFile \/ ResolveOutline \/ ResolveSuffix \/ Outline
        \/ StartGetSymbol \/ FindSource \/ ReadSource
        \/ StartListPackage \/ ResolvePackageID \/ ListPackage
        \/ StartTypeHierarchy \/ ListMembers \/ ListImplementers
        \/ StartListFiles \/ ListFiles
        \/ StartShowChanges \/ ReadDirectory \/ FinishDiff
        \/ \E f \in Files : Visit(f)

Next == Step \/ \E f \in Files : Edit(f) \/ Reindex(f)

Spec == Init /\ [][Next]_vars

-----------------------------------------------------------------------------
(* Properties.                                                             *)

Quiet == pc = "done" /\ moves = 0

TypeOK ==
  /\ disk \in [Files -> Versions \union {Absent, Denied}]
  /\ index \in [Files -> Versions \union {Absent}]
  /\ moves \in 0..MaxMoves
  /\ left \subseteq Files
  /\ pc \in {"called", "resolve", "suffix", "outline", "slice", "read", "candidates", "package",
             "members", "implementers", "tree", "walk", "visit", "done"}

\* Every variable keeps its type, and a listing stops the program in one case
\* only: list_file was asked for a path that several files match, and the
\* one it settles on has no symbols, or went away after the first query.
OnlyEmptyMatchesPanic ==
  /\ TypeOK
  /\ answer = "panic" =>
       /\ call.tool = "list_file"
       /\ Cardinality(found) > 1
       /\ row # None => FileOutline(Rows, row) = {}
       /\ moves = 0 => /\ row \in found
                       /\ PathOf[row] # call.path =>
                            \A f \in found : PathLength[row] <= PathLength[f]

\* The body get_symbol shows lies within the file it reads and within
\* max_lines, however stale the index is; when the file is as it was
\* indexed and nothing moves, it is the symbol, cut at max_lines.
BodyIsTheSymbol ==
  answer = "body" =>
    /\ 1 <= slice[1] /\ slice[1] <= slice[2]
    /\ slice[2] <= LinesIn[row.file][slice[3]]
    /\ call.max > 0 => slice[2] - slice[1] < call.max
    /\ Quiet /\ disk[row.file] = index[row.file] =>
         /\ slice[1] = row.start
         /\ slice[2] = row.end \/ slice[2] = row.start + call.max - 1

BucketsOf(f) == {b \in {"added", "modified", "removed", "inaccessible"} :
                   f \in Range(diff[b])}

\* show_changes puts a file in one bucket at most, except one it could not
\* read: that one is inaccessible, and modified and removed as well when it
\* was indexed.  When nothing moves the buckets are the difference between
\* the disk and the index, and what is shown never exceeds the cap.
BucketsAreExact ==
  answer = "changes" =>
    /\ \A f \in Files :
         IF f \in Range(diff.inaccessible)
         THEN BucketsOf(f) \ {"modified", "removed"} = {"inaccessible"}
         ELSE Cardinality(BucketsOf(f)) <= 1
    /\ Quiet => \A f \in Files :
         /\ BucketsOf(f) = {} <=> disk[f] = index[f]
         /\ disk[f] \in {Absent, Denied} /\ index[f] # Absent
              => "removed" \in BucketsOf(f)
    /\ Len(items) = Shown(Len(diff.added) + Len(diff.modified) + Len(diff.removed)
                            + Len(diff.inaccessible))

\* list_files shows each file it found once, and under a cap the first of
\* them as the tree shows them.  That is the path order when all of them lie
\* below the directory; what LIKE brings in from beside it comes where the
\* tree hangs it.
TrimKeepsTheHead ==
  answer = "list" /\ call.tool = "list_files" /\ row # None =>
    /\ Len(row) = Cardinality(found) /\ Range(row) = found
    /\ items = SubSeq(row, 1, Shown(Len(row)))
    /\ (\A f \in found : IsStrictPrefix(call.path, PathOf[f])) => row = InOrder(found)
=============================================================================
