--------------------------- MODULE HandlersProofs ---------------------------
(***************************************************************************)
(* What the listing tools promise, for any files, versions, frontend and   *)
(* number of edits and commits during a call.                              *)
(*                                                                         *)
(* A call that has been answered is not disturbed any more, so each        *)
(* property is about the step that answers, and the invariant says what    *)
(* the earlier queries of the call are still worth then: in any case, and  *)
(* when nothing has moved since (moves = 0).                               *)
(*                                                                         *)
(* What a tree shows, and what is left of it when it is trimmed, are       *)
(* recursive functions of its nodes: both are the listing of the files     *)
(* below a node (Under), or its beginning, by height.  A directory's       *)
(* children divide the files below it into blocks that follow one another, *)
(* and FoldLeft puts their listings together, one child after the other.   *)
(***************************************************************************)
EXTENDS Handlers, TLAPS, FiniteSetTheorems, SequenceTheorems, WellFoundedInduction

(* A call is one a client may make; only list_file resolves a path.        *)
Talk ==
  /\ call \in Calls
  /\ answer # "" => pc = "done"
  /\ pc \in {"resolve", "suffix", "outline"} => call.tool = "list_file"

Settled(f) ==
  /\ f \in found
  /\ PathOf[f] # call.path => \A g \in found : PathLength[f] <= PathLength[g]

(* list_file: the candidates are those of the index, unless it has moved,  *)
(* and so is the file FileOutline settles on.                              *)
Listing ==
  /\ pc \in {"resolve", "suffix"} /\ moves = 0 =>
       found # {} /\ found = FilePathCandidates(Rows, call.path)
  /\ pc = "suffix" /\ moves = 0 => PathIs(Rows, call.path) = {}
  /\ pc = "outline" /\ moves = 0 => Settled(row)

(* get_symbol: the symbol is one of some version of its file, and of the   *)
(* one that is indexed unless a build has committed another.               *)
Cutting ==
  pc \in {"slice", "read"} \/ answer = "body" =>
    /\ row.file \in Files
    /\ \E v \in Versions : row \in Parsed[row.file][v].syms
    /\ moves = 0 => /\ index[row.file] \in Versions
                    /\ row \in Parsed[row.file][index[row.file]].syms

Lists == [added : Seq(Files), modified : Seq(Files), inaccessible : Seq(Files),
          removed : Seq(Files), seen : SUBSET Files]

(* show_changes: a file that waits for its visit is in no bucket; one that *)
(* has been visited was readable and seen, or is inaccessible.             *)
Sorting ==
  \A f \in Files :
    /\ f \in left => /\ f \notin Range(diff.added) \union Range(diff.modified)
                     /\ f \notin Range(diff.inaccessible) \union diff.seen
    /\ f \in Range(diff.added) => f \in diff.seen /\ prev[f] = Absent
    /\ f \in Range(diff.modified) =>
         prev[f] # Absent /\ f \in diff.seen \union Range(diff.inaccessible)
    /\ f \in Range(diff.inaccessible) => f \notin diff.seen

(* While nothing moves, it is in the bucket its version on disk puts it in.*)
Exact ==
  \A f \in Files :
    /\ disk[f] = Absent =>
         f \notin left \union diff.seen \union Range(diff.inaccessible)
    /\ disk[f] = Denied =>
         f \notin diff.seen /\ f \in left \union Range(diff.inaccessible)
    /\ disk[f] \notin {Absent, Denied} =>
         /\ f \notin Range(diff.inaccessible)
         /\ f \in left \union diff.seen
         /\ f \notin left =>
              /\ f \in Range(diff.added) <=> prev[f] = Absent
              /\ f \in Range(diff.modified) <=> prev[f] \notin {Absent, disk[f]}

Comparing ==
  /\ pc \in {"called", "walk"} => diff = NoDiff
  /\ pc \in {"walk", "visit"} => /\ prev \in [Files -> Versions \union {Absent}]
                                 /\ moves = 0 => prev = index
  /\ pc = "visit" => /\ diff \in Lists
                     /\ Sorting
                     /\ moves = 0 => Exact

Inv ==
  /\ OnlyEmptyMatchesPanic
  /\ BodyIsTheSymbol
  /\ BucketsAreExact
  /\ Talk
  /\ Listing
  /\ Cutting
  /\ Comparing

-----------------------------------------------------------------------------
(* Listings of numbers, and caps.                                          *)

LEMMA LeastNumber ==
  ASSUME NEW T \in SUBSET Nat, T # {}
  PROVE  \E k \in T : \A j \in T : k <= j
  <1>1. PICK k \in T : \A j \in T : ~(<<j, k>> \in OpToRel(<, Nat))
    BY NatLessThanWellFounded, WFMin
  <1>2. \A j \in T : ~(j < k)
    BY <1>1 DEF OpToRel
  <1> QED BY <1>2

Lower(S, x) == {y \in S : y < x}

LEMMA LowerGrows ==
  ASSUME NEW S, S \subseteq Nat, NEW x \in S, NEW y \in S, x < y
  PROVE  Lower(S, x) \subseteq Lower(S, y) /\ x \in Lower(S, y) /\ x \notin Lower(S, x)
  <1>1. x \in Nat /\ y \in Nat /\ \A z \in S : z \in Nat
    OBVIOUS
  <1>2. \A z \in Nat : z < x => z < y
    BY <1>1
  <1>3. \A z \in S : z < x => z < y
    BY <1>1, <1>2
  <1>4. ~(x < x)
    BY <1>1
  <1> QED BY <1>3, <1>4 DEF Lower

(* A number's place among others is how many are lower: no two share one,  *)
(* so every place is taken.                                                *)
LEMMA PlacesAreTaken ==
  ASSUME NEW S, IsFiniteSet(S), S \subseteq Nat
  PROVE  /\ \A x \in S : Cardinality(Lower(S, x)) + 1 \in 1..Cardinality(S)
         /\ \A i \in 1..Cardinality(S) : \E x \in S : Cardinality(Lower(S, x)) = i - 1
  <1> DEFINE n == Cardinality(S)
             place == [x \in S |-> Cardinality(Lower(S, x)) + 1]
  <1>1. n \in Nat /\ IsFiniteSet(1..n) /\ Cardinality(1..n) = n
    BY FS_CardinalityType, FS_Interval
  <1>2. \A x \in S : /\ IsFiniteSet(Lower(S, x)) /\ Cardinality(Lower(S, x)) \in Nat
                     /\ Cardinality(Lower(S, x)) < n
    <2> TAKE x \in S
    <2>1. Lower(S, x) \subseteq S /\ x \notin Lower(S, x)
      <3>1. x \in Nat /\ ~(x < x)
        OBVIOUS
      <3> QED BY <3>1 DEF Lower
    <2> QED BY <2>1, FS_Subset, FS_CardinalityType, <1>1
  <1>3. \A x, y \in S : x < y => Cardinality(Lower(S, x)) < Cardinality(Lower(S, y))
    <2> SUFFICES ASSUME NEW x \in S, NEW y \in S, x < y
                 PROVE  Cardinality(Lower(S, x)) < Cardinality(Lower(S, y))
      OBVIOUS
    <2>1. Lower(S, x) \subseteq Lower(S, y) /\ x \in Lower(S, y) /\ x \notin Lower(S, x)
      BY LowerGrows
    <2>2. /\ Cardinality(Lower(S, x)) <= Cardinality(Lower(S, y))
          /\ Cardinality(Lower(S, x)) # Cardinality(Lower(S, y))
      BY <2>1, <1>2, FS_Subset
    <2> QED BY <2>2, <1>2
  <1>4. place \in [S -> 1..n]
    BY <1>1, <1>2
  <1>5. \A x, y \in S : place[x] = place[y] => x = y
    <2> SUFFICES ASSUME NEW x \in S, NEW y \in S, place[x] = place[y], x # y
                 PROVE  FALSE
      OBVIOUS
    <2>1. x < y \/ y < x
      BY DEF Lower
    <2>2. Cardinality(Lower(S, x)) = Cardinality(Lower(S, y))
      BY <1>2
    <2> QED BY <2>1, <2>2, <1>2, <1>3
  <1>6. place \in Injection(S, 1..n)
    BY <1>4, <1>5 DEF Injection, IsInjective
  <1>7. place \in Surjection(S, 1..n)
    BY <1>1, <1>6, FS_Injection
  <1>8. \A i \in 1..n : \E x \in S : place[x] = i
    BY <1>7 DEF Surjection
  <1>9. \A i \in 1..n : \E x \in S : Cardinality(Lower(S, x)) = i - 1
    <2> TAKE i \in 1..n
    <2>1. PICK x \in S : place[x] = i
      BY <1>8
    <2>2. Cardinality(Lower(S, x)) = i - 1
      BY <2>1, <1>1, <1>2
    <2> QED BY <2>2
  <1> QED BY <1>1, <1>2, <1>9

(* A listing of a set of numbers has each of them, once.                   *)
LEMMA InOrderLists ==
  ASSUME NEW S, IsFiniteSet(S), S \subseteq Nat
  PROVE  /\ InOrder(S) \in Seq(S)
         /\ Len(InOrder(S)) = Cardinality(S)
         /\ Range(InOrder(S)) = S
  <1> DEFINE n == Cardinality(S)
             at(i) == CHOOSE x \in S : Cardinality(Lower(S, x)) = i - 1
  <1>1. n \in Nat
    BY FS_CardinalityType
  <1>2. InOrder(S) = [i \in 1..n |-> at(i)]
    BY DEF InOrder, Lower
  <1>3. \A i \in 1..n : at(i) \in S /\ Cardinality(Lower(S, at(i))) = i - 1
    BY PlacesAreTaken
  <1>4. \A x, y \in S : Cardinality(Lower(S, x)) = Cardinality(Lower(S, y)) => x = y
    <2> SUFFICES ASSUME NEW x \in S, NEW y \in S, x < y
                 PROVE  Cardinality(Lower(S, x)) # Cardinality(Lower(S, y))
      OBVIOUS
    <2>1. Lower(S, x) \subseteq Lower(S, y) /\ x \in Lower(S, y) /\ x \notin Lower(S, x)
      BY LowerGrows
    <2>2. IsFiniteSet(Lower(S, y))
      BY FS_Subset DEF Lower
    <2> QED BY <2>1, <2>2, FS_Subset
  <1>5. \A x \in S : \E i \in 1..n : at(i) = x
    <2> TAKE x \in S
    <2>1. Cardinality(Lower(S, x)) + 1 \in 1..n /\ Cardinality(Lower(S, x)) \in Nat
      <3>1. Lower(S, x) \subseteq S
        BY DEF Lower
      <3> QED BY <3>1, PlacesAreTaken, FS_Subset, FS_CardinalityType
    <2> DEFINE i == Cardinality(Lower(S, x)) + 1
    <2>2. i \in 1..n /\ i - 1 = Cardinality(Lower(S, x))
      BY <2>1
    <2>3. at(i) \in S /\ Cardinality(Lower(S, at(i))) = Cardinality(Lower(S, x))
      BY <2>2, <1>3
    <2>4. at(i) = x
      BY <2>3, <1>4
    <2> QED BY <2>2, <2>4
  <1> HIDE DEF at
  <1>6. InOrder(S) \in Seq(S) /\ Len(InOrder(S)) = n
    BY <1>1, <1>2, <1>3
  <1>7. Range(InOrder(S)) = {at(i) : i \in 1..n}
    BY <1>2 DEF Range
  <1> QED BY <1>3, <1>5, <1>6, <1>7

LEMMA AppendRange ==
  ASSUME NEW S, NEW s \in Seq(S), NEW x \in S
  PROVE  Append(s, x) \in Seq(S) /\ Range(Append(s, x)) = Range(s) \union {x}
  <1>1. /\ Len(s) \in Nat /\ DOMAIN s = 1..Len(s)
        /\ Append(s, x) \in Seq(S) /\ DOMAIN Append(s, x) = 1..(Len(s) + 1)
        /\ \A i \in 1..Len(s) : Append(s, x)[i] = s[i]
        /\ Append(s, x)[Len(s) + 1] = x
    OBVIOUS
  <1> QED BY <1>1 DEF Range

LEMMA AppendKeeps ==
  ASSUME NEW S, NEW s \in Seq(S), NEW x \in S
  PROVE  /\ \A i \in 1..Len(s) : Append(s, x)[i] = s[i]
         /\ Append(s, x)[Len(s) + 1] = x
  BY AppendProperties, SMTT(30)

LEMMA ThirdAppended ==
  ASSUME NEW S, NEW s \in Seq(S), Len(s) = 2, NEW x \in S
  PROVE  Append(s, x)[1] = s[1] /\ Append(s, x)[2] = s[2] /\ Append(s, x)[3] = x
  <1>1. /\ \A i \in 1..Len(s) : Append(s, x)[i] = s[i]
        /\ Append(s, x)[Len(s) + 1] = x
    BY AppendKeeps, Zenon
  <1>2. 1 \in 1..Len(s) /\ 2 \in 1..Len(s) /\ Len(s) + 1 = 3
    OBVIOUS
  <1> QED BY <1>1, <1>2, Zenon

LEMMA TakeFits ==
  ASSUME NEW S, NEW s \in Seq(S), NEW n \in Nat
  PROVE  /\ Take(n, s) \in Seq(S)
         /\ Len(Take(n, s)) = IF Len(s) <= n THEN Len(s) ELSE n
  <1> DEFINE m == IF Len(s) <= n THEN Len(s) ELSE n
  <1>1. Len(s) \in Nat /\ m \in Nat /\ m <= Len(s)
    OBVIOUS
  <1>2. \A i \in 1..m : s[i] \in S
    BY <1>1
  <1> HIDE DEF m
  <1>3. /\ SubSeq(s, 1, m) \in Seq(S)
        /\ Len(SubSeq(s, 1, m)) = IF 1 <= m THEN m - 1 + 1 ELSE 0
    BY <1>1, <1>2, SubSeqProperties
  <1>4. Len(SubSeq(s, 1, m)) = m
    BY <1>1, <1>3
  <1>5. Take(n, s) = SubSeq(s, 1, m)
    BY DEF Take, m
  <1> QED BY <1>3, <1>4, <1>5 DEF m

(* The lines cut out of a file are in it, and the symbol's own if it is.   *)
LEMMA ClampIsWithin ==
  ASSUME NEW lines \in Nat \ {0}, NEW sym, sym.start \in Int, sym.end \in Int,
         NEW max \in Int
  PROVE  LET c == Clamp(lines, sym, max)
         IN  /\ c = <<c[1], c[2]>>
             /\ 1 <= c[1] /\ c[1] <= c[2] /\ c[2] <= lines
             /\ max > 0 => c[2] - c[1] < max
             /\ 1 <= sym.start /\ sym.start <= sym.end /\ sym.end <= lines =>
                  c[1] = sym.start /\ (c[2] = sym.end \/ c[2] = sym.start + max - 1)
  <1> DEFINE to == IF sym.end <= 0 \/ sym.end > lines THEN lines ELSE sym.end
             lo == IF sym.start < 1 THEN 1 ELSE sym.start
             from == IF lo > to THEN to ELSE lo
             last == IF max > 0 /\ to - from + 1 > max THEN from + max - 1 ELSE to
  <1>1. Clamp(lines, sym, max) = <<from, last>>
    BY DEF Clamp
  <1>2. to \in 1..lines /\ (sym.end \in 1..lines => to = sym.end)
    OBVIOUS
  <1>3. lo \in Int /\ 1 <= lo /\ (1 <= sym.start => lo = sym.start)
    OBVIOUS
  <1> HIDE DEF to, lo
  <1>4. from \in Int /\ 1 <= from /\ from <= to /\ (lo <= to => from = lo)
    BY <1>2, <1>3
  <1> HIDE DEF from
  <1>5. /\ last \in Int /\ from <= last /\ last <= to
        /\ max > 0 => last - from < max
        /\ last = to \/ last = from + max - 1
    BY <1>2, <1>4
  <1> HIDE DEF last
  <1>6. 1 <= sym.start /\ sym.start <= sym.end /\ sym.end <= lines =>
          from = sym.start /\ to = sym.end
    <2> HAVE 1 <= sym.start /\ sym.start <= sym.end /\ sym.end <= lines
    <2>1. to = sym.end /\ lo = sym.start
      BY <1>2, <1>3
    <2> QED BY <2>1, <1>4
  <1>7. 1 <= from /\ last <= lines
    BY <1>2, <1>4, <1>5
  <1> QED BY <1>1, <1>5, <1>6, <1>7

(* When no file has the path itself, one of the candidates is a shortest,  *)
(* and ResolveFilePath settles on such a one.                              *)
LEMMA SettlesOnShortest ==
  ASSUME found = FilePathCandidates(Rows, call.path), found # {},
         PathIs(Rows, call.path) = {}
  PROVE  /\ ShortestSuffixMatch(Rows, call.path) # {}
         /\ \A f \in ShortestSuffixMatch(Rows, call.path) : Settled(f)
  <1> DEFINE lengths == {PathLength[f] : f \in found}
  <1>1. found = SuffixMatches(Rows, call.path)
    BY DEF FilePathCandidates
  <1>2. \A f \in found : f \in Files /\ PathLength[f] \in Nat
    BY HandlersAssumption DEF FilePathCandidates, PathIs, SuffixMatches, Rows, Indexed
  <1>3. lengths \in SUBSET Nat /\ lengths # {}
    BY <1>2
  <1>4. PICK k \in lengths : \A j \in lengths : k <= j
    BY <1>3, LeastNumber
  <1>5. PICK f \in found : k = PathLength[f]
    OBVIOUS
  <1>6. f \in ShortestSuffixMatch(Rows, call.path)
    BY <1>1, <1>4, <1>5 DEF ShortestSuffixMatch
  <1>7. \A x \in ShortestSuffixMatch(Rows, call.path) : Settled(x)
    BY <1>1 DEF ShortestSuffixMatch, Settled
  <1> QED BY <1>6, <1>7

-----------------------------------------------------------------------------
(* Steps that no property is about.                                        *)

Answers == {"panic", "body", "changes"}

LEMMA Elsewhere ==
  ASSUME Inv, UNCHANGED <<disk, index, moves, call, left>>,
         pc' \in {"candidates", "package", "members", "implementers", "tree", "done"},
         answer' \notin Answers, answer' # "" => pc' = "done"
  PROVE  Inv'
  <1>1. OnlyEmptyMatchesPanic' /\ BodyIsTheSymbol' /\ BucketsAreExact'
    BY DEF Inv, OnlyEmptyMatchesPanic, TypeOK, BodyIsTheSymbol, BucketsAreExact, Answers
  <1>2. Talk' /\ Listing' /\ Cutting' /\ Comparing'
    BY DEF Inv, Talk, Listing, Cutting, Comparing, Answers
  <1> QED BY <1>1, <1>2 DEF Inv

LEMMA InitInv == Init => Inv
  <1> SUFFICES ASSUME Init PROVE Inv
    OBVIOUS
  <1>1. pc = "called" /\ answer = "" /\ call \in Calls /\ moves = 0 /\ diff = NoDiff
    BY DEF Init, Called
  <1>2. TypeOK
    <2>1. MaxMoves \in Nat
      BY HandlersAssumption
    <2>2. moves = 0
      BY <1>1
    <2>3. moves \in 0..MaxMoves
      BY <2>1, <2>2
    <2>4. left = {}
      BY DEF Init, Called
    <2> QED BY <1>1, <2>3, <2>4 DEF Init, TypeOK
  <1>3. OnlyEmptyMatchesPanic /\ BodyIsTheSymbol /\ BucketsAreExact
    BY <1>1, <1>2 DEF OnlyEmptyMatchesPanic, BodyIsTheSymbol, BucketsAreExact
  <1>4. Talk /\ Listing /\ Cutting /\ Comparing
    BY <1>1 DEF Talk, Listing, Cutting, Comparing
  <1> QED BY <1>3, <1>4 DEF Inv

-----------------------------------------------------------------------------
(* Edits and commits, after which nothing is exact any more.               *)

LEMMA MoveInv ==
  ASSUME Inv, NEW f \in Files, Edit(f) \/ Reindex(f)
  PROVE  Inv'
  <1>1. /\ pc # "done" /\ moves < MaxMoves /\ moves' = moves + 1
        /\ UNCHANGED <<call, pc, answer, found, row, slice, prev, left, diff, items>>
    BY DEF Edit, Reindex, results
  <1>2. TypeOK /\ answer = ""
    BY <1>1 DEF Inv, OnlyEmptyMatchesPanic, Talk
  <1>3. moves' \in 0..MaxMoves /\ moves' # 0
    <2>1. MaxMoves \in Nat
      BY HandlersAssumption
    <2>2. moves \in 0..MaxMoves
      BY <1>2 DEF TypeOK
    <2> QED BY <1>1, <2>1, <2>2
  <1>4. /\ disk' \in [Files -> Versions \union {Absent, Denied}]
        /\ index' \in [Files -> Versions \union {Absent}]
    <2>1. CASE Edit(f)
      BY <2>1, <1>2 DEF Edit, TypeOK
    <2>2. CASE Reindex(f)
      <3>1. disk[f] \in Versions \union {Absent}
        BY <2>2, <1>2 DEF Reindex, TypeOK
      <3> QED BY <2>2, <3>1, <1>2 DEF Reindex, TypeOK
    <2> QED BY <2>1, <2>2
  <1>5. TypeOK'
    BY <1>1, <1>2, <1>3, <1>4 DEF TypeOK
  <1>6. answer' = ""
    BY <1>1, <1>2
  <1>7. OnlyEmptyMatchesPanic' /\ BodyIsTheSymbol' /\ BucketsAreExact'
    BY <1>5, <1>6 DEF OnlyEmptyMatchesPanic, BodyIsTheSymbol, BucketsAreExact
  <1>8. Talk' /\ Listing'
    BY <1>1, <1>3 DEF Inv, Talk, Listing
  <1>9. Cutting'
    BY <1>1, <1>3 DEF Inv, Cutting
  <1>10. Comparing'
    <2>1. Sorting => Sorting'
      BY <1>1 DEF Sorting
    <2> QED BY <2>1, <1>1, <1>3 DEF Inv, Comparing
  <1> QED BY <1>7, <1>8, <1>9, <1>10 DEF Inv

-----------------------------------------------------------------------------
(* list_file                                                               *)

LEMMA StartListFileInv ==
  ASSUME Inv, StartListFile
  PROVE  Inv'
  <1>1. /\ UNCHANGED <<disk, index, moves, call, row, slice, prev, left, diff, items>>
        /\ pc = "called" /\ call.tool = "list_file"
        /\ found' = FilePathCandidates(Rows, call.path)
        /\ \/ pc' = "done" /\ answer' = "not_found"
           \/ pc' = "resolve" /\ answer' = answer /\ found' # {}
    BY DEF StartListFile, Answer, Waits, Keeps
  <1>2. CASE pc' = "done" /\ answer' = "not_found"
    BY <1>1, <1>2, Elsewhere DEF Answers
  <1>3. CASE pc' = "resolve" /\ answer' = answer /\ found' # {}
    <2>1. answer' = ""
      BY <1>1, <1>3 DEF Inv, Talk
    <2>2. OnlyEmptyMatchesPanic' /\ BodyIsTheSymbol' /\ BucketsAreExact'
      BY <1>1, <1>3, <2>1
      DEF Inv, OnlyEmptyMatchesPanic, TypeOK, BodyIsTheSymbol, BucketsAreExact
    <2>3. Rows' = Rows
      BY <1>1 DEF Rows, Indexed
    <2>4. Listing'
      BY <1>1, <1>3, <2>3 DEF Listing, FilePathCandidates
    <2>5. Talk' /\ Cutting' /\ Comparing'
      BY <1>1, <1>3, <2>1 DEF Inv, Talk, Cutting, Comparing
    <2> QED BY <2>2, <2>4, <2>5 DEF Inv
  <1> QED BY <1>1, <1>2, <1>3

LEMMA ResolveOutlineInv ==
  ASSUME Inv, ResolveOutline
  PROVE  Inv'
  <1> DEFINE exact == PathIs(Rows, call.path)
  <1>1. /\ UNCHANGED <<disk, index, moves, call, found, slice, prev, left, diff, items>>
        /\ pc = "resolve" /\ answer' = answer
        /\ \/ exact # {} /\ row' \in exact /\ pc' = "outline"
           \/ exact = {} /\ row' = row /\ pc' = "suffix"
    BY DEF ResolveOutline, Waits, Keeps
  <1>2. answer = "" /\ answer' = "" /\ call \in Calls /\ call.tool = "list_file"
    BY <1>1 DEF Inv, Talk
  <1>3. OnlyEmptyMatchesPanic' /\ BodyIsTheSymbol' /\ BucketsAreExact'
    BY <1>1, <1>2
    DEF Inv, OnlyEmptyMatchesPanic, TypeOK, BodyIsTheSymbol, BucketsAreExact
  <1>4. Listing'
    <2>1. moves = 0 => found # {} /\ found = FilePathCandidates(Rows, call.path)
      BY <1>1 DEF Inv, Listing
    <2>2. exact' = exact /\ FilePathCandidates(Rows, call.path)' = FilePathCandidates(Rows, call.path)
      BY <1>1 DEF PathIs, FilePathCandidates, SuffixMatches, Rows, Indexed
    <2>3. CASE exact # {} /\ row' \in exact /\ pc' = "outline"
      <3>1. moves = 0 => row' \in found /\ PathOf[row'] = call.path
        BY <2>1, <2>3 DEF FilePathCandidates, PathIs
      <3> QED BY <1>1, <2>3, <3>1 DEF Listing, Settled
    <2>4. CASE exact = {} /\ row' = row /\ pc' = "suffix"
      <3> HIDE DEF exact
      <3> QED BY <1>1, <2>1, <2>2, <2>4 DEF Listing, exact
    <2> QED BY <1>1, <2>3, <2>4
  <1>5. Talk' /\ Cutting' /\ Comparing'
    BY <1>1, <1>2 DEF Inv, Talk, Cutting, Comparing
  <1> QED BY <1>3, <1>4, <1>5 DEF Inv

LEMMA ResolveSuffixInv ==
  ASSUME Inv, ResolveSuffix
  PROVE  Inv'
  <1> DEFINE hits == ShortestSuffixMatch(Rows, call.path)
  <1>1. /\ UNCHANGED <<disk, index, moves, call, found, slice, prev, left, diff, items>>
        /\ pc = "suffix" /\ pc' = "outline" /\ answer' = answer
        /\ IF hits = {} THEN row' = None ELSE row' \in hits
    BY DEF ResolveSuffix, Waits, Keeps
  <1>2. answer = "" /\ answer' = "" /\ call \in Calls /\ call.tool = "list_file"
    BY <1>1 DEF Inv, Talk
  <1>3. OnlyEmptyMatchesPanic' /\ BodyIsTheSymbol' /\ BucketsAreExact'
    BY <1>1, <1>2
    DEF Inv, OnlyEmptyMatchesPanic, TypeOK, BodyIsTheSymbol, BucketsAreExact
  <1>4. Listing'
    <2>1. ASSUME moves = 0 PROVE Settled(row')
      <3>1. /\ found # {} /\ found = FilePathCandidates(Rows, call.path)
            /\ PathIs(Rows, call.path) = {}
        BY <1>1, <2>1 DEF Inv, Listing
      <3> QED BY <3>1, <1>1, SettlesOnShortest
    <2> QED BY <1>1, <2>1 DEF Listing, Settled
  <1>5. Talk' /\ Cutting' /\ Comparing'
    BY <1>1, <1>2 DEF Inv, Talk, Cutting, Comparing
  <1> QED BY <1>3, <1>4, <1>5 DEF Inv

LEMMA OutlineInv ==
  ASSUME Inv, Outline
  PROVE  Inv'
  <1> DEFINE syms == IF row = None THEN {} ELSE FileOutline(Rows, row)
  <1>1. /\ UNCHANGED <<disk, index, moves, call, found, row, slice, prev, left, diff>>
        /\ pc = "outline" /\ pc' = "done"
        /\ \/ answer' \in {"outline", "no_symbols"}
           \/ answer' = "panic" /\ syms = {} /\ Cardinality(found) > 1
    BY DEF Outline, Answer, Keeps
  <1>2. CASE answer' \in {"outline", "no_symbols"}
    BY <1>1, <1>2, Elsewhere DEF Answers
  <1>3. CASE answer' = "panic" /\ syms = {} /\ Cardinality(found) > 1
    <2>1. Rows' = Rows
      BY <1>1 DEF Rows, Indexed
    <2>2. TypeOK'
      BY <1>1 DEF Inv, OnlyEmptyMatchesPanic, TypeOK
    <2>3. call'.tool = "list_file" /\ (moves = 0 => Settled(row))
      BY <1>1 DEF Inv, Talk, Listing
    <2>4. row' # None => FileOutline(Rows', row') = {}
      BY <1>1, <1>3, <2>1
    <2>5. OnlyEmptyMatchesPanic'
      BY <1>1, <1>3, <2>2, <2>3, <2>4 DEF OnlyEmptyMatchesPanic, Settled, FileOutline
    <2>6. BodyIsTheSymbol' /\ BucketsAreExact'
      BY <1>3 DEF BodyIsTheSymbol, BucketsAreExact
    <2>7. Talk' /\ Listing' /\ Cutting' /\ Comparing'
      BY <1>1, <1>3 DEF Inv, Talk, Listing, Cutting, Comparing
    <2> QED BY <2>5, <2>6, <2>7 DEF Inv
  <1> QED BY <1>1, <1>2, <1>3

-----------------------------------------------------------------------------
(* get_symbol                                                              *)

(* A row of the index is a symbol of the version that is indexed.          *)
LEMMA RowOfIndex ==
  ASSUME TypeOK, NEW s \in Rows.syms
  PROVE  /\ s.file \in Rows.files /\ s.file \in Files
         /\ index[s.file] \in Versions /\ s \in Parsed[s.file][index[s.file]].syms
  <1>1. PICK f \in Indexed : s \in Parsed[f][index[f]].syms
    BY DEF Rows
  <1>2. f \in Files /\ index[f] \in Versions
    BY DEF Indexed, TypeOK
  <1>3. s.file = f
    BY <1>1, <1>2, FrontendAssumption
  <1> QED BY <1>1, <1>2, <1>3 DEF Rows

LEMMA StartGetSymbolInv ==
  ASSUME Inv, StartGetSymbol
  PROVE  Inv'
  <1>1. /\ UNCHANGED <<disk, index, moves, call, found, slice, prev, left, diff, items>>
        /\ pc = "called"
        /\ \/ pc' = "done" /\ answer' \in {"no_symbol", "header"}
           \/ pc' = "slice" /\ answer' = answer /\ row' \in SymbolByQName(Rows, call.name)
    BY DEF StartGetSymbol, Answer, Waits, Keeps
  <1>2. CASE pc' = "done" /\ answer' \in {"no_symbol", "header"}
    BY <1>1, <1>2, Elsewhere DEF Answers
  <1>3. CASE /\ pc' = "slice" /\ answer' = answer
             /\ row' \in SymbolByQName(Rows, call.name)
    <2>1. answer' = "" /\ TypeOK
      BY <1>1, <1>3 DEF Inv, Talk, OnlyEmptyMatchesPanic
    <2>2. OnlyEmptyMatchesPanic' /\ BodyIsTheSymbol' /\ BucketsAreExact'
      BY <1>1, <1>3, <2>1
      DEF OnlyEmptyMatchesPanic, TypeOK, BodyIsTheSymbol, BucketsAreExact
    <2>3. row' \in Rows.syms
      BY <1>3 DEF SymbolByQName
    <2>4. Cutting'
      BY <1>1, <2>1, <2>3, RowOfIndex DEF Cutting
    <2>5. Talk' /\ Listing' /\ Comparing'
      BY <1>1, <1>3, <2>1 DEF Inv, Talk, Listing, Comparing
    <2> QED BY <2>2, <2>4, <2>5 DEF Inv
  <1> QED BY <1>1, <1>2, <1>3

LEMMA FindSourceInv ==
  ASSUME Inv, FindSource
  PROVE  Inv'
  <1>1. /\ UNCHANGED <<disk, index, moves, call, found, row, slice, prev, left, diff, items>>
        /\ pc = "slice"
        /\ \/ pc' = "done" /\ answer' = "error"
           \/ pc' = "read" /\ answer' = answer
    BY DEF FindSource, Answer, Waits, Keeps, results
  <1>2. CASE pc' = "done" /\ answer' = "error"
    BY <1>1, <1>2, Elsewhere DEF Answers
  <1>3. CASE pc' = "read" /\ answer' = answer
    <2>1. answer' = ""
      BY <1>1, <1>3 DEF Inv, Talk
    <2>2. OnlyEmptyMatchesPanic' /\ BodyIsTheSymbol' /\ BucketsAreExact'
      BY <1>1, <1>3, <2>1
      DEF Inv, OnlyEmptyMatchesPanic, TypeOK, BodyIsTheSymbol, BucketsAreExact
    <2>3. Cutting'
      BY <1>1, <1>3 DEF Inv, Cutting
    <2>4. Talk' /\ Listing' /\ Comparing'
      BY <1>1, <1>3, <2>1 DEF Inv, Talk, Listing, Comparing
    <2> QED BY <2>2, <2>3, <2>4 DEF Inv
  <1> QED BY <1>1, <1>2, <1>3

LEMMA ReadSourceInv ==
  ASSUME Inv, ReadSource
  PROVE  Inv'
  <1> DEFINE v == disk[row.file]
             c == Clamp(LinesIn[row.file][v], row, call.max)
  <1>1. /\ UNCHANGED <<disk, index, moves, call, found, row, prev, left, diff, items>>
        /\ pc = "read" /\ pc' = "done"
        /\ \/ answer' = "error"
           \/ answer' = "body" /\ v \notin {Absent, Denied} /\ slice' = Append(c, v)
    BY DEF ReadSource, Answer, Keeps
  <1>2. CASE answer' = "error"
    BY <1>1, <1>2, Elsewhere DEF Answers
  <1>3. CASE answer' = "body" /\ v \notin {Absent, Denied} /\ slice' = Append(c, v)
    <2>1. /\ TypeOK /\ row.file \in Files /\ v \in Versions
          /\ \E w \in Versions : row \in Parsed[row.file][w].syms
          /\ moves = 0 => /\ index[row.file] \in Versions
                          /\ row \in Parsed[row.file][index[row.file]].syms
      BY <1>1, <1>3 DEF Inv, OnlyEmptyMatchesPanic, Cutting, TypeOK
    <2>2. LinesIn[row.file][v] \in Nat \ {0} /\ call.max \in Int
      BY <2>1, HandlersAssumption DEF Inv, Talk
    <2>3. row.start \in Int /\ row.end \in Int
      BY <2>1, FrontendAssumption
    <2>4. moves = 0 /\ v = index[row.file] =>
            1 <= row.start /\ row.start <= row.end /\ row.end <= LinesIn[row.file][v]
      BY <2>1, <2>2, FrontendAssumption
    <2>5. /\ c = <<c[1], c[2]>>
          /\ 1 <= c[1] /\ c[1] <= c[2] /\ c[2] <= LinesIn[row.file][v]
          /\ call.max > 0 => c[2] - c[1] < call.max
          /\ moves = 0 /\ v = index[row.file] =>
               c[1] = row.start /\ (c[2] = row.end \/ c[2] = row.start + call.max - 1)
      BY <2>2, <2>3, <2>4, ClampIsWithin
    <2> HIDE DEF c
    <2>6. slice'[1] = c[1] /\ slice'[2] = c[2] /\ slice'[3] = v
      <3>1. <<c[1], c[2]>> \in Seq({c[1], c[2], v}) /\ Len(<<c[1], c[2]>>) = 2
        OBVIOUS
      <3>2. c \in Seq({c[1], c[2], v}) /\ Len(c) = 2
        BY <3>1, <2>5
      <3>3. Append(c, v)[1] = c[1] /\ Append(c, v)[2] = c[2] /\ Append(c, v)[3] = v
        BY <3>2, ThirdAppended
      <3> QED BY <1>3, <3>3
    <2>7. BodyIsTheSymbol'
      BY <1>1, <2>5, <2>6 DEF BodyIsTheSymbol, Quiet
    <2>8. OnlyEmptyMatchesPanic' /\ BucketsAreExact'
      BY <1>1, <1>3, <2>1 DEF OnlyEmptyMatchesPanic, TypeOK, BucketsAreExact
    <2>9. Cutting'
      BY <1>1, <2>1 DEF Cutting
    <2>10. Talk' /\ Listing' /\ Comparing'
      BY <1>1, <1>3 DEF Inv, Talk, Listing, Comparing
    <2> QED BY <2>7, <2>8, <2>9, <2>10 DEF Inv
  <1> QED BY <1>1, <1>2, <1>3

-----------------------------------------------------------------------------
(* show_changes                                                            *)

(* On the way to an answer the properties say nothing yet.                 *)
LEMMA Silent ==
  ASSUME Inv, UNCHANGED <<disk, index, moves, call>>, answer' = "",
         left' \subseteq Files, pc' \in {"walk", "visit"}, Comparing'
  PROVE  Inv'
  <1>1. OnlyEmptyMatchesPanic' /\ BodyIsTheSymbol' /\ BucketsAreExact'
    BY DEF Inv, OnlyEmptyMatchesPanic, TypeOK, BodyIsTheSymbol, BucketsAreExact
  <1>2. Talk' /\ Listing' /\ Cutting'
    BY DEF Inv, Talk, Listing, Cutting
  <1> QED BY <1>1, <1>2 DEF Inv

LEMMA StartShowChangesInv ==
  ASSUME Inv, StartShowChanges
  PROVE  Inv'
  <1>1. /\ UNCHANGED <<disk, index, moves, call, left, diff>>
        /\ pc = "called" /\ pc' = "walk" /\ answer' = answer /\ prev' = index
    BY DEF StartShowChanges, Waits, Keeps
  <1>2. answer' = "" /\ TypeOK /\ diff = NoDiff
    BY <1>1 DEF Inv, Talk, Comparing, OnlyEmptyMatchesPanic
  <1>3. Comparing'
    BY <1>1, <1>2 DEF Comparing, TypeOK
  <1>4. left' \subseteq Files
    BY <1>1, <1>2 DEF TypeOK
  <1> QED BY <1>1, <1>2, <1>3, <1>4, Silent

LEMMA ReadDirectoryInv ==
  ASSUME Inv, ReadDirectory
  PROVE  Inv'
  <1>1. /\ UNCHANGED <<disk, index, moves, call, prev, diff>>
        /\ pc = "walk" /\ pc' = "visit" /\ answer' = answer
        /\ left' = {f \in Files : disk[f] # Absent}
    BY DEF ReadDirectory, Waits, Keeps
  <1>2. /\ answer' = "" /\ diff' = NoDiff
        /\ prev \in [Files -> Versions \union {Absent}] /\ (moves = 0 => prev = index)
    BY <1>1 DEF Inv, Talk, Comparing
  <1>3. /\ diff'.added = <<>> /\ diff'.modified = <<>> /\ diff'.inaccessible = <<>>
        /\ diff'.seen = {} /\ diff' \in Lists
    <2>1. <<>> \in Seq(Files)
      OBVIOUS
    <2> QED BY <1>2, <2>1 DEF NoDiff, Lists
  <1>4. Range(<<>>) = {}
    BY DEF Range
  <1>5. Sorting'
    BY <1>3, <1>4 DEF Sorting
  <1>6. Exact'
    <2>1. Denied # Absent
      BY HandlersAssumption
    <2>2. \A f \in Files : /\ f \in left' <=> disk'[f] # Absent
                          /\ f \notin diff'.seen \union Range(diff'.inaccessible)
      BY <1>1, <1>3, <1>4
    <2> QED BY <2>1, <2>2 DEF Exact
  <1>7. Comparing'
    BY <1>1, <1>2, <1>3, <1>5, <1>6 DEF Comparing
  <1> QED BY <1>1, <1>2, <1>7, Silent

(* What one visit makes of the buckets.                                    *)
LEMMA VisitBuckets ==
  ASSUME NEW f \in Files, Visit(f), diff \in Lists
  PROVE  /\ diff' \in Lists
         /\ LET lost == disk[f] \in {Absent, Denied}
                had == prev[f] # Absent
            IN  /\ Range(diff'.inaccessible) =
                     Range(diff.inaccessible) \union {x \in {f} : lost}
                /\ Range(diff'.modified) =
                     Range(diff.modified)
                       \union {x \in {f} : had /\ (lost \/ prev[f] # disk[f])}
                /\ Range(diff'.added) = Range(diff.added) \union {x \in {f} : ~lost /\ ~had}
                /\ diff'.seen = diff.seen \union {x \in {f} : ~lost}
  <1> DEFINE A == Append(diff.added, f)
             M == Append(diff.modified, f)
             I == Append(diff.inaccessible, f)
  <1>1. /\ diff.added \in Seq(Files) /\ diff.modified \in Seq(Files)
        /\ diff.inaccessible \in Seq(Files) /\ diff.removed \in Seq(Files)
        /\ diff.seen \subseteq Files
    BY DEF Lists
  <1>2. /\ A \in Seq(Files) /\ Range(A) = Range(diff.added) \union {f}
        /\ M \in Seq(Files) /\ Range(M) = Range(diff.modified) \union {f}
        /\ I \in Seq(Files) /\ Range(I) = Range(diff.inaccessible) \union {f}
    BY <1>1, AppendRange
  <1> HIDE DEF A, M, I
  <1>3. CASE disk[f] \in {Absent, Denied}
    <2>1. diff' = [diff EXCEPT !.inaccessible = I,
                               !.modified = IF prev[f] # Absent THEN M ELSE diff.modified]
      BY <1>3 DEF Visit, I, M
    <2>2. /\ diff' \in Lists
          /\ diff'.inaccessible = I /\ diff'.added = diff.added /\ diff'.seen = diff.seen
          /\ diff'.modified = IF prev[f] # Absent THEN M ELSE diff.modified
      BY <2>1, <1>1, <1>2 DEF Lists
    <2> QED BY <2>2, <1>2, <1>3
  <1>4. CASE disk[f] \notin {Absent, Denied} /\ prev[f] = Absent
    <2>1. diff' = [diff EXCEPT !.seen = diff.seen \union {f}, !.added = A]
      BY <1>4 DEF Visit, A
    <2>2. /\ diff' \in Lists
          /\ diff'.inaccessible = diff.inaccessible /\ diff'.added = A
          /\ diff'.seen = diff.seen \union {f} /\ diff'.modified = diff.modified
      BY <2>1, <1>1, <1>2 DEF Lists
    <2> QED BY <2>2, <1>2, <1>4
  <1>5. CASE disk[f] \notin {Absent, Denied} /\ prev[f] # Absent
    <2>1. diff' = [diff EXCEPT !.seen = diff.seen \union {f},
                               !.modified = IF prev[f] # disk[f] THEN M ELSE diff.modified]
      BY <1>5 DEF Visit, M
    <2>2. /\ diff' \in Lists
          /\ diff'.inaccessible = diff.inaccessible /\ diff'.added = diff.added
          /\ diff'.seen = diff.seen \union {f}
          /\ diff'.modified = IF prev[f] # disk[f] THEN M ELSE diff.modified
      BY <2>1, <1>1, <1>2 DEF Lists
    <2> QED BY <2>2, <1>2, <1>5
  <1> QED BY <1>3, <1>4, <1>5

LEMMA VisitInv ==
  ASSUME Inv, NEW f \in Files, Visit(f)
  PROVE  Inv'
  <1>1. /\ UNCHANGED <<disk, index, moves, call, prev, pc, answer>>
        /\ pc = "visit" /\ left' = left \ {f} /\ f \in left
    BY DEF Visit, Keeps
  <1>2. /\ answer' = "" /\ TypeOK /\ diff \in Lists /\ Sorting /\ (moves = 0 => Exact)
        /\ prev \in [Files -> Versions \union {Absent}] /\ (moves = 0 => prev = index)
    BY <1>1 DEF Inv, Talk, Comparing, OnlyEmptyMatchesPanic
  <1> DEFINE lost == disk[f] \in {Absent, Denied}
             had == prev[f] # Absent
  <1>3. /\ diff' \in Lists
        /\ Range(diff'.inaccessible) = Range(diff.inaccessible) \union {x \in {f} : lost}
        /\ Range(diff'.modified) =
             Range(diff.modified) \union {x \in {f} : had /\ (lost \/ prev[f] # disk[f])}
        /\ Range(diff'.added) = Range(diff.added) \union {x \in {f} : ~lost /\ ~had}
        /\ diff'.seen = diff.seen \union {x \in {f} : ~lost}
    BY <1>2, VisitBuckets
  <1>4. Sorting'
    <2> SUFFICES ASSUME NEW g \in Files
                 PROVE
      /\ g \in left' => /\ g \notin Range(diff'.added) \union Range(diff'.modified)
                        /\ g \notin Range(diff'.inaccessible) \union diff'.seen
      /\ g \in Range(diff'.added) => g \in diff'.seen /\ prev'[g] = Absent
      /\ g \in Range(diff'.modified) =>
           prev'[g] # Absent /\ g \in diff'.seen \union Range(diff'.inaccessible)
      /\ g \in Range(diff'.inaccessible) => g \notin diff'.seen
      BY DEF Sorting
    <2>1. CASE g = f
      BY <2>1, <1>1, <1>2, <1>3 DEF Sorting
    <2>2. CASE g # f
      BY <2>2, <1>1, <1>2, <1>3 DEF Sorting
    <2> QED BY <2>1, <2>2
  <1>5. ASSUME moves = 0 PROVE Exact'
    <2> SUFFICES ASSUME NEW g \in Files
                 PROVE
      /\ disk'[g] = Absent =>
           g \notin left' \union diff'.seen \union Range(diff'.inaccessible)
      /\ disk'[g] = Denied =>
           g \notin diff'.seen /\ g \in left' \union Range(diff'.inaccessible)
      /\ disk'[g] \notin {Absent, Denied} =>
           /\ g \notin Range(diff'.inaccessible)
           /\ g \in left' \union diff'.seen
           /\ g \notin left' =>
                /\ g \in Range(diff'.added) <=> prev'[g] = Absent
                /\ g \in Range(diff'.modified) <=> prev'[g] \notin {Absent, disk'[g]}
      BY DEF Exact
    <2>1. CASE g = f
      <3>1. /\ g \notin Range(diff.added) \union Range(diff.modified)
            /\ g \notin Range(diff.inaccessible) \union diff.seen
            /\ disk'[g] = disk[g] /\ prev'[g] = prev[g]
        BY <2>1, <1>1, <1>2 DEF Sorting
      <3>4. disk[g] # Absent
        BY <2>1, <1>1, <1>2, <1>5 DEF Exact
      <3>2. CASE disk[g] = Denied
        BY <3>1, <3>2, <3>4, <2>1, <1>3
      <3>3. CASE disk[g] # Denied
        BY <3>1, <3>3, <3>4, <2>1, <1>3
      <3> QED BY <3>2, <3>3
    <2>2. CASE g # f
      BY <2>2, <1>1, <1>2, <1>3, <1>5 DEF Exact
    <2> QED BY <2>1, <2>2
  <1>6. Comparing'
    BY <1>1, <1>2, <1>3, <1>4, <1>5 DEF Comparing
  <1>7. left' \subseteq Files
    BY <1>1, <1>2 DEF TypeOK
  <1> QED BY <1>1, <1>2, <1>6, <1>7, Silent

LEMMA FourLengths ==
  ASSUME NEW S, NEW s1 \in Seq(S), NEW s2 \in Seq(S), NEW s3 \in Seq(S), NEW s4 \in Seq(S)
  PROVE  /\ Len(s1 \o s2 \o s3 \o s4) = Len(s1) + Len(s2) + Len(s3) + Len(s4)
         /\ Len(s1 \o s2 \o s3 \o s4) \in Nat
  <1>1. s1 \o s2 \in Seq(S) /\ Len(s1 \o s2) = Len(s1) + Len(s2)
    BY ConcatProperties
  <1> DEFINE s == s1 \o s2
  <1>2. s \o s3 \in Seq(S) /\ Len(s \o s3) = Len(s) + Len(s3)
    BY <1>1, ConcatProperties
  <1> DEFINE t == s \o s3
  <1>3. t \o s4 \in Seq(S) /\ Len(t \o s4) = Len(t) + Len(s4)
    BY <1>2, ConcatProperties
  <1> HIDE DEF s, t
  <1>4. Len(t \o s4) = Len(s1) + Len(s2) + Len(s3) + Len(s4) /\ Len(t \o s4) \in Nat
    BY <1>1, <1>2, <1>3 DEF s, t
  <1> QED BY <1>4 DEF s, t

LEMMA Rest ==
  \A k, l, t \in Nat : t = (IF l <= k THEN l ELSE k) => k - t = 0 \/ k - t = k - l
  OBVIOUS

LEMMA Filled ==
  \A k, l, t \in Nat : t = (IF l <= k THEN l ELSE k) /\ k <= l => t = k
  OBVIOUS

(* What is shown is as long as the cap allows.                             *)
FourTaken(n, s1, s2, s3, s4) ==
  LET a == Take(n, s1)
      m == Take(n - Len(a), s2)
      r == Take(n - Len(a) - Len(m), s3)
      i == Take(n - Len(a) - Len(m) - Len(r), s4)
  IN  a \o m \o r \o i

LEMMA TakesAddUp ==
  ASSUME NEW S, NEW s1 \in Seq(S), NEW s2 \in Seq(S), NEW s3 \in Seq(S), NEW s4 \in Seq(S),
         NEW n \in Nat, n <= Len(s1) + Len(s2) + Len(s3) + Len(s4)
  PROVE  Len(FourTaken(n, s1, s2, s3, s4)) = n
  <1> DEFINE a == Take(n, s1)
             m == Take(n - Len(a), s2)
             r == Take(n - Len(a) - Len(m), s3)
             i == Take(n - Len(a) - Len(m) - Len(r), s4)
  <1>0. FourTaken(n, s1, s2, s3, s4) = a \o m \o r \o i
    BY DEF FourTaken
  <1>1. Len(s1) \in Nat /\ Len(s2) \in Nat /\ Len(s3) \in Nat /\ Len(s4) \in Nat
    OBVIOUS
  <1>2. a \in Seq(S) /\ Len(a) = IF Len(s1) <= n THEN Len(s1) ELSE n
    BY TakeFits
  <1> HIDE DEF a
  <1>3. n - Len(a) \in Nat /\ Len(a) \in Nat
    BY <1>1, <1>2
  <1>4. /\ m \in Seq(S)
        /\ Len(m) = IF Len(s2) <= n - Len(a) THEN Len(s2) ELSE n - Len(a)
    BY <1>3, TakeFits
  <1> HIDE DEF m
  <1>5. n - Len(a) - Len(m) \in Nat /\ Len(m) \in Nat
    BY <1>1, <1>3, <1>4
  <1>6. /\ r \in Seq(S)
        /\ Len(r) = IF Len(s3) <= n - Len(a) - Len(m) THEN Len(s3) ELSE n - Len(a) - Len(m)
    BY <1>5, TakeFits
  <1> HIDE DEF r
  <1>7. n - Len(a) - Len(m) - Len(r) \in Nat /\ Len(r) \in Nat
    BY <1>1, <1>5, <1>6
  <1>8. /\ i \in Seq(S)
        /\ Len(i) = IF Len(s4) <= n - Len(a) - Len(m) - Len(r) THEN Len(s4)
                    ELSE n - Len(a) - Len(m) - Len(r)
    BY <1>7, TakeFits
  <1> HIDE DEF i
  <1>9. Len(i) \in Nat
    BY <1>8
  <1>10. Len(a \o m \o r \o i) = Len(a) + Len(m) + Len(r) + Len(i)
    <2>1. a \in Seq(S) /\ m \in Seq(S) /\ r \in Seq(S) /\ i \in Seq(S)
      BY <1>2, <1>4, <1>6, <1>8
    <2> QED BY <2>1, FourLengths
  <1>11. n - Len(a) = 0 \/ n - Len(a) = n - Len(s1)
    BY <1>1, <1>2, <1>3, Rest, Zenon
  <1>12. n - Len(a) - Len(m) = 0 \/ n - Len(a) - Len(m) = n - Len(a) - Len(s2)
    <2>1. n - Len(a) \in Nat /\ Len(s2) \in Nat /\ Len(m) \in Nat
      BY <1>1, <1>3, <1>5
    <2>2. Len(m) = IF Len(s2) <= n - Len(a) THEN Len(s2) ELSE n - Len(a)
      BY <1>4
    <2> QED BY <2>1, <2>2, Rest, Zenon
  <1>13. \/ n - Len(a) - Len(m) - Len(r) = 0
         \/ n - Len(a) - Len(m) - Len(r) = n - Len(a) - Len(m) - Len(s3)
    <2> DEFINE k == n - Len(a) - Len(m)
    <2>1. k \in Nat /\ Len(s3) \in Nat /\ Len(r) \in Nat
      BY <1>1, <1>5, <1>7
    <2>2. Len(r) = IF Len(s3) <= k THEN Len(s3) ELSE k
      BY <1>6
    <2> HIDE DEF k
    <2>3. k - Len(r) = 0 \/ k - Len(r) = k - Len(s3)
      BY <2>1, <2>2, Rest, Zenon
    <2> QED BY <2>3 DEF k
  <1>14. n - Len(a) - Len(m) - Len(r) <= Len(s4)
    BY <1>1, <1>3, <1>5, <1>7, <1>11, <1>12, <1>13
  <1>15. Len(i) = n - Len(a) - Len(m) - Len(r)
    <2>1. n - Len(a) - Len(m) - Len(r) \in Nat
      BY <1>7
    <2> QED BY <2>1, <1>1, <1>8, <1>9, <1>14, Filled, Zenon
  <1>16. Len(a) + Len(m) + Len(r) + Len(i) = n
    BY <1>3, <1>5, <1>7, <1>9, <1>15
  <1> QED BY <1>0, <1>10, <1>16

LEMMA ShownFits ==
  ASSUME NEW total \in Nat, call.head \in Int
  PROVE  Shown(total) \in Nat /\ Shown(total) <= total
  BY DEF Shown

(* Nobody but a file that could not be read is in two buckets, and while   *)
(* nothing moves the buckets are the difference.                           *)
LEMMA BucketsOfDiff ==
  ASSUME TypeOK, diff \in Lists, Sorting,
         prev \in [Files -> Versions \union {Absent}],
         left = {}, NEW f \in Files,
         Range(diff'.added) = Range(diff.added),
         Range(diff'.modified) = Range(diff.modified),
         Range(diff'.inaccessible) = Range(diff.inaccessible),
         Range(diff'.removed) = {g \in Files : prev[g] # Absent} \ diff.seen
  PROVE  /\ IF f \in Range(diff'.inaccessible)
            THEN BucketsOf(f)' \ {"modified", "removed"} = {"inaccessible"}
            ELSE Cardinality(BucketsOf(f)') <= 1
         /\ Exact => /\ BucketsOf(f)' = {} <=> disk[f] = prev[f]
                     /\ disk[f] \in {Absent, Denied} /\ prev[f] # Absent
                          => "removed" \in BucketsOf(f)'
  <1> DEFINE B == BucketsOf(f)'
  <1>1. /\ "added" \in B <=> f \in Range(diff.added)
        /\ "modified" \in B <=> f \in Range(diff.modified)
        /\ "inaccessible" \in B <=> f \in Range(diff.inaccessible)
        /\ "removed" \in B <=> prev[f] # Absent /\ f \notin diff.seen
        /\ B \subseteq {"added", "modified", "removed", "inaccessible"}
    BY DEF BucketsOf
  <1> HIDE DEF B
  <1>2. /\ f \in Range(diff.added) => f \in diff.seen /\ prev[f] = Absent
        /\ f \in Range(diff.modified) =>
             prev[f] # Absent /\ f \in diff.seen \union Range(diff.inaccessible)
        /\ f \in Range(diff.inaccessible) => f \notin diff.seen
    BY DEF Sorting
  <1>3. ASSUME f \in Range(diff.inaccessible)
        PROVE  B \ {"modified", "removed"} = {"inaccessible"}
    <2>1. "added" \notin B /\ "inaccessible" \in B
      BY <1>1, <1>2, <1>3
    <2> QED BY <2>1, <1>1
  <1>4. ASSUME f \notin Range(diff.inaccessible)
        PROVE  Cardinality(B) <= 1
    <2>1. "inaccessible" \notin B
      BY <1>1, <1>4
    <2>2. \E b \in {"added", "modified", "removed"} : B \subseteq {b}
      BY <2>1, <1>1, <1>2, <1>4
    <2>3. PICK b \in {"added", "modified", "removed"} : B \subseteq {b}
      BY <2>2
    <2>4. IsFiniteSet({b}) /\ Cardinality({b}) = 1
      BY FS_Singleton
    <2> HIDE <1>1, <2>2
    <2> QED BY <2>3, <2>4, FS_Subset
  <1>5. ASSUME Exact
        PROVE  /\ B = {} <=> disk[f] = prev[f]
               /\ disk[f] \in {Absent, Denied} /\ prev[f] # Absent => "removed" \in B
    <2>1. Denied # Absent /\ prev[f] # Denied
      BY HandlersAssumption
    <2>2. B = {} <=> /\ "added" \notin B /\ "modified" \notin B
                     /\ "removed" \notin B /\ "inaccessible" \notin B
      BY <1>1
    <2>3. /\ disk[f] = Absent => f \notin diff.seen \union Range(diff.inaccessible)
          /\ disk[f] = Denied => f \notin diff.seen /\ f \in Range(diff.inaccessible)
          /\ disk[f] \notin {Absent, Denied} =>
               /\ f \notin Range(diff.inaccessible) /\ f \in diff.seen
               /\ f \in Range(diff.added) <=> prev[f] = Absent
               /\ f \in Range(diff.modified) <=> prev[f] \notin {Absent, disk[f]}
      BY <1>5 DEF Exact
    <2>4. CASE disk[f] = Absent
      BY <2>1, <2>2, <2>3, <2>4, <1>1, <1>2
    <2>5. CASE disk[f] = Denied
      BY <2>1, <2>2, <2>3, <2>5, <1>1, <1>2
    <2>6. CASE disk[f] \notin {Absent, Denied}
      BY <2>1, <2>2, <2>3, <2>6, <1>1, <1>2
    <2> QED BY <2>4, <2>5, <2>6
  <1> QED
    <2>1. CASE f \in Range(diff.inaccessible)
      BY <1>3, <1>5, <2>1 DEF B
    <2>2. CASE f \notin Range(diff.inaccessible)
      BY <1>4, <1>5, <2>2 DEF B
    <2> QED BY <2>1, <2>2

LEMMA FinishDiffInv ==
  ASSUME Inv, FinishDiff
  PROVE  Inv'
  <1> DEFINE lacking == {f \in Files : prev[f] # Absent} \ diff.seen
             gone == InOrder(lacking)
             all == diff.added \o diff.modified \o gone \o diff.inaccessible
             n == Shown(Len(all))
  <1>1. /\ UNCHANGED <<disk, index, moves, call, found, row, slice, prev, left>>
        /\ pc = "visit" /\ pc' = "done" /\ answer' = "changes" /\ left = {}
        /\ diff' = [diff EXCEPT !.removed = gone]
        /\ items' = LET a == Take(n, diff.added)
                        m == Take(n - Len(a), diff.modified)
                        r == Take(n - Len(a) - Len(m), gone)
                        i == Take(n - Len(a) - Len(m) - Len(r), diff.inaccessible)
                    IN  a \o m \o r \o i
    BY DEF FinishDiff, Answer, Keeps
  <1>2. /\ TypeOK /\ diff \in Lists /\ Sorting /\ (moves = 0 => Exact /\ prev = index)
        /\ prev \in [Files -> Versions \union {Absent}] /\ call \in Calls
    BY <1>1 DEF Inv, Talk, Comparing, OnlyEmptyMatchesPanic
  <1>3. /\ diff.added \in Seq(Files) /\ diff.modified \in Seq(Files)
        /\ diff.inaccessible \in Seq(Files)
    BY <1>2 DEF Lists
  <1>4. gone \in Seq(Files) /\ Range(gone) = lacking
    <2>1. lacking \subseteq Files /\ IsFiniteSet(lacking) /\ lacking \subseteq Nat
      BY HandlersAssumption, FS_Subset
    <2> HIDE DEF lacking
    <2>2. gone \in Seq(lacking) /\ Range(gone) = lacking
      BY <2>1, InOrderLists
    <2>3. gone \in Seq(Files)
      BY <2>1, <2>2, SeqMonotonic
    <2> QED BY <2>2, <2>3
  <1> HIDE DEF gone
  <1>5. /\ diff'.added = diff.added /\ diff'.modified = diff.modified
        /\ diff'.inaccessible = diff.inaccessible /\ diff'.removed = gone
    BY <1>1, <1>2 DEF Lists
  <1>6. Len(items') = Shown(Len(diff'.added) + Len(diff'.modified) + Len(diff'.removed)
                              + Len(diff'.inaccessible))
    <2>1. Len(all) = Len(diff.added) + Len(diff.modified) + Len(gone)
                       + Len(diff.inaccessible)
          /\ Len(all) \in Nat
      BY <1>3, <1>4, FourLengths
    <2>2. call.head \in Int
      BY <1>2, HandlersAssumption
    <2>3. n \in Nat /\ n <= Len(all)
      BY <2>1, <2>2, ShownFits
    <2> HIDE DEF n, all
    <2>4. items' = FourTaken(n, diff.added, diff.modified, gone, diff.inaccessible)
      BY <1>1 DEF FourTaken
    <2>5. n <= Len(diff.added) + Len(diff.modified) + Len(gone) + Len(diff.inaccessible)
      BY <2>1, <2>3
    <2>6. Len(items') = n
      <3>1. n \in Nat /\ gone \in Seq(Files)
        BY <1>4, <2>3
      <3>2. Len(FourTaken(n, diff.added, diff.modified, gone, diff.inaccessible)) = n
        <4>1. \A s1, s2, s3, s4 \in Seq(Files) : \A k \in Nat :
                k <= Len(s1) + Len(s2) + Len(s3) + Len(s4)
                  => Len(FourTaken(k, s1, s2, s3, s4)) = k
          BY TakesAddUp
        <4> QED BY <4>1, <1>3, <2>5, <3>1
      <3> QED BY <2>4, <3>2
    <2> QED BY <1>5, <2>1, <2>6 DEF n
  <1>7. \A f \in Files :
          /\ IF f \in Range(diff'.inaccessible)
             THEN BucketsOf(f)' \ {"modified", "removed"} = {"inaccessible"}
             ELSE Cardinality(BucketsOf(f)') <= 1
          /\ Exact => /\ BucketsOf(f)' = {} <=> disk[f] = prev[f]
                      /\ disk[f] \in {Absent, Denied} /\ prev[f] # Absent
                           => "removed" \in BucketsOf(f)'
    <2>1. Range(diff'.removed) = {g \in Files : prev[g] # Absent} \ diff.seen
      BY <1>4, <1>5
    <2> QED BY <1>1, <1>2, <1>5, <2>1, BucketsOfDiff
  <1>8. Shown(Len(diff'.added) + Len(diff'.modified) + Len(diff'.removed)
                + Len(diff'.inaccessible))
          = Shown(Len(diff.added) + Len(diff.modified) + Len(diff.removed)
                    + Len(diff.inaccessible))'
    <2>1. call' = call
      BY <1>1
    <2> QED BY <2>1 DEF Shown
  <1>9. BucketsAreExact'
    <2>1. \A f \in Files :
            IF f \in Range(diff'.inaccessible)
            THEN BucketsOf(f)' \ {"modified", "removed"} = {"inaccessible"}
            ELSE Cardinality(BucketsOf(f)') <= 1
      BY <1>7
    <2>2. Quiet' => \A f \in Files :
            /\ BucketsOf(f)' = {} <=> disk'[f] = index'[f]
            /\ disk'[f] \in {Absent, Denied} /\ index'[f] # Absent
                 => "removed" \in BucketsOf(f)'
      BY <1>1, <1>2, <1>7 DEF Quiet
    <2> QED BY <1>6, <1>8, <2>1, <2>2 DEF BucketsAreExact
  <1>10. OnlyEmptyMatchesPanic' /\ BodyIsTheSymbol'
    BY <1>1, <1>2 DEF OnlyEmptyMatchesPanic, TypeOK, BodyIsTheSymbol
  <1>11. Talk' /\ Listing' /\ Cutting' /\ Comparing'
    BY <1>1, <1>2 DEF Talk, Listing, Cutting, Comparing
  <1> QED BY <1>9, <1>10, <1>11 DEF Inv

-----------------------------------------------------------------------------
(* The steps of the other tools answer, or go on, with what no property    *)
(* speaks of.                                                              *)
Others == \/ AnswerOneQuery
          \/ StartListPackage \/ ResolvePackageID \/ ListPackage
          \/ StartTypeHierarchy \/ ListMembers \/ ListImplementers
          \/ StartListFiles \/ ListFiles

LEMMA OthersInv ==
  ASSUME Inv, Others
  PROVE  Inv'
  <1>1. pc # "done" => answer = ""
    BY DEF Inv, Talk
  <1>2. CASE AnswerOneQuery
    BY <1>1, <1>2, Elsewhere DEF AnswerOneQuery, Answer, Keeps, Answers
  <1>3. CASE StartListPackage
    BY <1>1, <1>3, Elsewhere DEF StartListPackage, Waits, Keeps, Answers
  <1>4. CASE ResolvePackageID
    BY <1>1, <1>4, Elsewhere DEF ResolvePackageID, Answer, Waits, Keeps, Answers
  <1>5. CASE ListPackage
    BY <1>1, <1>5, Elsewhere DEF ListPackage, Answer, Keeps, Answers
  <1>6. CASE StartTypeHierarchy
    BY <1>1, <1>6, Elsewhere DEF StartTypeHierarchy, Answer, Waits, Keeps, Answers, results
  <1>7. CASE ListMembers
    BY <1>1, <1>7, Elsewhere DEF ListMembers, Waits, Keeps, Answers
  <1>8. CASE ListImplementers
    BY <1>1, <1>8, Elsewhere DEF ListImplementers, Answer, Keeps, Answers
  <1>9. CASE StartListFiles
    BY <1>1, <1>9, Elsewhere DEF StartListFiles, Answer, Waits, Keeps, Answers
  <1>10. CASE ListFiles
    BY <1>1, <1>10, Elsewhere DEF ListFiles, Answer, Keeps, Answers
  <1> QED BY <1>2, <1>3, <1>4, <1>5, <1>6, <1>7, <1>8, <1>9, <1>10 DEF Others

LEMMA Calm ==
  ASSUME Inv, UNCHANGED vars
  PROVE  Inv'
  <1>1. UNCHANGED <<disk, index, moves, call, pc, answer, found, row, slice, prev, left,
                    diff, items>>
    BY DEF vars, results
  <1>2. OnlyEmptyMatchesPanic'
    BY <1>1 DEF Inv, OnlyEmptyMatchesPanic, TypeOK, Rows, Indexed, FileOutline
  <1>3. BodyIsTheSymbol'
    BY <1>1 DEF Inv, BodyIsTheSymbol, Quiet
  <1>4. BucketsAreExact'
    BY <1>1 DEF Inv, BucketsAreExact, BucketsOf, Quiet, Shown
  <1>5. Talk' /\ Cutting'
    BY <1>1 DEF Inv, Talk, Cutting
  <1>6. Listing'
    BY <1>1 DEF Inv, Listing, Settled, FilePathCandidates, PathIs, SuffixMatches, Rows, Indexed
  <1>7. Comparing'
    BY <1>1 DEF Inv, Comparing, Sorting, Exact
  <1> QED BY <1>2, <1>3, <1>4, <1>5, <1>6, <1>7 DEF Inv

LEMMA StepInv ==
  ASSUME Inv, [Next]_vars
  PROVE  Inv'
  <1>1. CASE UNCHANGED vars
    BY <1>1, Calm
  <1>2. CASE \E f \in Files : Edit(f) \/ Reindex(f)
    BY <1>2, MoveInv
  <1>3. CASE StartListFile
    BY <1>3, StartListFileInv
  <1>4. CASE ResolveOutline
    BY <1>4, ResolveOutlineInv
  <1>5. CASE Outline
    BY <1>5, OutlineInv
  <1>6. CASE StartGetSymbol
    BY <1>6, StartGetSymbolInv
  <1>7. CASE FindSource
    BY <1>7, FindSourceInv
  <1>8. CASE ReadSource
    BY <1>8, ReadSourceInv
  <1>9. CASE StartShowChanges
    BY <1>9, StartShowChangesInv
  <1>10. CASE ReadDirectory
    BY <1>10, ReadDirectoryInv
  <1>11. CASE \E f \in Files : Visit(f)
    BY <1>11, VisitInv
  <1>12. CASE FinishDiff
    BY <1>12, FinishDiffInv
  <1>13. CASE Others
    BY <1>13, OthersInv
  <1>14. CASE ResolveSuffix
    BY <1>14, ResolveSuffixInv
  <1> QED
    BY <1>1, <1>2, <1>3, <1>4, <1>5, <1>6, <1>7, <1>8, <1>9, <1>10, <1>11, <1>12, <1>13, <1>14
    DEF Next, Step, Others

LEMMA Invariance == Spec => []Inv
  <1>1. Init => Inv
    BY InitInv
  <1>2. Inv /\ [Next]_vars => Inv'
    BY StepInv
  <1> QED BY <1>1, <1>2, PTL DEF Spec

-----------------------------------------------------------------------------
(* FoldLeft, of a sequence, one element after the other.                   *)

(* FoldLeft is a recursive function of the sets of places: it takes the    *)
(* highest place of a set last.                                            *)
FoldOf(it, base, step, D) ==
  \A S \in SUBSET D : it[S] = IF S = {} THEN base ELSE step[Max(S)][it[S \ {Max(S)}]]

LEMMA MaxIsIn ==
  ASSUME NEW n \in Nat, NEW S \in SUBSET (1..n), S # {}
  PROVE  Max(S) \in S /\ \A x \in S : Max(S) >= x
  <1> DEFINE T == {n - x : x \in S}
  <1>1. \A x \in S : x \in 1..n /\ x \in Nat /\ n - x \in Nat
    OBVIOUS
  <1>2. T \in SUBSET Nat /\ T # {}
    BY <1>1
  <1>3. PICK k \in T : \A j \in T : k <= j
    BY <1>2, LeastNumber
  <1>4. PICK x \in S : k = n - x
    BY <1>3
  <1>5. \A y \in S : x >= y
    BY <1>1, <1>3, <1>4
  <1> QED BY <1>5 DEF Max

LEMMA MaxOfInterval ==
  ASSUME NEW k \in Nat \ {0}
  PROVE  Max(1..k) = k /\ (1..k) \ {k} = 1..(k - 1)
  <1>1. 1..k # {} /\ k \in 1..k
    OBVIOUS
  <1>2. Max(1..k) \in 1..k /\ Max(1..k) >= k
    BY <1>1, MaxIsIn
  <1> QED BY <1>2

LEMMA FoldExists ==
  ASSUME NEW n \in Nat, NEW V, NEW base \in V, NEW step \in [1..n -> [V -> V]]
  PROVE  \E it \in [SUBSET (1..n) -> V] : FoldOf(it, base, step, 1..n)
  <1> DEFINE D == 1..n
             body(h, S) == IF S = {} THEN base ELSE step[Max(S)][h[S \ {Max(S)}]]
             upTo(k, h) == /\ h \in [SUBSET D -> V]
                           /\ \A S \in SUBSET D : Cardinality(S) <= k => h[S] = body(h, S)
             Bad == {k \in Nat : ~ \E h : upTo(k, h)}
  <1>1. IsFiniteSet(D) /\ Cardinality(D) = n
    BY FS_Interval
  <1>2. \A S \in SUBSET D : /\ IsFiniteSet(S) /\ Cardinality(S) \in 0..n
    <2>1. \A S \in SUBSET D : IsFiniteSet(S) /\ Cardinality(S) <= n
      <3> TAKE S \in SUBSET D
      <3> HIDE DEF D
      <3> QED BY <1>1, FS_Subset
    <2>2. \A S \in SUBSET D : Cardinality(S) \in Nat
      BY <2>1, FS_CardinalityType
    <2> QED BY <2>1, <2>2
  <1>3. \A S \in SUBSET D : S # {} =>
          /\ Max(S) \in D /\ S \ {Max(S)} \in SUBSET D
          /\ Cardinality(S) # 0
          /\ Cardinality(S \ {Max(S)}) = Cardinality(S) - 1
    <2> TAKE S \in SUBSET D
    <2> HAVE S # {}
    <2>1. Max(S) \in S
      BY MaxIsIn
    <2> QED BY <2>1, <1>2, FS_RemoveElement, FS_EmptySet
  <1>4. \A h \in [SUBSET D -> V] : \A S \in SUBSET D : body(h, S) \in V
    <2> TAKE h \in [SUBSET D -> V]
    <2> TAKE S \in SUBSET D
    <2> HIDE DEF D
    <2>1. S # {} => h[S \ {Max(S)}] \in V /\ Max(S) \in D
      BY <1>3
    <2>2. S # {} => step[Max(S)] \in [V -> V]
      BY <2>1 DEF D
    <2> QED BY <2>1, <2>2
  <1>5. ASSUME Bad # {} PROVE FALSE
    <2>1. PICK k \in Bad : \A j \in Bad : k <= j
      BY <1>5, LeastNumber
    <2>2. CASE k = 0
      <3> DEFINE h == [S \in SUBSET D |-> base]
      <3>1. \A S \in SUBSET D : Cardinality(S) <= 0 => S = {}
        BY <1>2, FS_EmptySet
      <3>2. upTo(0, h)
        BY <3>1
      <3> HIDE DEF upTo
      <3> QED BY <2>1, <2>2, <3>2
    <2>3. CASE k # 0
      <3>1. k - 1 \in Nat /\ k - 1 \notin Bad
        <4>1. k \in Nat /\ \A j \in Bad : k <= j
          BY <2>1
        <4> HIDE DEF Bad
        <4> QED BY <4>1, <2>3
      <3>2. PICK h : upTo(k - 1, h)
        BY <3>1
      <3> DEFINE next == [S \in SUBSET D |->
                            IF Cardinality(S) <= k - 1 THEN h[S] ELSE body(h, S)]
      <3>3. next \in [SUBSET D -> V]
        BY <3>2, <1>4
      <3>4. ASSUME NEW S \in SUBSET D, Cardinality(S) <= k
            PROVE  next[S] = body(next, S)
        <4>1. next[S] = body(h, S)
          BY <3>2
        <4>2. S # {} => next[S \ {Max(S)}] = h[S \ {Max(S)}]
          <5>1. S # {} => /\ S \ {Max(S)} \in SUBSET D
                          /\ Cardinality(S \ {Max(S)}) <= k - 1
            BY <1>2, <1>3, <3>4
          <5> QED BY <5>1
        <4> QED BY <4>1, <4>2
      <3>5. upTo(k, next)
        BY <3>3, <3>4
      <3> HIDE DEF upTo, next
      <3> QED BY <2>1, <3>5
    <2> QED BY <2>2, <2>3
  <1>6. PICK h : upTo(n, h)
    <2> HIDE DEF upTo
    <2> QED BY <1>5
  <1>7. \A S \in SUBSET D : Cardinality(S) <= n
    BY <1>2
  <1> QED BY <1>6, <1>7 DEF FoldOf

LEMMA IntervalsShrink ==
  ASSUME NEW n \in Nat
  PROVE  \A k \in 1..n : /\ 1..k \in SUBSET (1..n) /\ 1..k # {}
                         /\ Max(1..k) = k /\ (1..k) \ {k} = 1..(k - 1)
  <1> TAKE k \in 1..n
  <1>1. k \in Nat \ {0} /\ 1..k \in SUBSET (1..n) /\ 1..k # {}
    OBVIOUS
  <1> QED BY <1>1, MaxOfInterval

(* What is put together of the pieces of a tree, one piece after the other. *)
LEMMA FlattenRuns ==
  ASSUME NEW s \in Seq(Seq(Nat))
  PROVE  \E g : /\ g[0] = <<>>
                /\ \A k \in 0..Len(s) : g[k] \in Seq(Nat)
                /\ \A k \in 1..Len(s) : s[k] \in Seq(Nat) /\ g[k] = g[k - 1] \o s[k]
                /\ FlattenSeq(s) = g[Len(s)]
  <1> DEFINE n == Len(s)
             V == Seq(Nat)
             step == [i \in 1..n |-> [v \in V |-> v \o s[i]]]
             body(f, i) == IF i = 1 THEN s[i] ELSE f[i - 1] \o s[i]
             flatten == CHOOSE f : f = [i \in 1..n |-> body(f, i)]
  <1>1. n \in Nat /\ \A k \in 1..n : s[k] \in V
    OBVIOUS
  <1>2. step \in [1..n -> [V -> V]] /\ <<>> \in V
    OBVIOUS
  <1>3. PICK h \in [SUBSET (1..n) -> V] : FoldOf(h, <<>>, step, 1..n)
    <2> HIDE DEF step, n, V
    <2> QED BY <1>1, <1>2, FoldExists
  <1> DEFINE g == [k \in 0..n |-> h[1..k]]
  <1>4. \A k \in 0..n : 1..k \in SUBSET (1..n)
    BY <1>1
  <1>5. \A k \in 0..n : g[k] \in V
    <2> HIDE DEF V, n
    <2> QED BY <1>3, <1>4
  <1>6. /\ 0 \in 0..n /\ n \in 0..n
        /\ \A k \in 1..n : k \in 0..n /\ k - 1 \in 0..n
    BY <1>1
  <1>7. g[0] = <<>>
    <2>1. 1..0 = {} /\ {} \in SUBSET (1..n)
      OBVIOUS
    <2>2. h[{}] = <<>>
      BY <1>3, <2>1 DEF FoldOf
    <2> QED BY <1>6, <2>1, <2>2
  <1>8. \A k \in 1..n : g[k] = g[k - 1] \o s[k]
    <2> TAKE k \in 1..n
    <2>1. /\ 1..k \in SUBSET (1..n) /\ 1..k # {}
          /\ Max(1..k) = k /\ (1..k) \ {k} = 1..(k - 1)
      <3> HIDE DEF n
      <3> QED BY <1>1, IntervalsShrink
    <2>2. h[1..k] = step[k][h[1..(k - 1)]]
      <3> HIDE DEF step, n, V
      <3> QED BY <2>1, <1>3 DEF FoldOf
    <2>3. h[1..(k - 1)] \in V
      <3> HIDE DEF n, V
      <3> QED BY <1>3, <1>4, <1>6
    <2>4. step[k][h[1..(k - 1)]] = h[1..(k - 1)] \o s[k]
      <3> HIDE DEF V, n
      <3> QED BY <2>3 DEF step
    <2>5. g[k] = h[1..k] /\ g[k - 1] = h[1..(k - 1)]
      <3> HIDE DEF n
      <3> QED BY <1>6
    <2> QED BY <2>2, <2>4, <2>5
  <1> HIDE DEF g, V, step
  <1>9. n # 0 => flatten = [i \in 1..n |-> body(flatten, i)]
    <2> DEFINE F == [i \in 1..n |-> g[i]]
    <2>1. \A i \in 1..n : F[i] = body(F, i)
      <3> TAKE i \in 1..n
      <3>1. CASE i = 1
        <4>1. F[1] = <<>> \o s[1]
          <5>1. 1 \in 1..n /\ 1 - 1 = 0
            BY <3>1, <1>1
          <5> HIDE DEF n
          <5> QED BY <5>1, <1>7, <1>8
        <4>2. s[1] \in Seq(Nat)
          BY <3>1, <1>1 DEF V
        <4>3. <<>> \o s[1] = s[1]
          BY <4>2, ConcatEmptySeq
        <4> QED BY <3>1, <4>1, <4>3
      <3>2. CASE i # 1
        <4>1. i - 1 \in 1..n
          BY <3>2, <1>1
        <4> HIDE DEF n
        <4> QED BY <3>2, <4>1, <1>8
      <3> QED BY <3>1, <3>2
    <2>2. F = [i \in 1..n |-> body(F, i)]
      <3> HIDE DEF body
      <3>1. F = [i \in 1..n |-> F[i]]
        OBVIOUS
      <3> HIDE DEF F
      <3> QED BY <2>1, <3>1
    <2> HIDE DEF F, body, n
    <2> QED BY <2>2
  <1>10. FlattenSeq(s) = IF n = 0 THEN s ELSE flatten[n]
    BY DEF FlattenSeq
  <1> HIDE DEF flatten
  <1>11. ASSUME n # 0 PROVE \A k \in 1..n : flatten[k] = g[k]
    <2> DEFINE Bad == {k \in 1..n : flatten[k] # g[k]}
    <2>1. ASSUME Bad # {} PROVE FALSE
      <3>1. Bad \in SUBSET Nat
        BY <1>1
      <3>2. PICK k \in Bad : \A j \in Bad : k <= j
        BY <2>1, <3>1, LeastNumber
      <3>3. k \in 1..n /\ flatten[k] # g[k]
        BY <3>2
      <3>4. flatten[k] = IF k = 1 THEN s[k] ELSE flatten[k - 1] \o s[k]
        <4> HIDE DEF n
        <4> QED BY <3>3, <1>9, <1>11
      <3>5. CASE k = 1
        <4>1. g[1] = <<>> \o s[1]
          <5>1. 1 - 1 = 0
            OBVIOUS
          <5> HIDE DEF n
          <5> QED BY <5>1, <3>3, <3>5, <1>7, <1>8
        <4>2. s[1] \in Seq(Nat)
          BY <3>3, <3>5, <1>1 DEF V
        <4>3. <<>> \o s[1] = s[1]
          BY <4>2, ConcatEmptySeq
        <4> QED BY <3>3, <3>4, <3>5, <4>1, <4>3
      <3>6. CASE k # 1
        <4>1. k - 1 \in 1..n /\ ~(k <= k - 1)
          BY <3>3, <3>6, <1>1
        <4>2. flatten[k - 1] = g[k - 1]
          BY <3>2, <4>1
        <4>3. g[k] = g[k - 1] \o s[k]
          BY <3>3, <1>8
        <4> QED BY <3>3, <3>4, <3>6, <4>2, <4>3
      <3> QED BY <3>5, <3>6
    <2> QED BY <2>1
  <1>12. FlattenSeq(s) = g[n]
    <2>1. CASE n = 0
      <3>1. s = <<>>
        BY <2>1
      <3> QED BY <2>1, <3>1, <1>7, <1>10
    <2>2. CASE n # 0
      <3>1. n \in 1..n
        BY <2>2, <1>1
      <3> HIDE DEF n
      <3> QED BY <2>2, <3>1, <1>10, <1>11
    <2> QED BY <2>1, <2>2
  <1>13. \A k \in 0..n : g[k] \in Seq(Nat)
    BY <1>5 DEF V
  <1>14. \A k \in 1..n : s[k] \in Seq(Nat)
    BY <1>1 DEF V
  <1> HIDE DEF n
  <1>15. /\ g[0] = <<>> /\ \A k \in 0..n : g[k] \in Seq(Nat)
         /\ \A k \in 1..n : s[k] \in Seq(Nat) /\ g[k] = g[k - 1] \o s[k]
         /\ FlattenSeq(s) = g[n]
    BY <1>7, <1>8, <1>12, <1>13, <1>14
  <1> QED BY <1>15 DEF n

-----------------------------------------------------------------------------
(* Listings, cut and put together.                                         *)

(* The number at a place of a listing is the one with so many below it.    *)
LEMMA InOrderIs ==
  ASSUME NEW S, IsFiniteSet(S), S \subseteq Nat
  PROVE  /\ InOrder(S) \in Seq(Nat) /\ Len(InOrder(S)) = Cardinality(S)
         /\ \A i \in 1..Cardinality(S) :
              /\ InOrder(S)[i] \in S
              /\ Cardinality(Lower(S, InOrder(S)[i])) = i - 1
         /\ \A i \in 1..Cardinality(S) : \A x \in S :
              Cardinality(Lower(S, x)) = i - 1 => InOrder(S)[i] = x
         /\ \A x \in S : \E i \in 1..Cardinality(S) : InOrder(S)[i] = x
  <1> DEFINE n == Cardinality(S)
             at(i) == CHOOSE x \in S : Cardinality(Lower(S, x)) = i - 1
  <1>1. n \in Nat /\ Len(InOrder(S)) = n
    BY InOrderLists, FS_CardinalityType
  <1>2. InOrder(S) = [i \in 1..n |-> at(i)]
    BY DEF InOrder, Lower
  <1>3. \A i \in 1..n : at(i) \in S /\ Cardinality(Lower(S, at(i))) = i - 1
    BY PlacesAreTaken
  <1>4. \A x, y \in S : Cardinality(Lower(S, x)) = Cardinality(Lower(S, y)) => x = y
    <2> SUFFICES ASSUME NEW x \in S, NEW y \in S, x < y
                 PROVE  Cardinality(Lower(S, x)) # Cardinality(Lower(S, y))
      OBVIOUS
    <2>1. Lower(S, x) \subseteq Lower(S, y) /\ x \in Lower(S, y) /\ x \notin Lower(S, x)
      BY LowerGrows
    <2>2. IsFiniteSet(Lower(S, y))
      BY FS_Subset DEF Lower
    <2> QED BY <2>1, <2>2, FS_Subset
  <1>5. \A x \in S : \E i \in 1..n : InOrder(S)[i] = x
    <2>1. Range(InOrder(S)) = S
      BY InOrderLists
    <2>2. DOMAIN InOrder(S) = 1..n
      BY <1>2
    <2> QED BY <2>1, <2>2 DEF Range
  <1>6. \A i \in 1..n : at(i) \in Nat
    BY <1>3
  <1> HIDE DEF at
  <1>7. InOrder(S) \in Seq(Nat)
    BY <1>1, <1>2, <1>6
  <1> QED BY <1>1, <1>2, <1>3, <1>4, <1>5, <1>7

(* A listing is in order.                                                  *)
LEMMA InOrderAscends ==
  ASSUME NEW S, IsFiniteSet(S), S \subseteq Nat
  PROVE  \A i, j \in 1..Cardinality(S) : i < j => InOrder(S)[i] < InOrder(S)[j]
  <1> SUFFICES ASSUME NEW i \in 1..Cardinality(S), NEW j \in 1..Cardinality(S), i < j,
                      ~(InOrder(S)[i] < InOrder(S)[j])
               PROVE  FALSE
    OBVIOUS
  <1> DEFINE x == InOrder(S)[i]
             y == InOrder(S)[j]
  <1>1. /\ x \in S /\ y \in S /\ x \in Nat /\ y \in Nat
        /\ Cardinality(Lower(S, x)) = i - 1 /\ Cardinality(Lower(S, y)) = j - 1
    BY InOrderIs
  <1>2. y <= x
    BY <1>1
  <1>3. Lower(S, y) \subseteq Lower(S, x)
    <2>1. y < x \/ y = x
      BY <1>1, <1>2
    <2>2. y < x => Lower(S, y) \subseteq Lower(S, x)
      BY <1>1, LowerGrows
    <2> QED BY <2>1, <2>2
  <1>4. IsFiniteSet(Lower(S, x))
    BY FS_Subset DEF Lower
  <1>5. Cardinality(Lower(S, y)) <= Cardinality(Lower(S, x))
    BY <1>3, <1>4, FS_Subset
  <1>6. i \in Nat /\ j \in Nat
    BY FS_CardinalityType
  <1> QED BY <1>1, <1>5, <1>6

(* Of numbers that are all lower than others, the listing comes first.     *)
LEMMA InOrderJoins ==
  ASSUME NEW A, IsFiniteSet(A), A \subseteq Nat,
         NEW B, IsFiniteSet(B), B \subseteq Nat,
         \A a \in A : \A b \in B : a < b
  PROVE  InOrder(A \union B) = InOrder(A) \o InOrder(B)
  <1> DEFINE U == A \union B
             m == Cardinality(A)
             n == Cardinality(B)
  <1>1. /\ IsFiniteSet(U) /\ U \subseteq Nat /\ m \in Nat /\ n \in Nat
        /\ Cardinality(U) = m + n
    <2>1. A \cap B = {}
      <3>1. \A a \in A : a \in Nat /\ ~(a < a)
        OBVIOUS
      <3> QED BY <3>1
    <2>2. Cardinality(A \cap B) = 0
      BY <2>1, FS_EmptySet
    <2>3. m \in Nat /\ n \in Nat
      BY FS_CardinalityType
    <2>4. IsFiniteSet(U) /\ Cardinality(U) = m + n - Cardinality(A \cap B)
      BY FS_Union
    <2> QED BY <2>2, <2>3, <2>4
  <1>2. \A x \in A : Lower(U, x) = Lower(A, x)
    <2>1. \A x \in A : \A b \in B : ~(b < x)
      OBVIOUS
    <2> QED BY <2>1 DEF Lower
  <1>3. \A x \in B : Cardinality(Lower(U, x)) = m + Cardinality(Lower(B, x))
    <2> TAKE x \in B
    <2>1. Lower(U, x) = A \union Lower(B, x)
      BY DEF Lower
    <2>2. A \cap Lower(B, x) = {}
      <3>1. \A a \in A : a \in Nat /\ ~(a < a)
        OBVIOUS
      <3> QED BY <3>1 DEF Lower
    <2>3. IsFiniteSet(Lower(B, x))
      BY FS_Subset DEF Lower
    <2>4. /\ Cardinality(A \cap Lower(B, x)) = 0
          /\ Cardinality(Lower(B, x)) \in Nat
      BY <2>2, <2>3, FS_EmptySet, FS_CardinalityType
    <2>5. Cardinality(A \union Lower(B, x))
            = m + Cardinality(Lower(B, x)) - Cardinality(A \cap Lower(B, x))
      BY <2>3, FS_Union
    <2> HIDE DEF m, U
    <2> QED BY <1>1, <2>1, <2>4, <2>5
  <1>4. /\ InOrder(A) \in Seq(Nat) /\ Len(InOrder(A)) = m
        /\ InOrder(B) \in Seq(Nat) /\ Len(InOrder(B)) = n
        /\ InOrder(U) \in Seq(Nat) /\ Len(InOrder(U)) = m + n
    BY <1>1, InOrderIs
  <1>5. ASSUME NEW i \in 1..(m + n)
        PROVE  InOrder(U)[i] = IF i <= m THEN InOrder(A)[i] ELSE InOrder(B)[i - m]
    <2>1. CASE i <= m
      <3>1. i \in 1..m
        BY <1>1, <2>1
      <3>2. InOrder(A)[i] \in A /\ Cardinality(Lower(A, InOrder(A)[i])) = i - 1
        BY <3>1, InOrderIs
      <3>3. InOrder(A)[i] \in U /\ Cardinality(Lower(U, InOrder(A)[i])) = i - 1
        BY <3>2, <1>2
      <3>4. InOrder(U)[i] = InOrder(A)[i]
        BY <3>3, <1>1, InOrderIs
      <3> QED BY <3>4, <2>1
    <2>2. CASE ~(i <= m)
      <3>1. i - m \in 1..n
        BY <1>1, <2>2
      <3>2. InOrder(B)[i - m] \in B /\ Cardinality(Lower(B, InOrder(B)[i - m])) = (i - m) - 1
        BY <3>1, InOrderIs
      <3>3. /\ InOrder(B)[i - m] \in U
            /\ Cardinality(Lower(U, InOrder(B)[i - m])) = m + ((i - m) - 1)
        BY <3>2, <1>3
      <3>4. m + ((i - m) - 1) = i - 1
        BY <1>1
      <3>5. i \in 1..Cardinality(U)
        BY <1>1
      <3>6. InOrder(U)[i] = InOrder(B)[i - m]
        <4> HIDE DEF U, m
        <4>1. \A x \in U : Cardinality(Lower(U, x)) = i - 1 => InOrder(U)[i] = x
          BY <1>1, <3>5, InOrderIs
        <4> QED BY <4>1, <3>3, <3>4
      <3> QED BY <3>6, <2>2
    <2> QED BY <2>1, <2>2
  <1> HIDE DEF m, n, U
  <1>6. InOrder(U) = InOrder(A) \o InOrder(B)
    <2>1. /\ InOrder(A) \o InOrder(B) \in Seq(Nat)
          /\ Len(InOrder(A) \o InOrder(B)) = m + n
          /\ \A i \in 1..(m + n) : (InOrder(A) \o InOrder(B))[i]
               = IF i <= m THEN InOrder(A)[i] ELSE InOrder(B)[i - m]
      BY <1>4, ConcatProperties
    <2> QED BY <1>1, <1>4, <1>5, <2>1, SeqEqual
  <1> QED BY <1>6 DEF U

(* The beginning of a listing, by its elements.                            *)
LEMMA TakeIs ==
  ASSUME NEW s \in Seq(Nat), NEW m \in Nat
  PROVE  /\ Take(m, s) \in Seq(Nat)
         /\ Len(Take(m, s)) = IF Len(s) <= m THEN Len(s) ELSE m
         /\ \A i \in 1..Len(Take(m, s)) : Take(m, s)[i] = s[i]
  <1> DEFINE n == IF Len(s) <= m THEN Len(s) ELSE m
  <1>1. n \in Nat /\ n <= Len(s) /\ Take(m, s) = SubSeq(s, 1, n)
    BY DEF Take
  <1>2. Take(m, s) \in Seq(Nat) /\ Len(Take(m, s)) = n
    BY TakeFits
  <1> HIDE DEF n
  <1>3. \A i \in 1..n : s[i] \in Nat
    BY <1>1
  <1>4. \A i \in 1..(n - 1 + 1) : SubSeq(s, 1, n)[i] = s[1 + i - 1]
    BY <1>1, <1>3, SubSeqProperties
  <1>5. \A i \in 1..n : i \in 1..(n - 1 + 1) /\ 1 + i - 1 = i
    BY <1>1
  <1>6. \A i \in 1..n : SubSeq(s, 1, n)[i] = s[i]
    BY <1>4, <1>5
  <1> QED BY <1>1, <1>2, <1>6 DEF n

LEMMA TakeAll ==
  ASSUME NEW s \in Seq(Nat), NEW m \in Nat, Len(s) <= m
  PROVE  Take(m, s) = s
  <1>1. Take(m, s) \in Seq(Nat) /\ Len(Take(m, s)) = Len(s)
    BY TakeIs
  <1>2. \A i \in 1..Len(s) : Take(m, s)[i] = s[i]
    BY <1>1, TakeIs
  <1> QED BY <1>1, <1>2, SeqEqual

LEMMA TakeJoins ==
  ASSUME NEW s \in Seq(Nat), NEW t \in Seq(Nat), NEW m \in Nat
  PROVE  Take(m, s \o t) = IF Len(s) >= m THEN Take(m, s)
                           ELSE s \o Take(m - Len(s), t)
  <1> DEFINE k == Len(s)
             l == Len(t)
             u == s \o t
  <1>1. /\ u \in Seq(Nat) /\ Len(u) = k + l /\ k \in Nat /\ l \in Nat
        /\ \A i \in 1..(k + l) : u[i] = IF i <= k THEN s[i] ELSE t[i - k]
    BY ConcatProperties
  <1>2. /\ Take(m, u) \in Seq(Nat)
        /\ Len(Take(m, u)) = IF k + l <= m THEN k + l ELSE m
        /\ \A i \in 1..Len(Take(m, u)) : Take(m, u)[i] = u[i]
    <2> HIDE DEF u
    <2> QED BY <1>1, TakeIs
  <1>3. CASE k >= m
    <2>1. /\ Take(m, s) \in Seq(Nat)
          /\ Len(Take(m, s)) = IF k <= m THEN k ELSE m
          /\ \A i \in 1..Len(Take(m, s)) : Take(m, s)[i] = s[i]
      BY TakeIs
    <2> HIDE DEF k, l, u
    <2>2. Len(Take(m, s)) = m /\ Len(Take(m, u)) = m
      BY <2>1, <1>1, <1>2, <1>3
    <2>3. ASSUME NEW i \in 1..m PROVE Take(m, u)[i] = Take(m, s)[i]
      <3>1. i \in 1..(k + l) /\ i <= k
        BY <1>1, <1>3
      <3>2. Take(m, u)[i] = u[i] /\ Take(m, s)[i] = s[i]
        BY <1>2, <2>1, <2>2
      <3> QED BY <3>1, <3>2, <1>1
    <2>4. Take(m, u) = Take(m, s)
      BY <1>2, <2>1, <2>2, <2>3, SeqEqual
    <2> QED BY <2>4, <1>3 DEF u, k
  <1>4. CASE ~(k >= m)
    <2> DEFINE r == m - k
               v == Take(r, t)
    <2>1. r \in Nat
      BY <1>1, <1>4
    <2>2. /\ v \in Seq(Nat) /\ Len(v) = IF l <= r THEN l ELSE r
          /\ \A i \in 1..Len(v) : v[i] = t[i]
      <3> HIDE DEF r
      <3> QED BY <2>1, TakeIs
    <2>3. /\ s \o v \in Seq(Nat) /\ Len(s \o v) = k + Len(v)
          /\ \A i \in 1..(k + Len(v)) :
               (s \o v)[i] = IF i <= k THEN s[i] ELSE v[i - k]
      <3> HIDE DEF v
      <3> QED BY <2>2, ConcatProperties
    <2> HIDE DEF k, l, u, v
    <2>4. /\ Len(v) \in Nat /\ Len(v) <= l /\ Len(Take(m, u)) = k + Len(v)
      BY <1>1, <1>2, <1>4, <2>2
    <2>5. ASSUME NEW i \in 1..(k + Len(v)) PROVE Take(m, u)[i] = (s \o v)[i]
      <3>1. i \in 1..(k + l)
        BY <1>1, <2>4
      <3>2. Take(m, u)[i] = u[i]
        BY <1>2, <2>4
      <3>3. ~(i <= k) => i - k \in 1..Len(v)
        BY <1>1, <2>4
      <3> QED BY <3>1, <3>2, <3>3, <1>1, <2>2, <2>3
    <2>6. Take(m, u) = s \o v
      BY <1>2, <2>3, <2>4, <2>5, SeqEqual
    <2> QED BY <2>6, <1>4 DEF u, v, k
  <1> QED BY <1>3, <1>4

-----------------------------------------------------------------------------
(* The tree of list_files.                                                 *)

(* The files below a directory of the tree.                                *)
Under(files, d) == {f \in files : IsStrictPrefix(d, At(f))}

LEMMA SegmentsAre ==
  ASSUME NEW q \in Seq(STRING), NEW l \in 0..Len(q)
  PROVE  /\ SubSeq(q, 1, l) \in Seq(STRING) /\ Len(SubSeq(q, 1, l)) = l
         /\ \A i \in 1..l : SubSeq(q, 1, l)[i] = q[i]
  <1>1. l \in Nat /\ l <= Len(q) /\ Len(q) \in Nat
    OBVIOUS
  <1>2. \A i \in 1..l : q[i] \in STRING
    BY <1>1
  <1>3. /\ SubSeq(q, 1, l) \in Seq(STRING)
        /\ Len(SubSeq(q, 1, l)) = IF 1 <= l THEN l - 1 + 1 ELSE 0
        /\ \A i \in 1..(l - 1 + 1) : SubSeq(q, 1, l)[i] = q[1 + i - 1]
    BY <1>1, <1>2, SubSeqProperties
  <1>4. Len(SubSeq(q, 1, l)) = l
    BY <1>1, <1>3
  <1>5. \A i \in 1..l : i \in 1..(l - 1 + 1) /\ 1 + i - 1 = i
    BY <1>1
  <1>6. \A i \in 1..l : SubSeq(q, 1, l)[i] = q[i]
    BY <1>3, <1>5
  <1> QED BY <1>3, <1>4, <1>6

LEMMA PrefixIs ==
  ASSUME NEW q \in Seq(STRING), NEW p
  PROVE  p \in Prefixes(q) <=> /\ p \in Seq(STRING) /\ Len(p) <= Len(q)
                               /\ \A i \in 1..Len(p) : p[i] = q[i]
  <1>1. ASSUME p \in Prefixes(q)
        PROVE  p \in Seq(STRING) /\ Len(p) <= Len(q) /\ \A i \in 1..Len(p) : p[i] = q[i]
    <2>1. PICK l \in 0..Len(q) : p = SubSeq(q, 1, l)
      BY <1>1 DEF Prefixes
    <2> QED BY <2>1, SegmentsAre
  <1>2. ASSUME p \in Seq(STRING), Len(p) <= Len(q), \A i \in 1..Len(p) : p[i] = q[i]
        PROVE  p \in Prefixes(q)
    <2> DEFINE l == Len(p)
    <2>1. l \in 0..Len(q)
      BY <1>2
    <2>2. /\ SubSeq(q, 1, l) \in Seq(STRING) /\ Len(SubSeq(q, 1, l)) = l
          /\ \A i \in 1..l : SubSeq(q, 1, l)[i] = q[i]
      <3> HIDE DEF l
      <3> QED BY <2>1, SegmentsAre
    <2>3. SubSeq(q, 1, l) = p
      BY <1>2, <2>2, SeqEqual
    <2> QED BY <2>1, <2>3 DEF Prefixes
  <1> QED BY <1>1, <1>2

LEMMA StrictlyBelow ==
  ASSUME NEW p \in Seq(STRING), NEW q \in Seq(STRING)
  PROVE  IsStrictPrefix(p, q) <=> p \in Prefixes(q) /\ p # q
  <1>1. Len(p) \in Nat /\ Len(q) \in Nat
    OBVIOUS
  <1>2. /\ SubSeq(p, 1, Len(p)) \in Seq(STRING) /\ Len(SubSeq(p, 1, Len(p))) = Len(p)
        /\ \A i \in 1..Len(p) : SubSeq(p, 1, Len(p))[i] = p[i]
    BY <1>1, SegmentsAre
  <1>3. Len(p) <= Len(q) =>
          /\ SubSeq(q, 1, Len(p)) \in Seq(STRING) /\ Len(SubSeq(q, 1, Len(p))) = Len(p)
          /\ \A i \in 1..Len(p) : SubSeq(q, 1, Len(p))[i] = q[i]
    BY <1>1, SegmentsAre
  <1>4. Len(p) <= Len(q) =>
          (SubSeq(p, 1, Len(p)) = SubSeq(q, 1, Len(p)) <=> \A i \in 1..Len(p) : p[i] = q[i])
    <2> HAVE Len(p) <= Len(q)
    <2>1. ASSUME \A i \in 1..Len(p) : p[i] = q[i]
          PROVE  SubSeq(p, 1, Len(p)) = SubSeq(q, 1, Len(p))
      <3>1. \A i \in 1..Len(p) : SubSeq(p, 1, Len(p))[i] = SubSeq(q, 1, Len(p))[i]
        BY <1>2, <1>3, <2>1
      <3> QED BY <1>2, <1>3, <3>1, SeqEqual
    <2> QED BY <1>2, <1>3, <2>1
  <1> QED BY <1>4, PrefixIs DEF IsStrictPrefix, IsPrefix

(* Every file hangs below the prefix.                                      *)
LEMMA PlacesAre ==
  ASSUME call \in Calls, NEW f \in Files
  PROVE  /\ call.path \in Seq(STRING) /\ PathOf[f] \in Seq(STRING)
         /\ At(f) \in Seq(STRING) /\ Len(At(f)) \in Nat
         /\ IsStrictPrefix(call.path, At(f))
  <1> DEFINE p == call.path
             q == PathOf[f]
  <1>1. p \in Seq(STRING) /\ q \in Seq(STRING) /\ q # <<>>
    BY HandlersAssumption
  <1>2. At(f) = IF IsStrictPrefix(p, q) THEN q ELSE p \o q
    BY DEF At, Place
  <1>3. /\ p \o q \in Seq(STRING) /\ Len(p \o q) = Len(p) + Len(q)
        /\ \A i \in 1..(Len(p) + Len(q)) :
             (p \o q)[i] = IF i <= Len(p) THEN p[i] ELSE q[i - Len(p)]
    <2> HIDE DEF p, q
    <2> QED BY <1>1, ConcatProperties
  <1>4. Len(p) \in Nat /\ Len(q) \in Nat /\ Len(q) # 0
    <2> HIDE DEF p, q
    <2> QED BY <1>1, EmptySeq
  <1>5. IsStrictPrefix(p, p \o q)
    <2> HIDE DEF p, q
    <2>1. \A i \in 1..Len(p) : i \in 1..(Len(p) + Len(q)) /\ i <= Len(p)
      BY <1>4
    <2>2. \A i \in 1..Len(p) : p[i] = (p \o q)[i]
      BY <1>3, <2>1
    <2>3. p \in Prefixes(p \o q)
      <3>1. Len(p) <= Len(p \o q)
        BY <1>3, <1>4
      <3> QED BY <1>1, <1>3, <2>2, <3>1, PrefixIs
    <2>4. p # p \o q
      <3>1. Len(p) # Len(p \o q)
        BY <1>3, <1>4
      <3> QED BY <3>1
    <2> QED BY <1>1, <1>3, <2>3, <2>4, StrictlyBelow
  <1> HIDE DEF p, q
  <1>6. At(f) \in Seq(STRING) /\ IsStrictPrefix(p, At(f))
    BY <1>1, <1>2, <1>3, <1>5
  <1> QED BY <1>1, <1>6 DEF p, q

(* The step from a directory toward a file below it.                       *)
LEMMA TowardIs ==
  ASSUME call \in Calls, NEW f \in Files, NEW d \in Seq(STRING),
         IsStrictPrefix(d, At(f))
  PROVE  /\ Toward(d, f) \in Seq(STRING) /\ Len(Toward(d, f)) = Len(d) + 1
         /\ Len(d) < Len(At(f))
         /\ Toward(d, f) \in Prefixes(At(f))
         /\ \A i \in 1..(Len(d) + 1) : Toward(d, f)[i] = At(f)[i]
         /\ \A i \in 1..Len(d) : d[i] = At(f)[i]
         /\ d \in Prefixes(Toward(d, f)) /\ d # Toward(d, f)
         /\ ~HangsIn(d, f) => IsStrictPrefix(Toward(d, f), At(f))
  <1> DEFINE q == At(f)
             t == Toward(d, f)
  <1>1. q \in Seq(STRING) /\ Len(q) \in Nat /\ Len(d) \in Nat
    BY PlacesAre
  <1>2. d \in Prefixes(q) /\ d # q
    BY <1>1, StrictlyBelow
  <1>3. Len(d) <= Len(q) /\ \A i \in 1..Len(d) : d[i] = q[i]
    <2> HIDE DEF q
    <2> QED BY <1>1, <1>2, PrefixIs
  <1>4. Len(d) # Len(q)
    <2> HIDE DEF q
    <2> QED BY <1>1, <1>2, <1>3, SeqEqual
  <1>5. Len(d) + 1 \in 0..Len(q) /\ Len(d) < Len(q)
    <2> HIDE DEF q
    <2> QED BY <1>1, <1>3, <1>4
  <1>6. t = SubSeq(q, 1, Len(d) + 1)
    BY DEF Toward
  <1> HIDE DEF q, t
  <1>7. /\ t \in Seq(STRING) /\ Len(t) = Len(d) + 1
        /\ \A i \in 1..(Len(d) + 1) : t[i] = q[i]
    BY <1>1, <1>5, <1>6, SegmentsAre
  <1>8. t \in Prefixes(q)
    BY <1>5, <1>6 DEF Prefixes
  <1>9. d \in Prefixes(t) /\ d # t
    <2>1. \A i \in 1..Len(d) : i \in 1..(Len(d) + 1)
      BY <1>1
    <2>2. \A i \in 1..Len(d) : d[i] = t[i]
      BY <1>3, <1>7, <2>1
    <2>3. Len(d) <= Len(t) /\ Len(d) # Len(t)
      BY <1>1, <1>7
    <2> QED BY <1>7, <2>2, <2>3, PrefixIs
  <1>10. t # q => IsStrictPrefix(t, q)
    BY <1>1, <1>7, <1>8, StrictlyBelow
  <1> QED BY <1>3, <1>5, <1>7, <1>8, <1>9, <1>10 DEF q, t, HangsIn

(* Two files that the step from d takes the same way.                      *)
Same(d, f, g) ==
  f = g \/ (Toward(d, f) = Toward(d, g) /\ ~HangsIn(d, f) /\ ~HangsIn(d, g))

(* The files at or below an entry.                                         *)
Block(files, d, e) == IF HangsIn(d, e) THEN {e} ELSE Under(files, Toward(d, e))

LEMMA BlockIs ==
  ASSUME call \in Calls, NEW files \in SUBSET Files, NEW d \in Seq(STRING),
         NEW e \in Under(files, d)
  PROVE  Block(files, d, e) = {g \in Under(files, d) : Same(d, g, e)}
  <1>1. e \in Files /\ IsStrictPrefix(d, At(e)) /\ e \in files
    BY DEF Under
  <1>2. CASE HangsIn(d, e)
    BY <1>2 DEF Block, Same
  <1>3. CASE ~HangsIn(d, e)
    <2> DEFINE t == Toward(d, e)
    <2>1. /\ t \in Seq(STRING) /\ Len(t) = Len(d) + 1 /\ Len(d) \in Nat
          /\ d \in Prefixes(t) /\ d # t
      BY <1>1, TowardIs
    <2>2. ASSUME NEW g \in Under(files, d), Same(d, g, e)
          PROVE  g \in Under(files, t)
      <3>1. g \in Files /\ g \in files /\ IsStrictPrefix(d, At(g))
        BY DEF Under
      <3>2. Toward(d, g) = t /\ ~HangsIn(d, g)
        BY <2>2, <1>3 DEF Same
      <3>3. IsStrictPrefix(t, At(g))
        BY <3>1, <3>2, TowardIs
      <3> QED BY <3>1, <3>3 DEF Under
    <2>3. ASSUME NEW g \in Under(files, t)
          PROVE  g \in Under(files, d) /\ Same(d, g, e)
      <3> HIDE DEF t
      <3>1. g \in Files /\ g \in files /\ IsStrictPrefix(t, At(g))
        BY DEF Under
      <3>2. At(g) \in Seq(STRING) /\ Len(At(g)) \in Nat
        BY <3>1, PlacesAre
      <3>3. t \in Prefixes(At(g)) /\ t # At(g)
        BY <3>1, <3>2, <2>1, StrictlyBelow
      <3>4. Len(t) <= Len(At(g)) /\ \A i \in 1..Len(t) : t[i] = At(g)[i]
        BY <3>2, <3>3, PrefixIs
      <3>5. Len(d) <= Len(t) /\ \A i \in 1..Len(d) : d[i] = t[i]
        BY <2>1, PrefixIs
      <3>6. \A i \in 1..Len(d) : i \in 1..Len(t)
        BY <2>1
      <3>7. Len(d) <= Len(At(g)) /\ \A i \in 1..Len(d) : d[i] = At(g)[i]
        BY <2>1, <3>2, <3>4, <3>5, <3>6
      <3>8. d \in Prefixes(At(g)) /\ d # At(g)
        <4>1. d \in Prefixes(At(g))
          BY <3>2, <3>7, PrefixIs
        <4>2. Len(d) # Len(At(g))
          BY <2>1, <3>2, <3>4
        <4> QED BY <4>1, <4>2
      <3>9. IsStrictPrefix(d, At(g))
        BY <3>2, <3>8, StrictlyBelow
      <3>10. /\ Toward(d, g) \in Seq(STRING) /\ Len(Toward(d, g)) = Len(d) + 1
             /\ \A i \in 1..(Len(d) + 1) : Toward(d, g)[i] = At(g)[i]
        BY <3>1, <3>9, TowardIs
      <3>11. Toward(d, g) = t
        BY <2>1, <3>4, <3>10, SeqEqual
      <3> QED BY <1>3, <3>1, <3>3, <3>9, <3>11 DEF Under, Same, HangsIn, t
    <2> QED BY <1>3, <2>2, <2>3 DEF Block
  <1> QED BY <1>2, <1>3

(* All the files are where their paths say.                                *)
Tidy(files) == \A f \in files : At(f) = PathOf[f]

(* What lies below a directory lies below one of its entries, and when all *)
(* is where its path says, below the first of them comes first.            *)
LEMMA EntriesAre ==
  ASSUME call \in Calls, NEW files \in SUBSET Files, NEW d \in Seq(STRING)
  PROVE  LET E == Entries(files, d)
         IN  /\ E \in Seq(Nat) /\ DOMAIN E = 1..Len(E)
             /\ \A i \in 1..Len(E) : E[i] \in Under(files, d)
             /\ \A i \in 1..Len(E) : ~HangsIn(d, E[i]) =>
                  Toward(d, E[i]) \in Dirs /\ Len(Toward(d, E[i])) = Len(d) + 1
             /\ \A f \in files :
                  f \in Under(files, d) <=> \E i \in 1..Len(E) : f \in Block(files, d, E[i])
             /\ \A i, j \in 1..Len(E) : i < j =>
                  Block(files, d, E[i]) \cap Block(files, d, E[j]) = {}
             /\ Tidy(files) => \A i, j \in 1..Len(E) : i < j =>
                  \A x \in Block(files, d, E[i]) : \A y \in Block(files, d, E[j]) : x < y
  <1> DEFINE below == Under(files, d)
             firsts == {f \in below : \A g \in below : Same(d, g, f) => f <= g}
             m == Cardinality(firsts)
             E == Entries(files, d)
  <1>1. \A f \in below : f \in files /\ f \in Files /\ f \in Nat /\ IsStrictPrefix(d, At(f))
    BY HandlersAssumption DEF Under
  <1>2. E = InOrder(firsts)
    <2> DEFINE chosen == {f \in below : HangsIn(d, f) \/ \A g \in below :
                            Toward(d, g) = Toward(d, f) => HangsIn(d, g) \/ f <= g}
    <2>1. E = InOrder(chosen)
      BY DEF Entries, Under
    <2>2. \A f \in below : (\A g \in below : Same(d, g, f) => f <= g)
            <=> (HangsIn(d, f) \/ \A g \in below :
                   Toward(d, g) = Toward(d, f) => HangsIn(d, g) \/ f <= g)
      <3> TAKE f \in below
      <3>1. f <= f
        BY <1>1
      <3> HIDE DEF below
      <3> QED BY <3>1 DEF Same
    <2>3. chosen = firsts
      <3> HIDE DEF below
      <3> QED BY <2>2
    <2> HIDE DEF chosen, firsts, E
    <2> QED BY <2>1, <2>3
  <1>3. IsFiniteSet(firsts) /\ firsts \subseteq Nat /\ firsts \subseteq below /\ m \in Nat
    <2>1. IsFiniteSet(Files) /\ Files \subseteq Nat
      BY HandlersAssumption
    <2>2. firsts \in SUBSET Files /\ firsts \subseteq below
      BY <1>1
    <2> HIDE DEF firsts
    <2>3. IsFiniteSet(firsts)
      BY <2>1, <2>2, FS_Subset
    <2> QED BY <2>1, <2>2, <2>3, FS_CardinalityType
  <1>4. /\ E \in Seq(Nat) /\ Len(E) = m
        /\ \A i \in 1..m : E[i] \in firsts
        /\ \A f \in firsts : \E i \in 1..m : E[i] = f
        /\ \A i, j \in 1..m : i < j => E[i] < E[j]
    <2> HIDE DEF firsts, E
    <2> QED BY <1>2, <1>3, InOrderIs, InOrderAscends
  <1>5. DOMAIN E = 1..m
    <2> HIDE DEF E, m
    <2> QED BY <1>3, <1>4
  <1>6. \A f \in firsts : f \in below /\ \A g \in below : Same(d, g, f) => f <= g
    OBVIOUS
  <1>7. ASSUME NEW i \in 1..m
        PROVE  /\ E[i] \in below /\ E[i] \in Nat /\ E[i] \in files /\ E[i] \in Files
               /\ \A g \in below : Same(d, g, E[i]) => E[i] <= g
               /\ Block(files, d, E[i]) = {g \in below : Same(d, g, E[i])}
    <2>1. E[i] \in below /\ \A g \in below : Same(d, g, E[i]) => E[i] <= g
      <3> HIDE DEF E, m, firsts
      <3> QED BY <1>4, <1>6
    <2> HIDE DEF E
    <2>2. Block(files, d, E[i]) = {g \in below : Same(d, g, E[i])}
      BY <2>1, BlockIs
    <2> QED BY <1>1, <2>1, <2>2
  <1>8. ASSUME NEW i \in 1..m, ~HangsIn(d, E[i])
        PROVE  Toward(d, E[i]) \in Dirs /\ Len(Toward(d, E[i])) = Len(d) + 1
    <2> HIDE DEF E, m, firsts
    <2>1. E[i] \in Files /\ IsStrictPrefix(d, At(E[i]))
      BY <1>1, <1>7
    <2>2. Len(Toward(d, E[i])) = Len(d) + 1 /\ Toward(d, E[i]) \in Prefixes(At(E[i]))
      BY <2>1, TowardIs
    <2> QED BY <2>1, <2>2 DEF Dirs
  <1>9. ASSUME NEW f \in files
        PROVE  f \in below <=> \E i \in 1..m : f \in Block(files, d, E[i])
    <2>1. ASSUME f \in below PROVE \E i \in 1..m : f \in Block(files, d, E[i])
      <3> DEFINE T == {g \in below : Same(d, g, f)}
      <3>1. T \in SUBSET Nat /\ f \in T
        BY <1>1, <2>1 DEF Same
      <3>2. PICK l \in T : \A h \in T : l <= h
        BY <3>1, LeastNumber
      <3>3. l \in below /\ Same(d, l, f)
        BY <3>2
      <3>4. \A g \in below : Same(d, g, l) => Same(d, g, f)
        BY <3>3 DEF Same
      <3>5. l \in firsts
        BY <3>2, <3>3, <3>4
      <3> HIDE DEF firsts, E, m, T
      <3>6. PICK i \in 1..m : E[i] = l
        BY <1>4, <3>5
      <3>7. Same(d, f, E[i])
        BY <3>3, <3>6 DEF Same
      <3>8. f \in Block(files, d, E[i])
        BY <1>7, <2>1, <3>7
      <3> QED BY <3>8
    <2>2. ASSUME NEW i \in 1..m, f \in Block(files, d, E[i]) PROVE f \in below
      <3> HIDE DEF firsts, E, m
      <3> QED BY <1>7, <2>2
    <2> QED BY <2>1, <2>2
  <1>10. ASSUME NEW i \in 1..m, NEW j \in 1..m, i < j, Same(d, E[j], E[i]) PROVE FALSE
    <2> HIDE DEF firsts, E, m
    <2>1. E[i] < E[j] /\ E[i] \in Nat /\ E[j] \in Nat /\ E[i] \in below
      BY <1>4, <1>7, <1>10
    <2>2. Same(d, E[i], E[j])
      BY <1>10 DEF Same
    <2>3. E[j] <= E[i]
      BY <1>7, <2>1, <2>2
    <2> QED BY <2>1, <2>3
  <1>11. ASSUME NEW i \in 1..m, NEW j \in 1..m, i < j
         PROVE  Block(files, d, E[i]) \cap Block(files, d, E[j]) = {}
    <2> HIDE DEF firsts, E, m
    <2> SUFFICES ASSUME NEW x \in below, Same(d, x, E[i]), Same(d, x, E[j]) PROVE FALSE
      BY <1>7
    <2>1. Same(d, E[j], E[i])
      BY DEF Same
    <2> QED BY <2>1, <1>10, <1>11
  <1>12. ASSUME Tidy(files), NEW i \in 1..m, NEW j \in 1..m, i < j,
                NEW x \in Block(files, d, E[i]), NEW y \in Block(files, d, E[j])
         PROVE  x < y
    <2> HIDE DEF firsts, E, m
    <2>1. /\ x \in below /\ Same(d, x, E[i]) /\ y \in below /\ Same(d, y, E[j])
          /\ E[i] <= x /\ E[j] <= y /\ E[i] < E[j]
      BY <1>4, <1>7, <1>12
    <2>2. /\ E[i] \in Nat /\ E[j] \in Nat /\ x \in Nat /\ y \in Nat
          /\ E[i] \in Files /\ E[j] \in Files /\ x \in Files
          /\ E[i] \in files /\ E[j] \in files /\ x \in files
          /\ E[i] \in below /\ E[j] \in below
      BY <1>1, <1>7, <2>1
    <2>3. ASSUME y <= x PROVE FALSE
      <3>1. E[i] <= E[j] /\ E[j] <= x /\ x # E[i]
        BY <2>1, <2>2, <2>3
      <3>2. Toward(d, x) = Toward(d, E[i]) /\ ~HangsIn(d, x) /\ ~HangsIn(d, E[i])
        BY <2>1, <3>1 DEF Same
      <3> DEFINE t == Toward(d, E[i])
      <3>3. /\ IsStrictPrefix(t, At(E[i])) /\ IsStrictPrefix(t, At(x))
            /\ t \in Prefixes(At(E[i]))
        BY <1>1, <2>2, <2>1, <3>2, TowardIs
      <3>4. At(E[i]) = PathOf[E[i]] /\ At(x) = PathOf[x] /\ At(E[j]) = PathOf[E[j]]
        BY <1>12, <2>2 DEF Tidy
      <3> HIDE DEF t
      <3>5. IsStrictPrefix(t, At(E[j]))
        <4> DEFINE a == E[i]
                   b == E[j]
        <4>1. a \in Files /\ b \in Files /\ x \in Files /\ a <= b /\ b <= x
          BY <2>2, <3>1
        <4>2. /\ IsStrictPrefix(t, PathOf[a]) /\ IsStrictPrefix(t, PathOf[x])
              /\ t \in Prefixes(PathOf[a])
          BY <3>3, <3>4
        <4>3. At(b) = PathOf[b]
          BY <3>4
        <4> HIDE DEF a, b
        <4>4. IsStrictPrefix(t, PathOf[b])
          BY <4>1, <4>2, PathsAssumption
        <4> QED BY <4>3, <4>4 DEF b
      <3>6. E[j] \in Block(files, d, E[i])
        BY <2>2, <3>2, <3>5 DEF Block, Under, t
      <3>7. Same(d, E[j], E[i])
        BY <1>7, <3>6
      <3> QED BY <3>7, <1>10, <1>12
    <2> QED BY <2>2, <2>3
  <1>13. \A i, j \in 1..m : i < j => Block(files, d, E[i]) \cap Block(files, d, E[j]) = {}
    <2> HIDE DEF m, E
    <2> QED BY <1>11
  <1>14. Tidy(files) => \A i, j \in 1..m : i < j =>
           \A x \in Block(files, d, E[i]) : \A y \in Block(files, d, E[j]) : x < y
    <2> HIDE DEF m, E
    <2> QED BY <1>12
  <1>15. /\ \A i \in 1..m : E[i] \in below
         /\ \A i \in 1..m : ~HangsIn(d, E[i]) =>
              Toward(d, E[i]) \in Dirs /\ Len(Toward(d, E[i])) = Len(d) + 1
         /\ \A f \in files : f \in below <=> \E i \in 1..m : f \in Block(files, d, E[i])
    <2> HIDE DEF m, E, below
    <2> QED BY <1>7, <1>8, <1>9
  <1> HIDE DEF m, E
  <1> QED BY <1>4, <1>5, <1>13, <1>14, <1>15 DEF E

(* A directory is a path, and none is longer than the longest.             *)
LEMMA DirsAre ==
  ASSUME call \in Calls
  PROVE  /\ \A n \in Dirs : n \in Seq(STRING) /\ Len(n) \in Nat
         /\ \E top \in Nat : \A n \in Dirs : Len(n) <= top
  <1> DEFINE lengths == {Len(At(f)) : f \in Files}
  <1>1. /\ IsFiniteSet(Files) /\ Files \subseteq Nat /\ call.path \in Seq(STRING)
        /\ \A f \in Files : At(f) \in Seq(STRING) /\ Len(At(f)) \in Nat
    BY HandlersAssumption, PlacesAre
  <1>2. \A f \in Files : \A n \in Prefixes(At(f)) :
          n \in Seq(STRING) /\ Len(n) <= Len(At(f))
    <2> TAKE f \in Files
    <2>1. At(f) \in Seq(STRING)
      BY <1>1
    <2> QED BY <2>1, PrefixIs
  <1>3. \A n \in Dirs : n = call.path \/ \E f \in Files : n \in Prefixes(At(f))
    BY DEF Dirs
  <1>4. \A n \in Dirs : n \in Seq(STRING) /\ Len(n) \in Nat
    <2> TAKE n \in Dirs
    <2>1. n \in Seq(STRING)
      BY <1>1, <1>2, <1>3
    <2>2. Len(n) \in Nat
      BY <2>1
    <2> QED BY <2>1, <2>2
  <1>5. \E k \in Nat : \A f \in Files : Len(At(f)) <= k
    <2>1. CASE Files = {}
      BY <2>1
    <2>2. CASE Files # {}
      <3>1. lengths \subseteq Nat
        BY <1>1
      <3>2. IsFiniteSet(lengths)
        <4>1. [f \in Files |-> Len(At(f))] \in Surjection(Files, lengths)
          BY DEF Surjection
        <4> QED BY <4>1, <1>1, FS_Surjection
      <3> DEFINE m == Cardinality(lengths)
      <3>3. m \in Nat /\ m # 0
        <4>1. lengths # {}
          BY <2>2
        <4> HIDE DEF lengths
        <4> QED BY <4>1, <3>2, FS_EmptySet, FS_CardinalityType
      <3>4. PICK k \in lengths : Cardinality(Lower(lengths, k)) = m - 1
        <4> HIDE DEF lengths
        <4>1. m \in 1..m
          BY <3>3
        <4> QED BY <4>1, <3>1, <3>2, PlacesAreTaken
      <3>5. \A l \in lengths : l <= k
        <4> HIDE DEF lengths
        <4> SUFFICES ASSUME NEW l \in lengths, k < l PROVE FALSE
          BY <3>1, <3>4
        <4>1. Lower(lengths, k) \subseteq Lower(lengths, l)
              /\ k \in Lower(lengths, l) /\ k \notin Lower(lengths, k)
          BY <3>1, <3>4, LowerGrows
        <4>2. Cardinality(Lower(lengths, l)) + 1 \in 1..m
          BY <3>1, <3>2, PlacesAreTaken
        <4>3. Lower(lengths, l) \subseteq lengths
          BY DEF Lower
        <4>4. IsFiniteSet(Lower(lengths, l)) /\ Cardinality(Lower(lengths, l)) \in Nat
          BY <4>3, <3>2, FS_Subset, FS_CardinalityType
        <4>5. /\ Cardinality(Lower(lengths, k)) <= Cardinality(Lower(lengths, l))
              /\ Cardinality(Lower(lengths, k)) # Cardinality(Lower(lengths, l))
          BY <4>1, <4>4, FS_Subset
        <4> QED BY <3>3, <3>4, <4>2, <4>4, <4>5
      <3>6. k \in Nat
        BY <3>1, <3>4
      <3> QED BY <3>5, <3>6
    <2> QED BY <2>1, <2>2
  <1>6. PICK k \in Nat : \A f \in Files : Len(At(f)) <= k
    BY <1>5
  <1> DEFINE top == IF Len(call.path) <= k THEN k ELSE Len(call.path)
  <1>7. top \in Nat /\ k <= top /\ Len(call.path) <= top
    BY <1>1
  <1> HIDE DEF top
  <1>8. \A n \in Dirs : Len(n) <= top
    <2> TAKE n \in Dirs
    <2>1. CASE n = call.path
      BY <2>1, <1>7
    <2>2. CASE \E f \in Files : n \in Prefixes(At(f))
      <3>1. PICK f \in Files : n \in Prefixes(At(f))
        BY <2>2
      <3>2. Len(n) <= Len(At(f)) /\ Len(At(f)) <= k
        BY <3>1, <1>2, <1>6
      <3> QED BY <3>2, <1>1, <1>4, <1>7
    <2> QED BY <2>1, <2>2, <1>3
  <1> QED BY <1>4, <1>7, <1>8

(* What holds of a directory when it holds of the ones in it holds of      *)
(* every directory: those it does not hold of would have a longest.        *)
LEMMA ByHeight ==
  ASSUME call \in Calls, NEW files \in SUBSET Files, NEW Good \in SUBSET Dirs,
         \A d \in Dirs :
           (\A i \in 1..Len(Entries(files, d)) : ~HangsIn(d, Entries(files, d)[i]) =>
              Toward(d, Entries(files, d)[i]) \in Good)
           => d \in Good
  PROVE  Good = Dirs
  <1> SUFFICES ASSUME NEW bad \in Dirs, bad \notin Good
               PROVE  FALSE
    OBVIOUS
  <1>1. PICK top \in Nat : \A d \in Dirs : Len(d) <= top
    BY DirsAre
  <1>2. \A d \in Dirs : d \in Seq(STRING) /\ Len(d) \in Nat
    BY DirsAre
  <1> DEFINE Bad == Dirs \ Good
             heights == {top - Len(d) : d \in Bad}
  <1>3. \A d \in Bad : top - Len(d) \in Nat
    BY <1>1, <1>2
  <1>4. heights \in SUBSET Nat /\ heights # {}
    BY <1>3
  <1>5. PICK h \in heights : \A j \in heights : h <= j
    BY <1>4, LeastNumber
  <1>6. PICK d \in Bad : h = top - Len(d)
    OBVIOUS
  <1>7. \A c \in Bad : Len(c) <= Len(d)
    <2> TAKE c \in Bad
    <2>1. top - Len(d) <= top - Len(c)
      BY <1>5, <1>6
    <2>2. Len(c) \in Nat /\ Len(d) \in Nat
      BY <1>2
    <2> QED BY <2>1, <2>2
  <1>8. d \in Dirs /\ d \in Seq(STRING) /\ Len(d) \in Nat
    BY <1>2
  <1>9. ASSUME NEW i \in 1..Len(Entries(files, d)), ~HangsIn(d, Entries(files, d)[i])
        PROVE  Toward(d, Entries(files, d)[i]) \in Good
    <2> DEFINE c == Toward(d, Entries(files, d)[i])
    <2>1. c \in Dirs /\ Len(c) = Len(d) + 1
      BY <1>8, <1>9, EntriesAre
    <2> HIDE DEF c
    <2>2. c \notin Bad
      BY <1>7, <1>8, <2>1
    <2> QED BY <2>1, <2>2 DEF c
  <1> QED BY <1>6, <1>8, <1>9

(* The pieces a directory's leaves are put together of, when h has those   *)
(* of the directories in it.                                               *)
Pieces(files, h, d) ==
  [i \in DOMAIN Entries(files, d) |->
     IF HangsIn(d, Entries(files, d)[i]) THEN <<Entries(files, d)[i]>>
     ELSE h[Toward(d, Entries(files, d)[i])]]

LEMMA PiecesAre ==
  ASSUME call \in Calls, NEW files \in SUBSET Files, NEW d \in Dirs, NEW h,
         \A i \in 1..Len(Entries(files, d)) : ~HangsIn(d, Entries(files, d)[i]) =>
           h[Toward(d, Entries(files, d)[i])] \in Seq(Nat)
  PROVE  /\ Pieces(files, h, d) \in Seq(Seq(Nat))
         /\ Len(Pieces(files, h, d)) = Len(Entries(files, d))
         /\ FlattenSeq(Pieces(files, h, d)) \in Seq(Nat)
  <1> DEFINE E == Entries(files, d)
             P == Pieces(files, h, d)
  <1>1. d \in Seq(STRING)
    BY DirsAre
  <1>2. E \in Seq(Nat) /\ DOMAIN E = 1..Len(E) /\ Len(E) \in Nat
    <2>1. E \in Seq(Nat) /\ DOMAIN E = 1..Len(E)
      BY <1>1, EntriesAre
    <2> HIDE DEF E
    <2> QED BY <2>1
  <1>3. ASSUME NEW i \in 1..Len(E) PROVE P[i] \in Seq(Nat)
    <2>1. P[i] = IF HangsIn(d, E[i]) THEN <<E[i]>> ELSE h[Toward(d, E[i])]
      BY <1>2, <1>3 DEF Pieces
    <2> HIDE DEF P
    <2>2. ~HangsIn(d, E[i]) => h[Toward(d, E[i])] \in Seq(Nat)
      BY <1>3
    <2> HIDE DEF E
    <2>3. E[i] \in Nat
      BY <1>2, <1>3
    <2> QED BY <2>1, <2>2, <2>3
  <1>4. P \in Seq(Seq(Nat)) /\ Len(P) = Len(E)
    <2>1. P = [i \in 1..Len(E) |-> P[i]]
      BY <1>2 DEF Pieces
    <2> HIDE DEF E, P
    <2>2. P \in [1..Len(E) -> Seq(Nat)]
      BY <1>3, <2>1
    <2> QED BY <1>2, <2>2
  <1> HIDE DEF P, E
  <1>5. FlattenSeq(P) \in Seq(Nat)
    <2>1. PICK g : /\ \A k \in 0..Len(P) : g[k] \in Seq(Nat)
                   /\ FlattenSeq(P) = g[Len(P)]
      BY <1>4, FlattenRuns
    <2>2. Len(P) \in 0..Len(P)
      BY <1>2, <1>4
    <2> QED BY <2>1, <2>2
  <1> QED BY <1>4, <1>5 DEF P, E

(* Leaves is the recursive function it is written as.                      *)
LEMMA LeavesUnfold ==
  ASSUME call \in Calls, NEW files \in SUBSET Files
  PROVE  \E leaves \in [Dirs -> Seq(Nat)] : \A d \in Dirs :
           /\ Leaves(files, d) = leaves[d]
           /\ leaves[d] = FlattenSeq(Pieces(files, leaves, d))
  <1> DEFINE body(h, d) == FlattenSeq(Pieces(files, h, d))
             leaves == CHOOSE h : h = [d \in Dirs |-> body(h, d)]
             E(d) == Entries(files, d)
  <1>1. \A d \in Dirs : Leaves(files, d) = leaves[d]
    BY DEF Leaves, Pieces
  <1>2. PICK top \in Nat : \A d \in Dirs : Len(d) <= top
    BY DirsAre
  <1>3. \A d \in Dirs : d \in Seq(STRING) /\ Len(d) \in Nat
    BY DirsAre
  <1>4. \A d \in Dirs : \A i \in 1..Len(E(d)) : ~HangsIn(d, E(d)[i]) =>
          Toward(d, E(d)[i]) \in Dirs /\ Len(Toward(d, E(d)[i])) = Len(d) + 1
    BY <1>3, EntriesAre
  <1>5. \A d \in Dirs : DOMAIN E(d) = 1..Len(E(d))
    BY <1>3, EntriesAre
  <1>6. ASSUME NEW h \in [Dirs -> Seq(Nat)], NEW d \in Dirs PROVE body(h, d) \in Seq(Nat)
    <2>1. \A i \in 1..Len(E(d)) : ~HangsIn(d, E(d)[i]) => h[Toward(d, E(d)[i])] \in Seq(Nat)
      <3> HIDE DEF E
      <3> QED BY <1>4
    <2> QED BY <2>1, PiecesAre
  <1>7. ASSUME NEW h, NEW l, NEW d \in Dirs,
               \A i \in 1..Len(E(d)) : ~HangsIn(d, E(d)[i]) =>
                 h[Toward(d, E(d)[i])] = l[Toward(d, E(d)[i])]
        PROVE  body(h, d) = body(l, d)
    <2>1. Pieces(files, h, d) = Pieces(files, l, d)
      BY <1>5, <1>7 DEF Pieces
    <2> QED BY <2>1
  <1> HIDE DEF body, E
  <1> DEFINE good(k, h) == /\ h \in [Dirs -> Seq(Nat)]
                           /\ \A d \in Dirs : top - Len(d) < k => h[d] = body(h, d)
             Bad == {k \in Nat : ~ \E h : good(k, h)}
  <1>8. ASSUME Bad # {} PROVE FALSE
    <2>1. PICK k \in Bad : \A j \in Bad : k <= j
      BY <1>8, LeastNumber
    <2>2. CASE k = 0
      <3> DEFINE h == [d \in Dirs |-> <<>>]
      <3>1. h \in [Dirs -> Seq(Nat)]
        OBVIOUS
      <3>2. \A d \in Dirs : ~(top - Len(d) < 0)
        BY <1>2, <1>3
      <3> HIDE DEF h
      <3>3. good(0, h)
        BY <3>1, <3>2
      <3> HIDE DEF good
      <3> QED BY <2>1, <2>2, <3>3
    <2>3. CASE k # 0
      <3>1. k \in Nat /\ k - 1 \in Nat /\ k - 1 \notin Bad
        <4>1. k \in Nat /\ \A j \in Bad : k <= j
          BY <2>1
        <4> HIDE DEF Bad
        <4> QED BY <4>1, <2>3
      <3>2. PICK h : good(k - 1, h)
        BY <3>1
      <3> DEFINE next == [d \in Dirs |-> body(h, d)]
      <3>3. next \in [Dirs -> Seq(Nat)]
        BY <3>2, <1>6
      <3>4. ASSUME NEW d \in Dirs, top - Len(d) < k PROVE next[d] = body(next, d)
        <4>1. ASSUME NEW i \in 1..Len(E(d)), ~HangsIn(d, E(d)[i])
              PROVE  next[Toward(d, E(d)[i])] = h[Toward(d, E(d)[i])]
          <5> DEFINE c == Toward(d, E(d)[i])
          <5>1. c \in Dirs /\ Len(c) = Len(d) + 1
            BY <1>4, <4>1
          <5> HIDE DEF c
          <5>2. top - Len(c) < k - 1
            BY <5>1, <3>1, <3>4, <1>3
          <5>3. h[c] = body(h, c)
            BY <5>1, <5>2, <3>2
          <5> QED BY <5>1, <5>3 DEF c
        <4> HIDE DEF next
        <4>2. body(next, d) = body(h, d)
          BY <1>7, <4>1
        <4> QED BY <4>2 DEF next
      <3> HIDE DEF next
      <3>5. good(k, next)
        BY <3>3, <3>4
      <3> HIDE DEF good
      <3> QED BY <2>1, <3>5
    <2> QED BY <2>2, <2>3
  <1>9. PICK h : good(top + 1, h)
    <2>1. top + 1 \in Nat
      OBVIOUS
    <2> HIDE DEF good
    <2> QED BY <1>8, <2>1
  <1>10. h = [d \in Dirs |-> body(h, d)]
    <2>1. \A d \in Dirs : top - Len(d) < top + 1
      BY <1>3
    <2> QED BY <1>9, <2>1
  <1>11. leaves = [d \in Dirs |-> body(leaves, d)]
    BY <1>10
  <1> HIDE DEF leaves
  <1> DEFINE Good == {d \in Dirs : leaves[d] \in Seq(Nat)}
  <1>12. ASSUME NEW d \in Dirs,
                \A i \in 1..Len(Entries(files, d)) : ~HangsIn(d, Entries(files, d)[i]) =>
                  Toward(d, Entries(files, d)[i]) \in Good
         PROVE  d \in Good
    <2>1. FlattenSeq(Pieces(files, leaves, d)) \in Seq(Nat)
      BY <1>12, PiecesAre
    <2> QED BY <2>1, <1>11 DEF body
  <1>13. Good \in SUBSET Dirs
    OBVIOUS
  <1> HIDE DEF Good
  <1>14. Good = Dirs
    BY <1>12, <1>13, ByHeight
  <1>15. leaves \in [Dirs -> Seq(Nat)]
    BY <1>11, <1>14 DEF Good
  <1>16. \A d \in Dirs : leaves[d] = FlattenSeq(Pieces(files, leaves, d))
    BY <1>11 DEF body
  <1> QED BY <1>1, <1>15, <1>16

(* A listing of the files of S: each once, and in order when all of them   *)
(* are where their paths say.                                              *)
Listed(files, s, S) == /\ s \in Seq(Nat)
                       /\ Len(s) = Cardinality(S)
                       /\ Range(s) = S
                       /\ Tidy(files) => s = InOrder(S)

LEMMA ListedJoins ==
  ASSUME NEW files \in SUBSET Files, NEW A \in SUBSET files, NEW B \in SUBSET files,
         NEW s, NEW t, Listed(files, s, A), Listed(files, t, B), A \cap B = {},
         Tidy(files) => \A x \in A : \A y \in B : x < y
  PROVE  Listed(files, s \o t, A \union B)
  <1>1. /\ IsFiniteSet(A) /\ IsFiniteSet(B) /\ A \subseteq Nat /\ B \subseteq Nat
        /\ Cardinality(A) \in Nat /\ Cardinality(B) \in Nat
    <2>1. /\ IsFiniteSet(Files) /\ Files \subseteq Nat
          /\ A \in SUBSET Files /\ B \in SUBSET Files
      BY HandlersAssumption
    <2>2. IsFiniteSet(A) /\ IsFiniteSet(B)
      BY <2>1, FS_Subset
    <2> QED BY <2>1, <2>2, FS_CardinalityType
  <1>2. s \in Seq(Nat) /\ t \in Seq(Nat)
    BY DEF Listed
  <1>3. /\ s \o t \in Seq(Nat) /\ Len(s \o t) = Len(s) + Len(t)
        /\ \A i \in 1..(Len(s) + Len(t)) :
             (s \o t)[i] = IF i <= Len(s) THEN s[i] ELSE t[i - Len(s)]
    BY <1>2, ConcatProperties
  <1>4. Cardinality(A \union B) = Cardinality(A) + Cardinality(B)
    <2>1. Cardinality(A \union B) = Cardinality(A) + Cardinality(B) - Cardinality(A \cap B)
      BY <1>1, FS_Union
    <2>2. Cardinality(A \cap B) = 0
      BY FS_EmptySet
    <2> QED BY <1>1, <2>1, <2>2
  <1>5. Range(s \o t) = A \union B
    <2>1. /\ DOMAIN s = 1..Len(s) /\ DOMAIN t = 1..Len(t)
          /\ DOMAIN (s \o t) = 1..(Len(s) + Len(t))
          /\ Len(s) \in Nat /\ Len(t) \in Nat
      BY <1>2, <1>3
    <2>2. Range(s) = A /\ Range(t) = B
      BY DEF Listed
    <2>3. \A i \in 1..Len(s) : i \in 1..(Len(s) + Len(t)) /\ (s \o t)[i] = s[i]
      BY <1>3, <2>1
    <2>4. \A i \in 1..Len(t) : /\ i + Len(s) \in 1..(Len(s) + Len(t))
                               /\ (s \o t)[i + Len(s)] = t[i]
      <3> TAKE i \in 1..Len(t)
      <3>1. i + Len(s) \in 1..(Len(s) + Len(t)) /\ ~(i + Len(s) <= Len(s))
            /\ (i + Len(s)) - Len(s) = i
        BY <2>1
      <3> QED BY <3>1, <1>3
    <2>5. \A i \in 1..(Len(s) + Len(t)) :
            (i <= Len(s) => i \in 1..Len(s)) /\ (~(i <= Len(s)) => i - Len(s) \in 1..Len(t))
      BY <2>1
    <2>6. A \union B \subseteq Range(s \o t)
      BY <2>1, <2>2, <2>3, <2>4 DEF Range
    <2>7. ASSUME NEW i \in 1..(Len(s) + Len(t)) PROVE (s \o t)[i] \in A \union B
      BY <1>3, <2>1, <2>2, <2>5, <2>7 DEF Range
    <2> QED BY <2>1, <2>6, <2>7 DEF Range
  <1>6. ASSUME Tidy(files) PROVE s \o t = InOrder(A \union B)
    <2>1. s = InOrder(A) /\ t = InOrder(B)
      BY <1>6 DEF Listed
    <2> QED BY <1>1, <1>6, <2>1, InOrderJoins
  <1>7. Len(s) = Cardinality(A) /\ Len(t) = Cardinality(B)
    BY DEF Listed
  <1> QED BY <1>3, <1>4, <1>5, <1>6, <1>7 DEF Listed

(* The leaves of the tree below a directory are the files below it.        *)
LEMMA LeavesAre ==
  ASSUME call \in Calls, NEW files \in SUBSET Files, NEW top \in Dirs
  PROVE  Listed(files, Leaves(files, top), Under(files, top))
  <1>1. PICK leaves \in [Dirs -> Seq(Nat)] : \A d \in Dirs :
          /\ Leaves(files, d) = leaves[d]
          /\ leaves[d] = FlattenSeq(Pieces(files, leaves, d))
    BY LeavesUnfold
  <1> DEFINE Good == {d \in Dirs : Listed(files, leaves[d], Under(files, d))}
  <1>2. ASSUME NEW d \in Dirs,
               \A i \in 1..Len(Entries(files, d)) : ~HangsIn(d, Entries(files, d)[i]) =>
                 Toward(d, Entries(files, d)[i]) \in Good
        PROVE  d \in Good
    <2> DEFINE E == Entries(files, d)
               P == Pieces(files, leaves, d)
               n == Len(E)
               B(i) == Block(files, d, E[i])
               U(k) == {f \in files : \E i \in 1..k : f \in B(i)}
    <2>1. d \in Seq(STRING)
      BY DirsAre
    <2>2. /\ E \in Seq(Nat) /\ DOMAIN E = 1..n
          /\ \A i \in 1..n : E[i] \in Under(files, d)
          /\ \A f \in files : f \in Under(files, d) <=> \E i \in 1..n : f \in B(i)
          /\ \A i, j \in 1..n : i < j => B(i) \cap B(j) = {}
          /\ Tidy(files) => \A i, j \in 1..n : i < j => \A x \in B(i) : \A y \in B(j) : x < y
      BY <2>1, EntriesAre
    <2>3. n \in Nat
      <3> HIDE DEF E
      <3> QED BY <2>2
    <2>4. P \in Seq(Seq(Nat)) /\ Len(P) = n
      <3>1. \A i \in 1..n : ~HangsIn(d, E[i]) => leaves[Toward(d, E[i])] \in Seq(Nat)
        <4> HIDE DEF E
        <4> QED BY <1>2 DEF E
      <3> QED BY <3>1, PiecesAre
    <2>5. \A i \in 1..n : B(i) \in SUBSET files
      <3> TAKE i \in 1..n
      <3>1. E[i] \in files
        BY <2>2 DEF Under
      <3> HIDE DEF E
      <3> QED BY <3>1 DEF Block, Under
    <2>6. ASSUME NEW i \in 1..n PROVE Listed(files, P[i], B(i))
      <3>1. P[i] = IF HangsIn(d, E[i]) THEN <<E[i]>> ELSE leaves[Toward(d, E[i])]
        BY <2>2, <2>6 DEF Pieces
      <3> HIDE DEF P
      <3>2. CASE ~HangsIn(d, E[i])
        <4>1. Toward(d, E[i]) \in Good
          BY <1>2, <2>6, <3>2
        <4> QED BY <3>1, <3>2, <4>1 DEF Block
      <3>3. CASE HangsIn(d, E[i])
        <4> DEFINE e == E[i]
        <4>1. e \in Nat
          <5> HIDE DEF E
          <5> QED BY <2>2, <2>6
        <4>2. P[i] = <<e>> /\ B(i) = {e}
          BY <3>1, <3>3 DEF Block
        <4> HIDE DEF e, E
        <4>3. <<e>> \in Seq(Nat) /\ Len(<<e>>) = 1 /\ Range(<<e>>) = {e}
          BY <4>1 DEF Range
        <4>4. IsFiniteSet({e}) /\ Cardinality({e}) = 1 /\ {e} \subseteq Nat
          BY <4>1, FS_Singleton
        <4>5. <<e>> = InOrder({e})
          <5>1. /\ InOrder({e}) \in Seq(Nat) /\ Len(InOrder({e})) = 1
                /\ InOrder({e})[1] \in {e}
            <6> DEFINE S == {e}
            <6> HIDE DEF S
            <6>1. IsFiniteSet(S) /\ Cardinality(S) = 1 /\ S \subseteq Nat
              BY <4>4 DEF S
            <6>2. /\ InOrder(S) \in Seq(Nat) /\ Len(InOrder(S)) = Cardinality(S)
                  /\ \A k \in 1..Cardinality(S) : InOrder(S)[k] \in S
              BY <6>1, InOrderIs
            <6>3. 1 \in 1..Cardinality(S)
              BY <6>1
            <6> QED BY <6>1, <6>2, <6>3 DEF S
          <5>2. \A j \in 1..1 : <<e>>[j] = InOrder({e})[j]
            BY <5>1
          <5> QED BY <4>3, <5>1, <5>2, SeqEqual
        <4> QED BY <4>2, <4>3, <4>4, <4>5 DEF Listed
      <3> QED BY <3>2, <3>3
    <2> HIDE DEF P, E, B, n
    <2>7. PICK g : /\ g[0] = <<>>
                   /\ \A k \in 1..Len(P) : P[k] \in Seq(Nat) /\ g[k] = g[k - 1] \o P[k]
                   /\ FlattenSeq(P) = g[Len(P)]
      BY <2>4, FlattenRuns
    <2> DEFINE Bad == {k \in 0..n : ~Listed(files, g[k], U(k))}
    <2>8. ASSUME Bad # {} PROVE FALSE
      <3>1. Bad \in SUBSET Nat
        BY <2>3
      <3>2. PICK k \in Bad : \A j \in Bad : k <= j
        BY <2>8, <3>1, LeastNumber
      <3>3. k \in 0..n /\ ~Listed(files, g[k], U(k))
        BY <3>2
      <3>4. CASE k = 0
        <4>1. U(0) = {} /\ g[0] = <<>>
          BY <2>7
        <4>2. Cardinality({}) = 0 /\ IsFiniteSet({})
          BY FS_EmptySet
        <4>3. InOrder({}) = <<>>
          <5>1. InOrder({}) \in Seq(Nat) /\ Len(InOrder({})) = 0
            BY <4>2, InOrderIs
          <5> QED BY <5>1, EmptySeq
        <4>4. <<>> \in Seq(Nat) /\ Len(<<>>) = 0 /\ Range(<<>>) = {}
          BY DEF Range
        <4>5. Listed(files, <<>>, {})
          BY <4>2, <4>3, <4>4 DEF Listed
        <4> HIDE DEF U
        <4> QED BY <3>3, <3>4, <4>1, <4>5
      <3>5. CASE k # 0
        <4>1. k \in 1..n /\ k - 1 \in 0..n /\ ~(k <= k - 1) /\ k \in Nat
          BY <2>3, <3>3, <3>5
        <4>2. Listed(files, g[k - 1], U(k - 1))
          BY <3>2, <4>1
        <4>3. Listed(files, P[k], B(k)) /\ B(k) \in SUBSET files /\ U(k - 1) \in SUBSET files
          BY <2>5, <2>6, <4>1
        <4>4. \A i \in 1..(k - 1) : i \in 1..n /\ i < k /\ i \in 1..k
          BY <2>3, <4>1
        <4>5. \A i \in 1..k : i = k \/ i \in 1..(k - 1)
          BY <4>1
        <4>6. U(k) = U(k - 1) \union B(k)
          <5>1. k \in 1..k
            BY <4>1
          <5> QED BY <4>3, <4>4, <4>5, <5>1
        <4>7. U(k - 1) \cap B(k) = {}
          BY <2>2, <4>1, <4>4
        <4>8. Tidy(files) => \A x \in U(k - 1) : \A y \in B(k) : x < y
          BY <2>2, <4>1, <4>4
        <4>9. g[k] = g[k - 1] \o P[k]
          BY <2>4, <2>7, <4>1
        <4> HIDE DEF U
        <4>10. Listed(files, g[k - 1] \o P[k], U(k - 1) \union B(k))
          BY <4>2, <4>3, <4>7, <4>8, ListedJoins
        <4> QED BY <3>3, <4>6, <4>9, <4>10
      <3> QED BY <3>4, <3>5
    <2>9. Listed(files, g[n], U(n))
      <3>1. n \in 0..n
        BY <2>3
      <3> QED BY <2>8, <3>1
    <2>10. U(n) = Under(files, d)
      BY <2>2 DEF Under
    <2>11. leaves[d] = g[n]
      BY <1>1, <2>4, <2>7 DEF P
    <2> HIDE DEF U
    <2> QED BY <2>9, <2>10, <2>11
  <1>3. Good \in SUBSET Dirs
    OBVIOUS
  <1> HIDE DEF Good
  <1>4. Good = Dirs
    BY <1>2, <1>3, ByHeight
  <1> QED BY <1>1, <1>4 DEF Good

-----------------------------------------------------------------------------
(* What is kept of a tree's children: at most max, of one after the other. *)
Kept(h, d, max, s) ==
  FoldLeft(LAMBDA kept, f : IF Len(kept) >= max THEN kept
                            ELSE kept \o IF HangsIn(d, f) THEN <<f>>
                                         ELSE h[Toward(d, f)][max - Len(kept)], <<>>, s)

LEMMA KeptRuns ==
  ASSUME NEW s \in Seq(Nat), NEW h, NEW d, NEW max \in Nat,
         \A i \in 1..Len(s) : ~HangsIn(d, s[i]) =>
           \A m \in 1..max : h[Toward(d, s[i])][m] \in Seq(Nat)
  PROVE  \E g : /\ g[0] = <<>>
                /\ \A k \in 1..Len(s) :
                    g[k] = IF Len(g[k - 1]) >= max THEN g[k - 1]
                           ELSE g[k - 1] \o
                                  IF HangsIn(d, s[k]) THEN <<s[k]>>
                                  ELSE h[Toward(d, s[k])][max - Len(g[k - 1])]
                /\ Kept(h, d, max, s) = g[Len(s)]
  <1> DEFINE n == Len(s)
             V == Seq(Nat)
             part(c, k) == IF HangsIn(d, c) THEN <<c>> ELSE h[Toward(d, c)][k]
             more(v, c) == IF Len(v) >= max THEN v ELSE v \o part(c, max - Len(v))
             body(it, S) == IF S = {} THEN <<>> ELSE more(it[S \ {Max(S)}], s[Max(S)])
             it == CHOOSE it : it = [S \in SUBSET DOMAIN s |-> body(it, S)]
             step == [i \in 1..n |-> [v \in V |-> more(v, s[i])]]
  <1>1. n \in Nat /\ DOMAIN s = 1..n
    OBVIOUS
  <1>2. step \in [1..n -> [V -> V]] /\ <<>> \in V
    <2>1. ASSUME NEW i \in 1..n, NEW v \in V PROVE more(v, s[i]) \in V
      <3>1. Len(v) \in Nat /\ (~(Len(v) >= max) => max - Len(v) \in 1..max)
        OBVIOUS
      <3>2. ~(Len(v) >= max) => part(s[i], max - Len(v)) \in Seq(Nat)
        <4>1. s[i] \in Nat
          OBVIOUS
        <4>2. CASE HangsIn(d, s[i])
          BY <4>1, <4>2
        <4>3. CASE ~HangsIn(d, s[i])
          BY <3>1, <4>3
        <4> QED BY <4>2, <4>3
      <3> HIDE DEF part
      <3> QED BY <3>2
    <2> HIDE DEF more, n, V
    <2>2. step \in [1..n -> [V -> V]]
      BY <2>1
    <2> QED BY <2>2 DEF V
  <1>3. PICK f \in [SUBSET (1..n) -> V] : FoldOf(f, <<>>, step, 1..n)
    <2> HIDE DEF step, n, V
    <2> QED BY <1>1, <1>2, FoldExists
  <1>4. f = [S \in SUBSET DOMAIN s |-> body(f, S)]
    <2>1. ASSUME NEW S \in SUBSET (1..n) PROVE f[S] = body(f, S)
      <3>1. CASE S = {}
        BY <3>1, <1>3 DEF FoldOf
      <3>2. CASE S # {}
        <4>1. Max(S) \in 1..n /\ S \ {Max(S)} \in SUBSET (1..n)
          <5> HIDE DEF n
          <5> QED BY <1>1, <3>2, MaxIsIn
        <4>2. f[S \ {Max(S)}] \in V
          BY <1>3, <4>1
        <4>3. f[S] = step[Max(S)][f[S \ {Max(S)}]]
          BY <1>3, <3>2 DEF FoldOf
        <4>4. step[Max(S)][f[S \ {Max(S)}]] = more(f[S \ {Max(S)}], s[Max(S)])
          <5> HIDE DEF more, V, n
          <5> QED BY <4>1, <4>2
        <4> QED BY <3>2, <4>3, <4>4
      <3> QED BY <3>1, <3>2
    <2> HIDE DEF body
    <2> QED BY <2>1, <1>1, <1>3
  <1>5. it = [S \in SUBSET DOMAIN s |-> body(it, S)]
    <2> HIDE DEF body
    <2> QED BY <1>4
  <1>6. Kept(h, d, max, s) = it[DOMAIN s]
    BY DEF Kept, FoldLeft, MapThenFoldSet
  <1> HIDE DEF it
  <1>7. \A S \in SUBSET DOMAIN s : it[S] = body(it, S)
    <2> HIDE DEF body
    <2> QED BY <1>5
  <1>8. it[1..0] = <<>>
    <2>1. 1..0 = {}
      OBVIOUS
    <2> QED BY <2>1, <1>7
  <1>9. \A k \in 1..n : it[1..k] = more(it[1..(k - 1)], s[k])
    <2> TAKE k \in 1..n
    <2>1. /\ 1..k \in SUBSET DOMAIN s /\ 1..k # {}
          /\ Max(1..k) = k /\ (1..k) \ {k} = 1..(k - 1)
      <3> HIDE DEF n
      <3> QED BY <1>1, IntervalsShrink
    <2>2. it[1..k] = more(it[(1..k) \ {Max(1..k)}], s[Max(1..k)])
      <3> HIDE DEF more
      <3> QED BY <2>1, <1>7
    <2> HIDE DEF more
    <2> QED BY <2>1, <2>2
  <1> DEFINE g == [k \in 0..n |-> it[1..k]]
  <1>10. /\ 0 \in 0..n /\ n \in 0..n
         /\ \A k \in 1..n : k \in 0..n /\ k - 1 \in 0..n
    OBVIOUS
  <1>11. /\ g[0] = <<>> /\ g[n] = it[1..n]
         /\ \A k \in 1..n : g[k] = more(g[k - 1], s[k])
    <2> HIDE DEF n, more
    <2> QED BY <1>8, <1>9, <1>10
  <1>12. \A k \in 1..n : g[k] = IF Len(g[k - 1]) >= max THEN g[k - 1]
                               ELSE g[k - 1] \o part(s[k], max - Len(g[k - 1]))
    <2> HIDE DEF g, n, part
    <2> QED BY <1>11
  <1>13. Kept(h, d, max, s) = g[n]
    BY <1>1, <1>6, <1>11, Zenon
  <1> HIDE DEF g
  <1>14. g[0] = <<>>
    BY <1>11
  <1> QED BY <1>12, <1>13, <1>14, Zenon

(* ... and what is kept of them are the first max leaves, when h cuts the  *)
(* leaves of each.                                                         *)
LEMMA KeptIs ==
  ASSUME call \in Calls, NEW files \in SUBSET Files, NEW d \in Dirs,
         NEW leaves \in [Dirs -> Seq(Nat)], NEW h, NEW max \in Nat,
         \A i \in 1..Len(Entries(files, d)) : ~HangsIn(d, Entries(files, d)[i]) =>
           \A k \in 1..max : h[Toward(d, Entries(files, d)[i])][k]
                               = Take(k, leaves[Toward(d, Entries(files, d)[i])])
  PROVE  Kept(h, d, max, Entries(files, d))
           = Take(max, FlattenSeq(Pieces(files, leaves, d)))
  <1> DEFINE E == Entries(files, d)
             P == Pieces(files, leaves, d)
             m == Len(E)
             part(f, k) == IF HangsIn(d, f) THEN <<f>> ELSE h[Toward(d, f)][k]
  <1>1. /\ E \in Seq(Nat) /\ DOMAIN E = 1..m
        /\ \A i \in 1..m : ~HangsIn(d, E[i]) => Toward(d, E[i]) \in Dirs
    <2>1. d \in Seq(STRING)
      BY DirsAre
    <2> QED BY <2>1, EntriesAre
  <1>2. m \in Nat /\ \A k \in 1..m : E[k] \in Nat
    <2> HIDE DEF E
    <2> QED BY <1>1
  <1>3. /\ P \in Seq(Seq(Nat)) /\ Len(P) = m
        /\ \A k \in 1..m : P[k] \in Seq(Nat)
    <2>1. \A i \in 1..m : ~HangsIn(d, E[i]) => leaves[Toward(d, E[i])] \in Seq(Nat)
      <3> HIDE DEF E
      <3> QED BY <1>1
    <2>2. P \in Seq(Seq(Nat)) /\ Len(P) = m
      BY <2>1, PiecesAre
    <2> HIDE DEF P, E
    <2> QED BY <2>2
  <1>4. \A k \in 1..m : P[k] = IF HangsIn(d, E[k]) THEN <<E[k]>> ELSE leaves[Toward(d, E[k])]
    BY <1>1 DEF Pieces
  <1>5. \A k \in 1..m : ~HangsIn(d, E[k]) =>
          \A i \in 1..max : h[Toward(d, E[k])][i] = Take(i, leaves[Toward(d, E[k])])
    OBVIOUS
  <1> HIDE DEF E, P
  <1>6. \A k \in 1..m : \A i \in 1..max : part(E[k], i) = Take(i, P[k])
    <2> TAKE k \in 1..m
    <2> TAKE i \in 1..max
    <2>1. i \in Nat /\ 1 <= i
      OBVIOUS
    <2>2. CASE HangsIn(d, E[k])
      <3> DEFINE e == E[k]
      <3>1. <<e>> \in Seq(Nat) /\ Len(<<e>>) <= i
        BY <1>2, <2>1
      <3>2. Take(i, <<e>>) = <<e>>
        BY <2>1, <3>1, TakeAll
      <3> QED BY <1>4, <2>2, <3>2
    <2>3. CASE ~HangsIn(d, E[k])
      BY <1>4, <1>5, <2>3
    <2> QED BY <2>2, <2>3
  <1>7. PICK g : /\ g[0] = <<>>
                 /\ \A k \in 1..m :
                      g[k] = IF Len(g[k - 1]) >= max THEN g[k - 1]
                             ELSE g[k - 1] \o part(E[k], max - Len(g[k - 1]))
                 /\ Kept(h, d, max, E) = g[m]
    <2>1. \A k \in 1..m : ~HangsIn(d, E[k]) =>
            \A i \in 1..max : h[Toward(d, E[k])][i] \in Seq(Nat)
      <3> TAKE k \in 1..m
      <3> HAVE ~HangsIn(d, E[k])
      <3> TAKE i \in 1..max
      <3>1. i \in Nat /\ P[k] \in Seq(Nat) /\ h[Toward(d, E[k])][i] = Take(i, P[k])
        <4>1. P[k] = leaves[Toward(d, E[k])]
          BY <1>4
        <4>2. h[Toward(d, E[k])][i] = Take(i, leaves[Toward(d, E[k])])
          BY <1>5
        <4> QED BY <1>3, <4>1, <4>2
      <3>2. Take(i, P[k]) \in Seq(Nat)
        BY <3>1, TakeIs
      <3> QED BY <3>1, <3>2
    <2> QED BY <1>1, <2>1, KeptRuns, ZenonT(60)
  <1> HIDE DEF part
  <1>8. PICK l : /\ l[0] = <<>>
                 /\ \A k \in 0..m : l[k] \in Seq(Nat)
                 /\ \A k \in 1..m : l[k] = l[k - 1] \o P[k]
                 /\ FlattenSeq(P) = l[m]
    BY <1>3, FlattenRuns
  <1> DEFINE Bad == {k \in 0..m : g[k] # Take(max, l[k])}
  <1>9. ASSUME Bad # {} PROVE FALSE
    <2>1. Bad \in SUBSET Nat
      BY <1>2
    <2>2. PICK k \in Bad : \A j \in Bad : k <= j
      BY <1>9, <2>1, LeastNumber
    <2>3. k \in 0..m /\ g[k] # Take(max, l[k])
      BY <2>2
    <2>4. k # 0
      <3>1. <<>> \in Seq(Nat) /\ Len(<<>>) <= max
        OBVIOUS
      <3>2. Take(max, <<>>) = <<>>
        BY <3>1, TakeAll
      <3> QED BY <2>3, <3>2, <1>7, <1>8
    <2>5. k \in 1..m /\ k - 1 \in 0..m /\ ~(k <= k - 1)
      BY <1>2, <2>3, <2>4
    <2>6. g[k - 1] = Take(max, l[k - 1])
      BY <2>2, <2>5
    <2> DEFINE s == l[k - 1]
               t == P[k]
    <2>7. s \in Seq(Nat) /\ t \in Seq(Nat) /\ l[k] = s \o t /\ Len(s) \in Nat
      <3>1. s \in Seq(Nat) /\ t \in Seq(Nat)
        BY <2>5, <1>3, <1>8
      <3>2. l[k] = s \o t
        BY <2>5, <1>8
      <3> HIDE DEF s, t
      <3> QED BY <3>1, <3>2
    <2> HIDE DEF s, t
    <2>8. g[k - 1] = Take(max, s)
      BY <2>6 DEF s
    <2>9. /\ Take(max, s) \in Seq(Nat)
          /\ Len(Take(max, s)) = IF Len(s) <= max THEN Len(s) ELSE max
      BY <2>7, TakeIs
    <2>10. Take(max, s \o t) = IF Len(s) >= max THEN Take(max, s)
                               ELSE s \o Take(max - Len(s), t)
      BY <2>7, TakeJoins
    <2>11. CASE Len(s) >= max
      <3>1. Len(g[k - 1]) >= max
        BY <2>7, <2>8, <2>9, <2>11
      <3>2. g[k] = g[k - 1]
        BY <2>5, <3>1, <1>7
      <3> QED BY <2>3, <2>7, <2>8, <2>10, <2>11, <3>2
    <2>12. CASE ~(Len(s) >= max)
      <3>1. Take(max, s) = s
        BY <2>7, <2>12, TakeAll
      <3>2. g[k] = s \o part(E[k], max - Len(s))
        BY <2>5, <2>8, <3>1, <2>12, <1>7
      <3>3. max - Len(s) \in 1..max
        BY <2>7, <2>12
      <3>4. part(E[k], max - Len(s)) = Take(max - Len(s), t)
        BY <2>5, <3>3, <1>6 DEF t
      <3> QED BY <2>3, <2>7, <2>10, <2>12, <3>2, <3>4
    <2> QED BY <2>11, <2>12
  <1>10. m \in 0..m
    BY <1>2
  <1>11. g[m] = Take(max, l[m])
    BY <1>9, <1>10
  <1> QED BY <1>7, <1>8, <1>11 DEF E, P

(* trimFileTree keeps the first leaves below a directory.                  *)
LEMMA TrimIs ==
  ASSUME call \in Calls, NEW files \in SUBSET Files, NEW top \in Dirs,
         NEW most \in Nat \ {0}
  PROVE  TrimFileTree(files, top, most) = Take(most, Leaves(files, top))
  <1> DEFINE body(h, d) ==
               [max \in 1..most |->
                  IF Len(Leaves(files, d)) <= max THEN Leaves(files, d)
                  ELSE Kept(h, d, max, Entries(files, d))]
             trim == CHOOSE h : h = [d \in Dirs |-> body(h, d)]
             T == [d \in Dirs |-> [max \in 1..most |-> Take(max, Leaves(files, d))]]
  <1>1. TrimFileTree(files, top, most) = trim[top][most]
    BY DEF TrimFileTree, Kept
  <1>2. PICK leaves \in [Dirs -> Seq(Nat)] : \A d \in Dirs :
          /\ Leaves(files, d) = leaves[d]
          /\ leaves[d] = FlattenSeq(Pieces(files, leaves, d))
    BY LeavesUnfold
  <1>3. \A d \in Dirs : \A i \in 1..Len(Entries(files, d)) :
          ~HangsIn(d, Entries(files, d)[i]) => Toward(d, Entries(files, d)[i]) \in Dirs
    <2> TAKE d \in Dirs
    <2>1. d \in Seq(STRING)
      BY DirsAre
    <2> QED BY <2>1, EntriesAre
  <1>4. \A h : \A d \in Dirs :
          (\A i \in 1..Len(Entries(files, d)) : ~HangsIn(d, Entries(files, d)[i]) =>
             \A k \in 1..most : h[Toward(d, Entries(files, d)[i])][k]
                                  = T[Toward(d, Entries(files, d)[i])][k])
          => body(h, d) = T[d]
    <2> TAKE h
    <2> TAKE d \in Dirs
    <2> HAVE \A i \in 1..Len(Entries(files, d)) : ~HangsIn(d, Entries(files, d)[i]) =>
               \A k \in 1..most : h[Toward(d, Entries(files, d)[i])][k]
                                    = T[Toward(d, Entries(files, d)[i])][k]
    <2>1. Leaves(files, d) = leaves[d] /\ leaves[d] \in Seq(Nat)
      BY <1>2
    <2>2. \A max \in 1..most :
            (IF Len(Leaves(files, d)) <= max THEN Leaves(files, d)
             ELSE Kept(h, d, max, Entries(files, d))) = Take(max, Leaves(files, d))
      <3> TAKE max \in 1..most
      <3>0. max \in Nat
        OBVIOUS
      <3>1. CASE Len(Leaves(files, d)) <= max
        BY <3>0, <3>1, <2>1, TakeAll
      <3>2. CASE ~(Len(Leaves(files, d)) <= max)
        <4>1. \A k \in 1..max : k \in 1..most
          OBVIOUS
        <4>2. \A i \in 1..Len(Entries(files, d)) : ~HangsIn(d, Entries(files, d)[i]) =>
                \A k \in 1..max : h[Toward(d, Entries(files, d)[i])][k]
                                    = Take(k, leaves[Toward(d, Entries(files, d)[i])])
          <5> TAKE i \in 1..Len(Entries(files, d))
          <5> HAVE ~HangsIn(d, Entries(files, d)[i])
          <5> TAKE k \in 1..max
          <5> DEFINE c == Toward(d, Entries(files, d)[i])
          <5>1. c \in Dirs /\ k \in 1..most
            BY <1>3, <4>1
          <5>2. h[c][k] = T[c][k]
            BY <5>1
          <5> HIDE DEF c
          <5>3. T[c][k] = Take(k, Leaves(files, c)) /\ Leaves(files, c) = leaves[c]
            BY <1>2, <5>1
          <5> QED BY <5>2, <5>3 DEF c
        <4>3. Kept(h, d, max, Entries(files, d))
                = Take(max, FlattenSeq(Pieces(files, leaves, d)))
          BY <3>0, <4>2, KeptIs
        <4> QED BY <1>2, <3>2, <4>3
      <3> QED BY <3>1, <3>2
    <2> QED BY <2>2
  <1> HIDE DEF body
  <1>5. T = [d \in Dirs |-> body(T, d)]
    <2>1. \A d \in Dirs : body(T, d) = T[d]
      BY <1>4
    <2>2. T = [d \in Dirs |-> T[d]]
      OBVIOUS
    <2> HIDE DEF T
    <2> QED BY <2>1, <2>2
  <1>6. T[top][most] = Take(most, Leaves(files, top))
    OBVIOUS
  <1> HIDE DEF T
  <1>7. trim = [d \in Dirs |-> body(trim, d)]
    BY <1>5
  <1> HIDE DEF trim
  <1> DEFINE Good == {d \in Dirs : \A k \in 1..most : trim[d][k] = T[d][k]}
  <1>8. ASSUME NEW d \in Dirs,
               \A i \in 1..Len(Entries(files, d)) : ~HangsIn(d, Entries(files, d)[i]) =>
                 Toward(d, Entries(files, d)[i]) \in Good
        PROVE  d \in Good
    <2>1. body(trim, d) = T[d]
      BY <1>4, <1>8
    <2>2. trim[d] = body(trim, d)
      BY <1>7
    <2> QED BY <2>1, <2>2
  <1>9. Good \in SUBSET Dirs
    OBVIOUS
  <1>10. most \in 1..most
    OBVIOUS
  <1> HIDE DEF Good
  <1>11. Good = Dirs
    BY <1>8, <1>9, ByHeight
  <1> QED BY <1>1, <1>6, <1>10, <1>11 DEF Good

-----------------------------------------------------------------------------
(* The steps of list_files.                                               *)

(* list_files asks for the files once, and answers with their tree or with *)
(* the one file the path names.                                            *)
Treeing ==
  /\ TrimKeepsTheHead
  /\ call.tool = "list_files" => /\ pc \in {"called", "tree", "done"}
                                 /\ pc # "done" => row = None

LEMMA InitTreeing == Init => Treeing
  BY DEF Init, Called, Treeing, TrimKeepsTheHead

LEMMA ListFilesTrims ==
  ASSUME call \in Calls, ListFiles
  PROVE  /\ Len(row') = Cardinality(found') /\ Range(row') = found'
         /\ items' = SubSeq(row', 1, Shown(Len(row')))
         /\ (\A f \in found' : IsStrictPrefix(call.path, PathOf[f])) => row' = InOrder(found')
  <1> DEFINE files == FilesUnder(Rows, call.path, call.depth)
             s == Leaves(files, call.path)
             n == Len(s)
             most == Shown(n)
  <1>1. /\ found' = files /\ row' = s
        /\ items' = IF most < n THEN TrimFileTree(files, call.path, most) ELSE s
    BY DEF ListFiles
  <1>2. call.path \in Dirs /\ call.head \in Int
    BY HandlersAssumption DEF Dirs
  <1>3. files \in SUBSET Files
    BY DEF FilesUnder, Rows, Indexed
  <1>4. \A x : Shown(x) = IF call.head <= 0 \/ x <= call.head THEN x ELSE call.head
    BY DEF Shown
  <1> HIDE DEF files
  <1>5. Under(files, call.path) = files
    BY <1>3, PlacesAre DEF Under
  <1>6. Listed(files, s, files)
    BY <1>2, <1>3, <1>5, LeavesAre
  <1>7. s \in Seq(Nat) /\ Len(s) = Cardinality(files) /\ Range(s) = files
    BY <1>6 DEF Listed
  <1>8. (\A f \in files : IsStrictPrefix(call.path, PathOf[f])) => Tidy(files)
    BY DEF Tidy, At, Place
  <1>9. most < n => TrimFileTree(files, call.path, most) = Take(most, s)
    <2> HAVE most < n
    <2>1. most \in Nat \ {0}
      <3> HIDE DEF s
      <3> QED BY <1>2, <1>4, <1>7
    <2> HIDE DEF most
    <2> QED BY <1>2, <1>3, <2>1, TrimIs
  <1>10. (\A f \in files : IsStrictPrefix(call.path, PathOf[f])) => s = InOrder(files)
    BY <1>6, <1>8 DEF Listed
  <1> HIDE DEF s
  <1>11. most \in Nat /\ most <= n
    BY <1>2, <1>4, <1>7
  <1>12. CASE most < n
    <2>1. Take(most, s) = SubSeq(s, 1, most)
      BY <1>7, <1>11, <1>12 DEF Take
    <2> HIDE DEF most
    <2> QED BY <1>1, <1>7, <1>9, <1>10, <1>12, <2>1 DEF most
  <1>13. CASE ~(most < n)
    <2>1. most = n
      BY <1>7, <1>11, <1>13
    <2>2. Take(n, s) = s
      BY <1>7, TakeAll
    <2>3. Take(n, s) = SubSeq(s, 1, n)
      BY <1>7 DEF Take
    <2> HIDE DEF most
    <2> QED BY <1>1, <1>7, <1>10, <1>13, <2>1, <2>2, <2>3 DEF most
  <1> QED BY <1>12, <1>13

LEMMA ListFilesTreeing ==
  ASSUME call \in Calls, Treeing, ListFiles
  PROVE  Treeing'
  <1>1. call' = call /\ pc' = "done"
    BY DEF ListFiles, Answer, Keeps
  <1>2. /\ Len(row') = Cardinality(found') /\ Range(row') = found'
        /\ items' = SubSeq(row', 1, Shown(Len(row')))
        /\ (\A f \in found' : IsStrictPrefix(call.path, PathOf[f])) => row' = InOrder(found')
    BY ListFilesTrims
  <1>3. Shown(Len(row')) = Shown(Len(row))'
    BY <1>1 DEF Shown
  <1>4. InOrder(found') = InOrder(found)'
    BY DEF InOrder
  <1> QED BY <1>1, <1>2, <1>3, <1>4 DEF Treeing, TrimKeepsTheHead

LEMMA StepTreeing ==
  ASSUME Inv, Treeing, [Next]_vars
  PROVE  Treeing'
  <1>1. call' = call
    BY DEF Next, Step, vars, results, Edit, Reindex, Keeps,
           AnswerOneQuery, StartListFile, ResolveOutline, ResolveSuffix, Outline,
           StartGetSymbol, FindSource, ReadSource, StartListPackage, ResolvePackageID,
           ListPackage, StartTypeHierarchy, ListMembers, ListImplementers, StartListFiles,
           ListFiles, StartShowChanges, ReadDirectory, FinishDiff, Visit
  <1>2. CASE call.tool # "list_files"
    BY <1>1, <1>2 DEF Treeing, TrimKeepsTheHead
  <1>3. CASE call.tool = "list_files"
    <2>1. ASSUME UNCHANGED <<call, pc, answer, found, row, items>> PROVE Treeing'
      <3>1. Shown(Len(row))' = Shown(Len(row))
        BY <2>1 DEF Shown
      <3>2. InOrder(found)' = InOrder(found)
        BY <2>1 DEF InOrder
      <3> QED BY <2>1, <3>1, <3>2 DEF Treeing, TrimKeepsTheHead
    <2>2. CASE UNCHANGED vars \/ \E f \in Files : Edit(f) \/ Reindex(f)
      BY <2>1, <2>2 DEF Edit, Reindex, vars, results
    <2>3. CASE StartListFiles
      BY <2>3, <1>3 DEF Treeing, TrimKeepsTheHead, StartListFiles, Answer, Waits, Keeps
    <2>4. CASE ListFiles
      BY <2>4, ListFilesTreeing DEF Inv, Talk
    <2>5. pc \in {"called", "tree", "done"}
      BY <1>3 DEF Treeing
    <2>6. /\ ~AnswerOneQuery /\ ~StartListFile /\ ~ResolveOutline /\ ~ResolveSuffix
          /\ ~Outline /\ ~StartGetSymbol /\ ~FindSource /\ ~ReadSource
          /\ ~StartListPackage /\ ~ResolvePackageID /\ ~ListPackage
          /\ ~StartTypeHierarchy /\ ~ListMembers /\ ~ListImplementers
          /\ ~StartShowChanges /\ ~ReadDirectory /\ ~FinishDiff
          /\ \A f \in Files : ~Visit(f)
      BY <1>3, <2>5
      DEF AnswerOneQuery, OneQueryTools, StartListFile, ResolveOutline, ResolveSuffix,
          Outline, StartGetSymbol, FindSource, ReadSource, StartListPackage,
          ResolvePackageID, ListPackage, StartTypeHierarchy, ListMembers, ListImplementers,
          StartShowChanges, ReadDirectory, FinishDiff, Visit
    <2> QED BY <2>2, <2>3, <2>4, <2>6 DEF Next, Step
  <1> QED BY <1>2, <1>3

-----------------------------------------------------------------------------
(* The theorems.                                                           *)

(* list_file stops the program in one case only, whatever is edited or     *)
(* committed between its queries: several files end with the path it was   *)
(* asked for, and the one FileOutline settles on has no symbols            *)
(* (read.go:188).                                                          *)
THEOREM OnePanic == Spec => []OnlyEmptyMatchesPanic
  <1>1. Inv => OnlyEmptyMatchesPanic
    BY DEF Inv
  <1> QED BY <1>1, Invariance, PTL

(* What get_symbol cuts out of a file is in it, however stale the index is *)
(* (slice.go:39), and is the symbol itself when the index is not.          *)
THEOREM BodiesAreRight == Spec => []BodyIsTheSymbol
  <1>1. Inv => BodyIsTheSymbol
    BY DEF Inv
  <1> QED BY <1>1, Invariance, PTL

(* show_changes puts each file in the bucket it belongs to, and shows no   *)
(* more than its cap (diff.go:44, read.go).                                *)
THEOREM BucketsRight == Spec => []BucketsAreExact
  <1>1. Inv => BucketsAreExact
    BY DEF Inv
  <1> QED BY <1>1, Invariance, PTL

(* The tree list_files returns has each file its query found once, those   *)
(* that only share the prefix's letters (tree.go:50) included, wherever    *)
(* the tree hangs them (tree.go:116).  Under a cap it keeps the first ones *)
(* as the tree lists them (trimFileTree, read.go), and that is the path    *)
(* order when all of them lie below the directory that was asked for.      *)
THEOREM TrimsKeepTheHead == Spec => []TrimKeepsTheHead
  <1>1. Init => Inv /\ Treeing
    BY InitInv, InitTreeing
  <1>2. Inv /\ Treeing /\ [Next]_vars => (Inv /\ Treeing)'
    BY StepInv, StepTreeing
  <1>3. Treeing => TrimKeepsTheHead
    BY DEF Treeing
  <1> QED BY <1>1, <1>2, <1>3, PTL DEF Spec
=============================================================================
