------------------------ MODULE TorrentFilesProofs ------------------------
(***************************************************************************)
(* Proofs about TorrentFiles, for any number of files and pieces, any names*)
(* and any settings, events and alerts that wait.                          *)
(*                                                                         *)
(* In order: sequences; type correctness; the renames that are counted     *)
(* (CountInv); the names of files (PathsInv); the wanted pieces            *)
(* (WishesInv); the pieces that are known and the files that are known     *)
(* complete (PiecesInv: PiecesHold, StatusHolds and CompletedHold).        *)
(***************************************************************************)
EXTENDS TorrentFiles, FiniteSetTheorems, FunctionTheorems, SequenceTheorems, TLAPS
-----------------------------------------------------------------------------
(* Sequences: where their elements go, and how many are of a kind.         *)

Positions(s, P) == {i \in DOMAIN s : s[i] \in P}
Number(s, P) == Cardinality(Positions(s, P))

LEMMA Elements ==
    ASSUME NEW S, NEW s \in Seq(S)
    PROVE  /\ Len(s) \in Nat /\ DOMAIN s = 1 .. Len(s)
           /\ \A i \in DOMAIN s : s[i] \in S
OBVIOUS

LEMMA Appended ==
    ASSUME NEW S, NEW s \in Seq(S), NEW e \in S
    PROVE  /\ Append(s, e) \in Seq(S)
           /\ DOMAIN Append(s, e) = DOMAIN s \union {Len(s) + 1}
           /\ \A i \in DOMAIN s : Append(s, e)[i] = s[i] /\ i # Len(s) + 1 /\ i < Len(s) + 1
           /\ Append(s, e)[Len(s) + 1] = e
<1>1. Append(s, e) \in Seq(S) /\ Len(Append(s, e)) = Len(s) + 1
  BY AppendProperties
<1>2. DOMAIN Append(s, e) = 1 .. Len(s) + 1 /\ DOMAIN s = 1 .. Len(s) /\ Len(s) \in Nat
  BY <1>1, Elements
<1> QED BY <1>1, <1>2, AppendProperties

LEMMA Rest ==
    ASSUME NEW S, NEW s \in Seq(S), s # <<>>
    PROVE  /\ Tail(s) \in Seq(S) /\ Head(s) \in S /\ Head(s) = s[1] /\ 1 \in DOMAIN s
           /\ \A i \in DOMAIN Tail(s) : i + 1 \in DOMAIN s /\ i + 1 > 1 /\ Tail(s)[i] = s[i + 1]
           /\ \A i \in DOMAIN s : i # 1 => i - 1 \in DOMAIN Tail(s) /\ Tail(s)[i - 1] = s[i]
<1>1. Tail(s) \in Seq(S) /\ Len(Tail(s)) = Len(s) - 1 /\ Head(s) \in S
  BY HeadTailProperties
<1>2. DOMAIN Tail(s) = 1 .. Len(s) - 1 /\ DOMAIN s = 1 .. Len(s) /\ Len(s) \in Nat \ {0}
  BY <1>1, Elements, EmptySeq
<1>3. Head(s) = s[1]
  OBVIOUS
<1> QED BY <1>1, <1>2, <1>3, HeadTailProperties

LEMMA Joined ==
    ASSUME NEW S, NEW s \in Seq(S), NEW u \in Seq(S)
    PROVE  /\ s \o u \in Seq(S)
           /\ \A i \in DOMAIN (s \o u) : \/ i \in DOMAIN s
                                         \/ i > Len(s) /\ i - Len(s) \in DOMAIN u
           /\ \A i \in DOMAIN s : i \in DOMAIN (s \o u) /\ (s \o u)[i] = s[i] /\ i <= Len(s)
           /\ \A i \in DOMAIN u : i + Len(s) \in DOMAIN (s \o u) /\ (s \o u)[i + Len(s)] = u[i]
                                  /\ i + Len(s) > Len(s)
<1>1. s \o u \in Seq(S) /\ Len(s \o u) = Len(s) + Len(u)
  BY ConcatProperties
<1>2. DOMAIN (s \o u) = 1 .. Len(s) + Len(u) /\ DOMAIN s = 1 .. Len(s) /\ DOMAIN u = 1 .. Len(u)
      /\ Len(s) \in Nat /\ Len(u) \in Nat
  BY <1>1, Elements
<1>3. \A i \in 1 .. Len(s) + Len(u) :
         (s \o u)[i] = IF i <= Len(s) THEN s[i] ELSE u[i - Len(s)]
  BY ConcatProperties
<1>4. \A i \in DOMAIN s : i \in DOMAIN (s \o u) /\ (s \o u)[i] = s[i] /\ i <= Len(s)
  BY <1>2, <1>3
<1>5. ASSUME NEW i \in DOMAIN u
      PROVE  i + Len(s) \in DOMAIN (s \o u) /\ (s \o u)[i + Len(s)] = u[i] /\ i + Len(s) > Len(s)
  <2>1. i + Len(s) \in 1 .. Len(s) + Len(u) /\ ~(i + Len(s) <= Len(s)) /\ (i + Len(s)) - Len(s) = i
    BY <1>2
  <2> QED BY <1>2, <1>3, <2>1
<1> QED BY <1>1, <1>2, <1>4, <1>5

LEMMA PositionsFinite ==
    ASSUME NEW S, NEW s \in Seq(S), NEW P
    PROVE  /\ IsFiniteSet(Positions(s, P)) /\ Number(s, P) \in Nat
           /\ Number(s, P) = 0 <=> \A i \in DOMAIN s : s[i] \notin P
<1>1. IsFiniteSet(DOMAIN s)
  BY Elements, FS_Interval
<1>2. IsFiniteSet(Positions(s, P))
  BY <1>1, FS_Subset DEF Positions
<1> QED BY <1>2, FS_CardinalityType, FS_EmptySet DEF Number, Positions

LEMMA NumberEmpty == \A P : Number(<<>>, P) = 0
<1>1. \A P : Positions(<<>>, P) = {}
  BY DEF Positions
<1> QED BY <1>1, FS_EmptySet DEF Number

LEMMA NumberAppended ==
    ASSUME NEW S, NEW s \in Seq(S), NEW e \in S, NEW P
    PROVE  Number(Append(s, e), P) = Number(s, P) + IF e \in P THEN 1 ELSE 0
<1>1. CASE e \in P
  <2>1. Positions(Append(s, e), P) = Positions(s, P) \cup {Len(s) + 1}
    BY <1>1, Appended DEF Positions
  <2>2. Len(s) + 1 \notin Positions(s, P)
    BY Appended DEF Positions
  <2> QED BY <1>1, <2>1, <2>2, PositionsFinite, FS_AddElement DEF Number
<1>2. CASE e \notin P
  <2>1. Positions(Append(s, e), P) = Positions(s, P)
    BY <1>2, Appended DEF Positions
  <2> QED BY <1>2, <2>1, PositionsFinite DEF Number
<1> QED BY <1>1, <1>2

(* A set of numbers has as many elements as the set moved on by k.         *)
LEMMA Moved ==
    ASSUME NEW X \in SUBSET Int, IsFiniteSet(X), NEW Y, NEW k \in Int,
           Y = {x + k : x \in X}
    PROVE  IsFiniteSet(Y) /\ Cardinality(Y) = Cardinality(X)
<1> DEFINE f == [x \in X |-> x + k]
<1>1. f \in [X -> Y]
  OBVIOUS
<1>2. \A x, y \in X : f[x] = f[y] => x = y
  OBVIOUS
<1>3. \A y \in Y : \E x \in X : f[x] = y
  OBVIOUS
<1>4. f \in Bijection(X, Y)
  BY <1>1, <1>2, <1>3, Fun_IsBij
<1> HIDE DEF f
<1>5. ExistsBijection(X, Y)
  BY <1>4, Fun_ExistsBij
<1> QED BY <1>5, FS_Bijection

LEMMA NumberRest ==
    ASSUME NEW S, NEW s \in Seq(S), s # <<>>, NEW P
    PROVE  Number(s, P) = Number(Tail(s), P) + IF Head(s) \in P THEN 1 ELSE 0
<1> DEFINE X == Positions(Tail(s), P)
           one == 1
           Y == {x + one : x \in X}
<1>1. IsFiniteSet(X) /\ X \subseteq Int
  <2>1. Tail(s) \in Seq(S)
    BY Rest
  <2>2. IsFiniteSet(X)
    BY <2>1, PositionsFinite
  <2>3. DOMAIN Tail(s) \subseteq Int
    BY <2>1, Elements
  <2> QED BY <2>2, <2>3 DEF Positions
<1>2. IsFiniteSet(Y) /\ Cardinality(Y) = Cardinality(X)
  <2>1. one \in Int
    OBVIOUS
  <2> HIDE DEF X, one
  <2> QED BY <1>1, <2>1, Moved
<1>3. \A i \in X : i + 1 \in Positions(s, P) /\ i + 1 # 1
  BY Rest, Elements DEF Positions
<1>4. \A i \in Positions(s, P) : i # 1 => i - 1 \in X /\ (i - 1) + 1 = i
  BY Rest, Elements DEF Positions
<1>5. 1 \in Positions(s, P) <=> Head(s) \in P
  BY Rest DEF Positions
<1>6. 1 \notin Y
  BY <1>3
<1>7. \A i \in Positions(s, P) : i = 1 \/ i \in Y
  BY <1>4
<1>8. \A i \in Y : i \in Positions(s, P)
  BY <1>3
<1> HIDE DEF X, Y
<1>9. CASE Head(s) \in P
  <2>1. Positions(s, P) = Y \cup {1}
    BY <1>5, <1>7, <1>8, <1>9
  <2>2. Cardinality(Positions(s, P)) = Cardinality(Y) + 1
    BY <1>2, <1>6, <2>1, FS_AddElement
  <2> QED BY <1>2, <1>9, <2>2 DEF Number, X
<1>10. CASE Head(s) \notin P
  <2>1. Positions(s, P) = Y
    BY <1>5, <1>7, <1>8, <1>10
  <2>2. Cardinality(X) \in Nat
    BY <1>1, FS_CardinalityType
  <2> QED BY <1>2, <1>10, <2>1, <2>2 DEF Number, X
<1> QED BY <1>9, <1>10

LEMMA NumberJoined ==
    ASSUME NEW S, NEW s \in Seq(S), NEW u \in Seq(S), NEW P
    PROVE  Number(s \o u, P) = Number(s, P) + Number(u, P)
<1> DEFINE X == Positions(u, P)
           Y == {x + Len(s) : x \in X}
           Z == Positions(s, P)
<1>1. IsFiniteSet(X) /\ X \subseteq Int /\ IsFiniteSet(Z) /\ Len(s) \in Int
  <2>1. IsFiniteSet(X) /\ IsFiniteSet(Z)
    BY PositionsFinite
  <2>2. DOMAIN u \subseteq Int /\ Len(s) \in Int
    BY Elements
  <2> QED BY <2>1, <2>2 DEF Positions
<1>2. IsFiniteSet(Y) /\ Cardinality(Y) = Cardinality(X)
  <2> HIDE DEF X
  <2> QED BY <1>1, Moved
<1>3. Positions(s \o u, P) = Z \cup Y
  <2>1. \A i \in Y : i \in Positions(s \o u, P)
    BY Joined DEF Positions
  <2>2. \A i \in Z : i \in Positions(s \o u, P)
    BY Joined DEF Positions
  <2>3. ASSUME NEW i \in Positions(s \o u, P), i \notin DOMAIN s
        PROVE  i \in Y
    <3>1. i - Len(s) \in DOMAIN u /\ (s \o u)[i] \in P
      BY <2>3, Joined DEF Positions
    <3>2. (i - Len(s)) + Len(s) = i
      BY <1>1, <2>3, Joined, Elements DEF Positions
    <3> QED BY <3>1, <3>2, Joined DEF Positions
  <2>4. \A i \in Positions(s \o u, P) : i \in DOMAIN s => i \in Z
    BY Joined DEF Positions
  <2>5. Positions(s \o u, P) \subseteq Z \cup Y
    BY <2>3, <2>4
  <2> QED BY <2>1, <2>2, <2>5
<1>4. Z \cap Y = {}
  <2>1. \A i \in Z : i <= Len(s)
    BY Joined DEF Positions
  <2>2. \A i \in Y : i > Len(s)
    BY Joined DEF Positions
  <2>3. \A i \in Z : ~(i > Len(s))
    <3>1. \A i \in Z : i \in Int
      BY Elements DEF Positions
    <3> QED BY <1>1, <2>1, <3>1
  <2> QED BY <2>2, <2>3
<1> HIDE DEF X, Y, Z
<1>5. Cardinality(Z \cup Y) = Cardinality(Z) + Cardinality(Y)
  <2>1. Cardinality(Z \cup Y) = Cardinality(Z) + Cardinality(Y) - Cardinality(Z \cap Y)
    BY <1>1, <1>2, FS_Union
  <2>2. Cardinality(Z \cap Y) = 0
    BY <1>4, FS_EmptySet
  <2>3. Cardinality(Z) \in Nat /\ Cardinality(Y) \in Nat
    BY <1>1, <1>2, FS_CardinalityType
  <2> QED BY <2>1, <2>2, <2>3
<1> QED BY <1>2, <1>3, <1>5 DEF Number, X, Z

LEMMA NumberAll ==
    ASSUME NEW S, NEW s \in Seq(S), NEW P, \A i \in DOMAIN s : s[i] \in P
    PROVE  Number(s, P) = Len(s)
<1>1. Positions(s, P) = 1 .. Len(s)
  BY Elements DEF Positions
<1> QED BY <1>1, Elements, FS_Interval DEF Number

(* SetToSeq lists every element of a finite set.                           *)
LEMMA Listed ==
    ASSUME NEW S, IsFiniteSet(S)
    PROVE  /\ SetToSeq(S) \in Seq(S) /\ Len(SetToSeq(S)) = Cardinality(S)
           /\ \A e \in S : \E i \in DOMAIN SetToSeq(S) : SetToSeq(S)[i] = e
<1> DEFINE n == Cardinality(S)
           L == SetToSeq(S)
<1>1. n \in Nat /\ ExistsBijection(1 .. n, S)
  BY FS_CardinalityType
<1>2. PICK f : f \in Bijection(1 .. n, S)
  BY <1>1, Fun_ExistsBij
<1>3. f \in [1 .. n -> S] /\ IsInjective(f)
  BY <1>2 DEF Bijection, Injection
<1>4. L \in [1 .. n -> S] /\ IsInjective(L)
  BY <1>3 DEF SetToSeq
<1>5. L \in Injection(1 .. n, S)
  BY <1>4 DEF Injection
<1>6. IsFiniteSet(1 .. n) /\ Cardinality(1 .. n) = n
  BY <1>1, FS_Interval
<1>7. L \in Surjection(1 .. n, S)
  BY <1>5, <1>6, FS_Injection
<1>8. \A e \in S : \E i \in 1 .. n : L[i] = e
  BY <1>7 DEF Surjection
<1> HIDE DEF L
<1>9. L \in Seq(S) /\ Len(L) = n
  BY <1>1, <1>4
<1> QED BY <1>4, <1>8, <1>9 DEF L

-----------------------------------------------------------------------------
(* Records.                                                                *)

DiskName == [path : Path, ext : BOOLEAN]

LEMMA TorrentParts ==
    ASSUME NEW s \in TorrentImpl
    PROVE  /\ s.params \in Params /\ s.paths \in [File -> Path] /\ s.prios \in Priorities
           /\ s.completed \in SUBSET File /\ s.progress \in [Piece -> Nat]
           /\ s.pieces \in SUBSET Piece /\ s.status \in Status
           /\ s.finished \in BOOLEAN /\ s.unchecked \in BOOLEAN /\ s.firstLast \in BOOLEAN
           /\ s.renames \in Int /\ s.triggers \in Seq(Trigger) /\ s.announcing \in Nat
BY DEF TorrentImpl

LEMMA ParamsParts ==
    ASSUME NEW p \in Params
    PROVE  p.renamed \in [File -> Path \union {NoPath}] /\ p.prios \in Priorities
BY DEF Params

LEMMA StatusParts ==
    ASSUME NEW st \in Status
    PROVE  /\ st.have \in SUBSET Piece /\ st.done \in BOOLEAN /\ st.wanted \in BOOLEAN
           /\ st.checking \in BOOLEAN /\ st.modified \in BOOLEAN
           /\ [st EXCEPT !.have = {}, !.checking = TRUE] \in Status
           /\ [st EXCEPT !.have = {}, !.checking = TRUE].have = {}
BY DEF Status

LEMMA NativeParts ==
    ASSUME NEW n \in Native
    PROVE  /\ n.have \in SUBSET Piece /\ n.wanted \in SUBSET Piece /\ n.prios \in Priorities
           /\ n.paths \in [File -> DiskName]
           /\ n.checking \in BOOLEAN /\ n.finished \in BOOLEAN
           /\ n.modified \in BOOLEAN /\ n.updated \in BOOLEAN
BY DEF Native, DiskName

LEMMA RequestParts ==
    ASSUME NEW r \in Request
    PROVE  /\ r.do \in {"prioritize", "wanted", "rename", "recheck", "save"}
           /\ r.do = "prioritize" => r.prios \in Priorities
           /\ r.do = "wanted" => r.pieces \in SUBSET Piece
           /\ r.do = "rename" => r.file \in File /\ r.to \in DiskName
BY DEF Request, DiskName

LEMMA RequestTypes ==
    /\ \A prios \in Priorities : [do |-> "prioritize", prios |-> prios] \in Request
    /\ \A pieces \in SUBSET Piece : [do |-> "wanted", pieces |-> pieces] \in Request
    /\ \A f \in File, target \in DiskName :
          /\ Rename(f, target) \in Request
          /\ Rename(f, target).do = "rename"
          /\ Rename(f, target).file = f /\ Rename(f, target).to = target
    /\ [do |-> "recheck"] \in Request
    /\ [do |-> "save"] \in Request
BY DEF Request, Rename, DiskName

LEMMA AlertParts ==
    ASSUME NEW a \in Alert
    PROVE  /\ a.is \in {"completed", "renamed", "rename_failed", "saved", "status",
                        "checked", "finished", "run_checked", "run_finished"}
           /\ a.is \in {"completed", "renamed", "rename_failed"} => a.file \in File
           /\ a.is = "renamed" => a.path \in Path
           /\ a.is = "saved" => a.params \in Params
           /\ a.is = "status" => a.status \in Status
BY DEF Alert, Trigger

LEMMA AlertTypes ==
    /\ \A f \in File : [is |-> "completed", file |-> f] \in Alert
    /\ \A f \in File : [is |-> "rename_failed", file |-> f] \in Alert
    /\ \A f \in File, path \in Path : [is |-> "renamed", file |-> f, path |-> path] \in Alert
    /\ \A params \in Params : [is |-> "saved", params |-> params] \in Alert
    /\ \A status \in Status : [is |-> "status", status |-> status] \in Alert
    /\ [is |-> "checked"] \in Alert /\ [is |-> "finished"] \in Alert
BY DEF Alert

LEMMA TriggerTypes ==
    /\ [is |-> "run_checked"] \in Trigger /\ [is |-> "run_finished"] \in Trigger
    /\ Trigger \subseteq Alert
    /\ \A a \in Trigger : a.is \in {"run_checked", "run_finished"}
BY DEF Alert, Trigger

-----------------------------------------------------------------------------
(* Names.                                                                  *)

LEMMA PathsAre ==
    /\ DefaultPath \in Path /\ DefaultPath \in UserPath
    /\ UserPath \subseteq Path /\ NoPath \notin Path
BY FilesAssumption DEF DefaultPath, UserPath

LEMMA FilePathType ==
    ASSUME NEW s \in TorrentImpl, NEW f \in File
    PROVE  FilePath(s, f) \in Path
<1>1. Resolved(s.params, f) \in Path
  <2>1. s.params.renamed[f] \in Path \union {NoPath}
    BY TorrentParts, ParamsParts
  <2> QED BY <2>1, PathsAre DEF Resolved
<1>2. s.paths[f] \in Path
  BY TorrentParts
<1> QED BY <1>1, <1>2 DEF FilePath

LEMMA DiskNameIs ==
    ASSUME NEW path \in Path, NEW ext
    PROVE  /\ OnDisk(path, ext).path = path /\ OnDisk(path, ext).ext = ext
           /\ ext \in BOOLEAN => OnDisk(path, ext) \in DiskName
BY DEF OnDisk, DiskName

LEMMA WantedNameIs ==
    ASSUME NEW path \in Path, NEW s, NEW ext, NEW f
    PROVE  /\ WantedActualPath(s, ext, f, path) \in DiskName
           /\ WantedActualPath(s, ext, f, path).path = path
<1>1. (ext /\ PiecesOf[f] # {} /\ ~IsCompletedFile(s, f)) \in BOOLEAN
  OBVIOUS
<1> QED BY <1>1, DiskNameIs DEF WantedActualPath

LEMMA StoredIs ==
    ASSUME NEW renamed \in [File -> Path \union {NoPath}], NEW f \in File, NEW path \in Path
    PROVE  /\ WithRenamedFile(renamed, f, path) \in [File -> Path \union {NoPath}]
           /\ \A g \in File : g # f => WithRenamedFile(renamed, f, path)[g] = renamed[g]
           /\ WithRenamedFile(renamed, f, path)[f] = path
              \/ (WithRenamedFile(renamed, f, path)[f] = NoPath /\ path = DefaultPath)
BY DEF WithRenamedFile

-----------------------------------------------------------------------------
(* What a handler leaves as it was, and what it asks for.                  *)

Renamings == {r \in Request : r.do = "rename"}
Answers == {a \in Alert : a.is \in {"renamed", "rename_failed"}}

SameNames(s, x) == x.params = s.params /\ x.paths = s.paths
SamePieces(s, x) == x.progress = s.progress /\ x.pieces = s.pieces /\ x.status = s.status
Rechecked(s, x) ==
    /\ x.progress = IF mode.deferState THEN s.progress ELSE [p \in Piece |-> 0]
    /\ x.completed = IF mode.deferState THEN s.completed ELSE {}
    /\ x.pieces = {} /\ x.status.have = {}

(* n renames to the names that the files have, and perhaps a recheck.      *)
Renames(requests, s) ==
    /\ requests \in Seq(Request)
    /\ \A i \in DOMAIN requests :
          /\ requests[i].do = "rename"
          /\ requests[i].to.path = FilePath(s, requests[i].file)

LEMMA NamesAre ==
    ASSUME NEW s, NEW x, SameNames(s, x)
    PROVE  \A f \in File : FilePath(x, f) = FilePath(s, f)
BY DEF SameNames, FilePath, Resolved

LEMMA NoRenames == \A s : Renames(<<>>, s) /\ Len(<<>>) = 0
BY DEF Renames

LEMMA OneRename ==
    ASSUME NEW s, NEW f \in File, NEW target \in DiskName, target.path = FilePath(s, f)
    PROVE  Renames(<<Rename(f, target)>>, s) /\ Len(<<Rename(f, target)>>) = 1
BY RequestTypes DEF Renames

LEMMA ManagedIs ==
    ASSUME NEW s \in TorrentImpl, NEW ext
    PROVE  /\ Managed(s, ext) \in TorrentImpl
           /\ Managed(s, ext) = [s EXCEPT !.renames = Managed(s, ext).renames]
           /\ Managed(s, ext).renames = s.renames + Len(ManageIncompleteFiles(s, ext))
           /\ Renames(ManageIncompleteFiles(s, ext), s)
           /\ Len(ManageIncompleteFiles(s, ext)) \in Nat
<1> DEFINE files == SetToSeq(Misnamed(s, ext))
           R == ManageIncompleteFiles(s, ext)
<1>1. IsFiniteSet(Misnamed(s, ext)) /\ Misnamed(s, ext) \in SUBSET File
  BY FilesAssumption, FS_Subset DEF Misnamed
<1>2. files \in Seq(Misnamed(s, ext)) /\ Len(files) = Cardinality(Misnamed(s, ext))
  BY <1>1, Listed
<1>3. files \in Seq(File)
  BY <1>1, <1>2, Elements
<1>4. DOMAIN files = 1 .. Len(files) /\ Len(files) \in Nat /\ \A i \in DOMAIN files : files[i] \in File
  BY <1>3, Elements
<1> DEFINE Asked(f) == Rename(f, WantedActualPath(s, ext, f, FilePath(s, f)))
<1>5. \A f \in File : /\ Asked(f) \in Request /\ Asked(f).do = "rename"
                      /\ Asked(f).file = f /\ Asked(f).to.path = FilePath(s, f)
  BY FilePathType, WantedNameIs, RequestTypes
<1>6. R = [i \in DOMAIN files |-> Asked(files[i])]
  BY DEF ManageIncompleteFiles
<1> HIDE DEF files, R, Asked
<1>7. R \in [1 .. Len(files) -> Request] /\ \A i \in DOMAIN R : R[i] = Asked(files[i]) /\ files[i] \in File
  BY <1>4, <1>5, <1>6
<1>8. R \in Seq(Request) /\ Len(R) = Len(files)
  BY <1>4, <1>7
<1>9. Renames(R, s)
  BY <1>5, <1>7, <1>8 DEF Renames
<1>10. Managed(s, ext) = [s EXCEPT !.renames = s.renames + Len(R)]
  BY <1>2, <1>8 DEF Managed
<1>11. s.renames + Len(R) \in Int /\ Len(R) \in Nat
  BY <1>4, <1>8, TorrentParts
<1>12. [s EXCEPT !.renames = s.renames + Len(R)] \in TorrentImpl
       /\ [s EXCEPT !.renames = s.renames + Len(R)].renames = s.renames + Len(R)
  BY <1>11 DEF TorrentImpl
<1> QED BY <1>9, <1>10, <1>11, <1>12 DEF R

LEMMA RenamesCounted ==
    ASSUME NEW requests, NEW s, Renames(requests, s)
    PROVE  Number(requests, Renamings) = Len(requests) /\ ~Rechecks(requests)
           /\ requests \in Seq(Request)
<1>1. \A i \in DOMAIN requests : requests[i] \in Renamings
  BY Elements DEF Renames, Renamings
<1> QED BY <1>1, NumberAll DEF Renames, Rechecks

Asks(n, again) ==
    \E R \in Seq(Request) :
        /\ work' = work \o R
        /\ Number(R, Renamings) = n
        /\ Rechecks(R) <=> again
        /\ \A i \in DOMAIN R :
              /\ R[i].do \in {"rename", "recheck"}
              /\ R[i].do = "rename" => R[i].to.path = FilePath(t, R[i].file)

LEMMA AsksRenames ==
    ASSUME NEW R, Renames(R, t), work' = work \o R
    PROVE  Asks(Len(R), FALSE)
BY RenamesCounted DEF Renames, Asks

LEMMA AsksNothing == work' = work \o <<>> => Asks(0, FALSE)
BY NoRenames, AsksRenames

LEMMA AsksRecheck ==
    ASSUME NEW R, Renames(R, t), work' = work \o Append(R, [do |-> "recheck"])
    PROVE  Asks(Len(R), TRUE)
<1> DEFINE r == [do |-> "recheck"]
           X == Append(R, r)
<1>1. r \in Request /\ r.do = "recheck" /\ r \notin Renamings
  BY RequestTypes DEF Renamings
<1>2. R \in Seq(Request) /\ Number(R, Renamings) = Len(R) /\ ~Rechecks(R)
  BY RenamesCounted
<1>3. /\ X \in Seq(Request) /\ DOMAIN X = DOMAIN R \union {Len(R) + 1}
      /\ \A i \in DOMAIN R : X[i] = R[i]
      /\ X[Len(R) + 1] = r
  <2> HIDE DEF r
  <2> QED BY <1>1, <1>2, Appended
<1>4. Number(X, Renamings) = Len(R)
  <2> HIDE DEF r
  <2>1. Number(X, Renamings) = Number(R, Renamings) + 0
    BY <1>1, <1>2, NumberAppended
  <2>2. Len(R) \in Nat
    BY <1>2, Elements
  <2> QED BY <1>2, <2>1, <2>2
<1> HIDE DEF r, X
<1>5. Rechecks(X)
  BY <1>1, <1>3 DEF Rechecks
<1>6. \A i \in DOMAIN X :
         /\ X[i].do \in {"rename", "recheck"}
         /\ X[i].do = "rename" => X[i].to.path = FilePath(t, X[i].file)
  BY <1>1, <1>3 DEF Renames
<1>7. work' = work \o X
  BY DEF X, r
<1> QED BY <1>3, <1>4, <1>5, <1>6, <1>7 DEF Asks

LEMMA ForceRecheckIs ==
    ASSUME NEW s \in TorrentImpl
    PROVE  /\ ForceRecheck(s) \in TorrentImpl
           /\ SameNames(s, ForceRecheck(s)) /\ Rechecked(s, ForceRecheck(s))
           /\ ForceRecheck(s).prios = s.prios /\ ForceRecheck(s).renames = s.renames
           /\ ForceRecheck(s).announcing = s.announcing
<1> DEFINE st == [s.status EXCEPT !.have = {}, !.checking = TRUE]
           completed == IF mode.deferState THEN s.completed ELSE {}
           progress == IF mode.deferState THEN s.progress ELSE [p \in Piece |-> 0]
<1>1. st \in Status /\ st.have = {}
  BY TorrentParts, StatusParts
<1>2. completed \in SUBSET File /\ progress \in [Piece -> Nat]
  BY TorrentParts
<1>3. ForceRecheck(s) = [s EXCEPT !.unchecked = FALSE, !.completed = completed,
                                  !.progress = progress, !.pieces = {}, !.status = st]
  BY DEF ForceRecheck
<1>4. /\ ForceRecheck(s).completed = completed /\ ForceRecheck(s).progress = progress
      /\ ForceRecheck(s).pieces = {} /\ ForceRecheck(s).status = st
      /\ SameNames(s, ForceRecheck(s)) /\ ForceRecheck(s).prios = s.prios
      /\ ForceRecheck(s).renames = s.renames /\ ForceRecheck(s).announcing = s.announcing
  <2> HIDE DEF st, completed, progress
  <2> QED BY <1>3 DEF TorrentImpl, SameNames
<1>5. ForceRecheck(s) \in TorrentImpl
  <2> HIDE DEF st, completed, progress
  <2> QED BY <1>1, <1>2, <1>3 DEF TorrentImpl
<1> QED BY <1>1, <1>4, <1>5 DEF Rechecked

LEMMA RenameEndedIs ==
    ASSUME NEW s \in TorrentImpl
    PROVE  /\ RenameEnded(s) \in TorrentImpl
           /\ SameNames(s, RenameEnded(s)) /\ SamePieces(s, RenameEnded(s))
           /\ RenameEnded(s).prios = s.prios /\ RenameEnded(s).completed = s.completed
           /\ RenameEnded(s).renames = s.renames - 1
           /\ RenameEnded(s).announcing = IF s.renames = 1 THEN 0 ELSE s.announcing
<1>1. s.renames - 1 \in Int /\ (IF s.renames = 1 THEN 0 ELSE s.announcing) \in Nat
  BY TorrentParts
<1> DEFINE left == s.renames - 1
           announcing == IF s.renames = 1 THEN 0 ELSE s.announcing
<1>2. RenameEnded(s) = [s EXCEPT !.renames = left, !.announcing = announcing]
  BY DEF RenameEnded
<1>3. left \in Int /\ announcing \in Nat
  BY <1>1
<1> HIDE DEF left, announcing
<1>4. /\ RenameEnded(s) \in TorrentImpl
      /\ SameNames(s, RenameEnded(s)) /\ SamePieces(s, RenameEnded(s))
      /\ RenameEnded(s).prios = s.prios /\ RenameEnded(s).completed = s.completed
      /\ RenameEnded(s).renames = left /\ RenameEnded(s).announcing = announcing
  BY <1>2, <1>3 DEF TorrentImpl, SameNames, SamePieces
<1> QED BY <1>4 DEF left, announcing

(* What a new status changes.                                              *)
Updated(s, x, status) ==
    LET changed == Cardinality(status.have) # Cardinality(s.status.have)
    IN  /\ x.status = status
        /\ x.completed = s.completed
        /\ changed => /\ x.pieces = status.have
                      /\ ~mode.deferState => \A p \in Piece :
                            x.progress[p] = IF (p \in status.have) # (p \in s.pieces)
                                            THEN s.progress[p] + 1 ELSE s.progress[p]
        /\ ~changed => x.pieces = s.pieces /\ x.progress = s.progress

LEMMA UpdateProgressIs ==
    ASSUME NEW s \in TorrentImpl
    PROVE  /\ UpdateProgress(s) \in TorrentImpl
           /\ SameNames(s, UpdateProgress(s)) /\ UpdateProgress(s).prios = s.prios
           /\ UpdateProgress(s).renames = s.renames
           /\ UpdateProgress(s).announcing = s.announcing
           /\ UpdateProgress(s).status = s.status
           /\ UpdateProgress(s).completed = s.completed
           /\ UpdateProgress(s).pieces = s.status.have
           /\ ~mode.deferState => \A p \in Piece :
                 UpdateProgress(s).progress[p] =
                    IF (p \in s.status.have) # (p \in s.pieces)
                    THEN s.progress[p] + 1 ELSE s.progress[p]
<1> DEFINE more == [p \in Piece |-> IF (p \in s.status.have) # (p \in s.pieces)
                                    THEN s.progress[p] + 1 ELSE s.progress[p]]
           progress == IF mode.deferState THEN s.progress ELSE more
<1>1. more \in [Piece -> Nat]
  <2>1. \A p \in Piece : s.progress[p] \in Nat /\ s.progress[p] + 1 \in Nat
    BY TorrentParts
  <2> QED BY <2>1
<1>2. progress \in [Piece -> Nat]
  BY <1>1, TorrentParts
<1>3. s.status.have \in SUBSET Piece
  BY TorrentParts, StatusParts
<1>4. UpdateProgress(s) = [s EXCEPT !.pieces = s.status.have, !.progress = progress]
  BY DEF UpdateProgress
<1>5. /\ SameNames(s, UpdateProgress(s)) /\ UpdateProgress(s).prios = s.prios
      /\ UpdateProgress(s).renames = s.renames
      /\ UpdateProgress(s).announcing = s.announcing
      /\ UpdateProgress(s).status = s.status
      /\ UpdateProgress(s).completed = s.completed
      /\ UpdateProgress(s).pieces = s.status.have
      /\ UpdateProgress(s).progress = progress
  <2> HIDE DEF progress
  <2> QED BY <1>4 DEF TorrentImpl, SameNames
<1>6. UpdateProgress(s) \in TorrentImpl
  <2> HIDE DEF progress
  <2> QED BY <1>2, <1>3, <1>4 DEF TorrentImpl
<1>7. ~mode.deferState => \A p \in Piece :
         progress[p] = IF (p \in s.status.have) # (p \in s.pieces)
                       THEN s.progress[p] + 1 ELSE s.progress[p]
  OBVIOUS
<1> HIDE DEF progress
<1> QED BY <1>5, <1>6, <1>7

-----------------------------------------------------------------------------
(* What the handling of an alert does.                                     *)

NamesHandled(a) ==
    /\ a.is \notin {"renamed", "saved"} => SameNames(t, t')
    /\ a.is = "renamed" => IF FilePath(t, a.file) = a.path THEN SameNames(t, t')
                           ELSE /\ t'.params.renamed = WithRenamedFile(t.params.renamed, a.file, a.path)
                                /\ t'.paths = IF mode.deferPaths THEN t.paths
                                              ELSE [t.paths EXCEPT ![a.file] = a.path]
    /\ a.is = "saved" => t'.params = a.params /\ t'.paths = t.paths

RenamesHandled(a, n) ==
    /\ a \in Answers => t'.renames = t.renames + n - 1
    /\ a \notin Answers => t'.renames = t.renames + n
    /\ \/ t'.announcing = 0
       \/ t'.renames > 0
       \/ t'.announcing = t.announcing /\ ~(a \in Answers /\ t.renames = 1)

PiecesHandled(a, again) ==
    /\ again => Rechecked(t, t') /\ a.is \notin {"status", "completed"}
    /\ ~again /\ a.is = "status" => Updated(t, t', a.status)
    /\ ~again /\ a.is # "status" => SamePieces(t, t')
    /\ ~again /\ a.is = "completed" =>
          t'.completed = IF mode.deferState THEN t.completed ELSE t.completed \union {a.file}
    /\ ~again /\ a.is # "completed" => t'.completed = t.completed

Handled(a) ==
    /\ t' \in TorrentImpl /\ t'.prios = t.prios
    /\ NamesHandled(a)
    /\ \E n \in Nat, again \in BOOLEAN :
          Asks(n, again) /\ RenamesHandled(a, n) /\ PiecesHandled(a, again)

LEMMA AnswersAre ==
    ASSUME NEW a \in Alert
    PROVE  a \in Answers <=> a.is \in {"renamed", "rename_failed"}
BY DEF Answers

LEMMA CompletedIs ==
    ASSUME TypeOK, NEW a \in Alert, a.is = "completed", HandleFileCompleted(a.file)
    PROVE  Handled(a)
<1> DEFINE completed == IF mode.deferState THEN t.completed ELSE t.completed \union {a.file}
           target == OnDisk(FilePath(t, a.file), FALSE)
           s == [t EXCEPT !.completed = completed]
           R == <<Rename(a.file, target)>>
<1>1. t \in TorrentImpl /\ a.file \in File
  BY AlertParts DEF TypeOK
<1>2. target \in DiskName /\ target.path = FilePath(t, a.file)
  BY <1>1, FilePathType, DiskNameIs
<1>3. completed \in SUBSET File /\ t.renames \in Int
  BY <1>1, TorrentParts
<1>4. Renames(R, t) /\ Len(R) = 1
  <2> HIDE DEF target
  <2> QED BY <1>1, <1>2, OneRename
<1>5. \/ t' = [s EXCEPT !.renames = @ + 1] /\ work' = work \o R
      \/ t' = s /\ work' = work \o <<>>
  BY DEF HandleFileCompleted, Does
<1> HIDE DEF R, target, completed
<1>6. /\ s \in TorrentImpl /\ s.prios = t.prios /\ SameNames(t, s) /\ SamePieces(t, s)
      /\ s.completed = completed /\ s.announcing = t.announcing /\ s.renames = t.renames
  BY <1>1, <1>3 DEF TorrentImpl, SameNames, SamePieces
<1> HIDE DEF s
<1>7. \/ t'.renames = t.renames + 1 /\ Asks(1, FALSE)
      \/ t'.renames = t.renames + 0 /\ Asks(0, FALSE)
  <2>1. CASE t' = [s EXCEPT !.renames = @ + 1] /\ work' = work \o R
    <3>1. t'.renames = t.renames + 1
      BY <1>6, <2>1 DEF TorrentImpl
    <3>2. Asks(1, FALSE)
      BY <1>4, <2>1, AsksRenames
    <3> QED BY <3>1, <3>2
  <2>2. CASE t' = s /\ work' = work \o <<>>
    <3>1. Asks(0, FALSE)
      BY <2>2, AsksNothing
    <3>2. t'.renames = t.renames + 0
      BY <1>3, <1>6, <2>2
    <3> QED BY <3>1, <3>2
  <2> QED BY <1>5, <2>1, <2>2
<1>8. /\ t' \in TorrentImpl /\ t'.prios = t.prios /\ SameNames(t, t') /\ SamePieces(t, t')
      /\ t'.completed = completed /\ t'.announcing = t.announcing
  <2>1. CASE t' = s
    BY <1>6, <2>1
  <2>2. CASE t' = [s EXCEPT !.renames = @ + 1]
    <3>1. s.renames + 1 \in Int
      BY <1>3, <1>6
    <3> QED BY <1>6, <2>2, <3>1 DEF TorrentImpl, SameNames, SamePieces
  <2> QED BY <1>5, <2>1, <2>2
<1>9. a \notin Answers
  BY AnswersAre
<1>10. ASSUME NEW n \in Nat, t'.renames = t.renames + n
       PROVE  RenamesHandled(a, n) /\ PiecesHandled(a, FALSE)
  BY <1>8, <1>9, <1>10 DEF RenamesHandled, PiecesHandled, completed
<1>11. NamesHandled(a)
  BY <1>8 DEF NamesHandled
<1> QED BY <1>7, <1>8, <1>10, <1>11 DEF Handled

LEMMA RenamedIs ==
    ASSUME TypeOK, NEW a \in Alert, a.is = "renamed", HandleFileRenamed(a.file, a.path)
    PROVE  Handled(a)
<1> DEFINE renamed == WithRenamedFile(t.params.renamed, a.file, a.path)
           paths == IF mode.deferPaths THEN t.paths ELSE [t.paths EXCEPT ![a.file] = a.path]
           params == [t.params EXCEPT !.renamed = renamed]
           s == IF FilePath(t, a.file) = a.path THEN t
                ELSE [t EXCEPT !.params = params, !.paths = paths]
<1>5. t' = RenameEnded(s) /\ work' = work \o <<>>
  BY DEF HandleFileRenamed, Does
<1>1. t \in TorrentImpl /\ a.file \in File /\ a.path \in Path
  BY AlertParts DEF TypeOK
<1>2. paths \in [File -> Path] /\ t.params \in Params
  BY <1>1, TorrentParts
<1>3. renamed \in [File -> Path \union {NoPath}]
  BY <1>1, <1>2, ParamsParts, StoredIs
<1> HIDE DEF renamed, paths
<1>4. params \in Params /\ params.renamed = renamed
  BY <1>2, <1>3 DEF Params
<1> HIDE DEF params
<1>8. /\ s \in TorrentImpl /\ s.prios = t.prios /\ s.completed = t.completed /\ SamePieces(t, s)
      /\ s.renames = t.renames /\ s.announcing = t.announcing
  <2>1. CASE FilePath(t, a.file) = a.path
    BY <1>1, <2>1 DEF SamePieces
  <2>2. CASE FilePath(t, a.file) # a.path
    <3>1. s = [t EXCEPT !.params = params, !.paths = paths]
      BY <2>2
    <3> QED BY <1>1, <1>2, <1>4, <3>1 DEF TorrentImpl, SamePieces
  <2> QED BY <2>1, <2>2
<1>9. NamesHandled(a)
  <2>1. CASE FilePath(t, a.file) = a.path
    <3>1. s = t
      BY <2>1
    <3> QED BY <1>1, <1>5, <2>1, <3>1, RenameEndedIs DEF NamesHandled
  <2>2. CASE FilePath(t, a.file) # a.path
    <3>1. s = [t EXCEPT !.params = params, !.paths = paths]
      BY <2>2
    <3>2. s.params = params /\ s.paths = paths
      BY <1>1, <3>1 DEF TorrentImpl
    <3>3. t'.params.renamed = renamed /\ t'.paths = paths
      BY <1>4, <1>5, <1>8, <3>2, RenameEndedIs DEF SameNames
    <3> QED BY <2>2, <3>3 DEF NamesHandled, renamed, paths
  <2> QED BY <2>1, <2>2
<1> HIDE DEF s
<1>10. a \in Answers
  BY AnswersAre
<1>11. Asks(0, FALSE)
  BY <1>5, AsksNothing
<1>12. /\ t' \in TorrentImpl /\ t'.prios = t.prios /\ SamePieces(t, t')
       /\ t'.completed = t.completed /\ t'.renames = t.renames - 1
       /\ t'.announcing = IF t.renames = 1 THEN 0 ELSE t.announcing
  BY <1>5, <1>8, RenameEndedIs DEF SamePieces
<1>13. t.renames \in Int
  BY <1>1, TorrentParts
<1>14. RenamesHandled(a, 0) /\ PiecesHandled(a, FALSE)
  BY <1>10, <1>12, <1>13 DEF RenamesHandled, PiecesHandled
<1> QED BY <1>9, <1>11, <1>12, <1>14 DEF Handled

LEMMA RenameFailedIs ==
    ASSUME TypeOK, NEW a \in Alert, a.is = "rename_failed", HandleFileRenameFailed
    PROVE  Handled(a)
<1>1. t \in TorrentImpl
  BY DEF TypeOK
<1>2. t' = RenameEnded(t) /\ work' = work \o <<>>
  BY DEF HandleFileRenameFailed, Does
<1>3. Asks(0, FALSE)
  BY <1>2, AsksNothing
<1>4. a \in Answers
  BY AnswersAre
<1>5. t.renames \in Int
  BY <1>1, TorrentParts
<1>6. /\ t' \in TorrentImpl /\ t'.prios = t.prios /\ SameNames(t, t') /\ SamePieces(t, t')
      /\ t'.completed = t.completed /\ t'.renames = t.renames - 1
      /\ t'.announcing = IF t.renames = 1 THEN 0 ELSE t.announcing
  BY <1>1, <1>2, RenameEndedIs
<1>7. RenamesHandled(a, 0)
  BY <1>4, <1>5, <1>6 DEF RenamesHandled
<1>8. PiecesHandled(a, FALSE)
  BY <1>6 DEF PiecesHandled
<1>9. NamesHandled(a)
  BY <1>6 DEF NamesHandled
<1> QED BY <1>3, <1>6, <1>7, <1>8, <1>9 DEF Handled

(* Nothing is asked for, and what is kept of files stays.                  *)
LEMMA Quietly ==
    ASSUME NEW a \in Alert, a.is \in {"checked", "finished"},
           t \in TorrentImpl, t' \in TorrentImpl, work' = work \o <<>>,
           SameNames(t, t'), SamePieces(t, t'), t'.completed = t.completed,
           t'.prios = t.prios, t'.renames = t.renames, t'.announcing = t.announcing
    PROVE  Handled(a)
<1>1. Asks(0, FALSE)
  BY AsksNothing
<1>2. a \notin Answers
  BY AnswersAre
<1>3. t.renames \in Int
  BY TorrentParts
<1>4. RenamesHandled(a, 0) /\ PiecesHandled(a, FALSE)
  BY <1>2, <1>3 DEF RenamesHandled, PiecesHandled
<1>5. NamesHandled(a)
  BY DEF NamesHandled
<1> QED BY <1>1, <1>4, <1>5 DEF Handled

LEMMA TriggersAdded ==
    ASSUME NEW s \in TorrentImpl, NEW trigger \in Trigger
    PROVE  LET x == [s EXCEPT !.triggers = Append(@, trigger)]
           IN  /\ x \in TorrentImpl /\ SameNames(s, x) /\ SamePieces(s, x)
               /\ x.completed = s.completed /\ x.prios = s.prios
               /\ x.renames = s.renames /\ x.announcing = s.announcing
<1> DEFINE more == Append(s.triggers, trigger)
           x == [s EXCEPT !.triggers = more]
<1>1. more \in Seq(Trigger)
  BY TorrentParts, AppendProperties
<1> HIDE DEF more
<1>2. x \in TorrentImpl /\ SameNames(s, x) /\ SamePieces(s, x)
      /\ x.completed = s.completed /\ x.prios = s.prios
      /\ x.renames = s.renames /\ x.announcing = s.announcing
  BY <1>1 DEF TorrentImpl, SameNames, SamePieces
<1> QED BY <1>2 DEF more

LEMMA CheckedIs ==
    ASSUME TypeOK, NEW a \in Alert, a.is = "checked", HandleTorrentChecked
    PROVE  Handled(a)
<1>1. t \in TorrentImpl
  BY DEF TypeOK
<1>2. t' = [t EXCEPT !.triggers = Append(@, [is |-> "run_checked"])] /\ work' = work \o <<>>
  BY DEF HandleTorrentChecked, Does
<1>3. [is |-> "run_checked"] \in Trigger
  BY TriggerTypes
<1> QED BY <1>1, <1>2, <1>3, TriggersAdded, Quietly

LEMMA FinishedIs ==
    ASSUME TypeOK, NEW a \in Alert, a.is = "finished", HandleTorrentFinished
    PROVE  Handled(a)
<1>1. t \in TorrentImpl
  BY DEF TypeOK
<1>2. [is |-> "run_finished"] \in Trigger
  BY TriggerTypes
<1>3. work' = work \o <<>>
  BY DEF HandleTorrentFinished, Does
<1>4. CASE t.finished
  <2>1. t' = t
    BY <1>4 DEF HandleTorrentFinished, Does
  <2> QED BY <1>1, <1>3, <2>1, Quietly DEF SameNames, SamePieces
<1>5. CASE ~t.finished
  <2>1. t' = [t EXCEPT !.triggers = Append(@, [is |-> "run_finished"])]
    BY <1>5 DEF HandleTorrentFinished, Does
  <2> QED BY <1>1, <1>2, <1>3, <2>1, TriggersAdded, Quietly
<1> QED BY <1>4, <1>5

LEMMA SavedIs ==
    ASSUME TypeOK, NEW a \in Alert, a.is = "saved", HandleSaveResumeData(a.params)
    PROVE  Handled(a)
<1>1. t \in TorrentImpl /\ a.params \in Params
  BY AlertParts DEF TypeOK
<1>2. t' = [t EXCEPT !.params = a.params] /\ work' = work \o <<>>
  BY DEF HandleSaveResumeData, Does
<1>3. Asks(0, FALSE)
  BY <1>2, AsksNothing
<1>4. a \notin Answers
  BY AnswersAre
<1>5. /\ t' \in TorrentImpl /\ SamePieces(t, t') /\ t'.completed = t.completed
      /\ t'.prios = t.prios /\ t'.renames = t.renames /\ t'.announcing = t.announcing
      /\ t'.params = a.params /\ t'.paths = t.paths
  BY <1>1, <1>2 DEF TorrentImpl, SamePieces
<1>6. t.renames \in Int
  BY <1>1, TorrentParts
<1>7. RenamesHandled(a, 0) /\ PiecesHandled(a, FALSE)
  BY <1>4, <1>5, <1>6 DEF RenamesHandled, PiecesHandled
<1>8. NamesHandled(a)
  BY <1>5 DEF NamesHandled
<1> QED BY <1>3, <1>5, <1>7, <1>8 DEF Handled

LEMMA StatusIs ==
    ASSUME TypeOK, NEW a \in Alert, a.is = "status", UpdateStatus(a.status)
    PROVE  Handled(a)
<1> DEFINE unchecked == IF a.status.checking THEN FALSE
                        ELSE IF ~a.status.done THEN TRUE ELSE t.unchecked
           s == [t EXCEPT !.status = a.status, !.unchecked = unchecked, !.triggers = <<>>]
           changed == Cardinality(a.status.have) # Cardinality(t.status.have)
<1>1. t \in TorrentImpl /\ a.status \in Status
  BY AlertParts DEF TypeOK
<1>2. t' = (IF changed THEN UpdateProgress(s) ELSE s) /\ work' = work \o <<>>
  BY DEF UpdateStatus, Does
<1>3. unchecked \in BOOLEAN
  BY <1>1, TorrentParts
<1> HIDE DEF unchecked
<1>4. /\ s \in TorrentImpl /\ SameNames(t, s) /\ s.prios = t.prios
      /\ s.status = a.status /\ s.completed = t.completed
      /\ s.pieces = t.pieces /\ s.progress = t.progress
      /\ s.renames = t.renames /\ s.announcing = t.announcing
  <2> DEFINE status == a.status
             none == <<>>
  <2>1. status \in Status /\ none \in Seq(Trigger)
    BY <1>1
  <2>2. s = [t EXCEPT !.status = status, !.unchecked = unchecked, !.triggers = none]
    OBVIOUS
  <2> HIDE DEF status, none, s
  <2>3. /\ SameNames(t, s) /\ s.prios = t.prios
        /\ s.status = status /\ s.completed = t.completed
        /\ s.pieces = t.pieces /\ s.progress = t.progress
        /\ s.renames = t.renames /\ s.announcing = t.announcing
    BY <1>1, <2>2 DEF TorrentImpl, SameNames
  <2>4. s \in TorrentImpl
    BY <1>1, <1>3, <2>1, <2>2 DEF TorrentImpl
  <2> QED BY <2>3, <2>4 DEF status
<1> HIDE DEF s
<1>5. Asks(0, FALSE)
  BY <1>2, AsksNothing
<1>6. /\ t' \in TorrentImpl /\ SameNames(t, t') /\ t'.prios = t.prios
      /\ t'.renames = t.renames /\ t'.announcing = t.announcing
  BY <1>2, <1>4, UpdateProgressIs DEF SameNames
<1>7. Updated(t, t', a.status)
  <2>1. CASE changed
    <3>1. t' = UpdateProgress(s)
      BY <1>2, <2>1
    <3>2. t'.pieces = a.status.have /\ t'.status = a.status /\ t'.completed = t.completed
      BY <1>4, <3>1, UpdateProgressIs
    <3>3. ~mode.deferState => \A p \in Piece :
             t'.progress[p] = IF (p \in a.status.have) # (p \in t.pieces)
                              THEN t.progress[p] + 1 ELSE t.progress[p]
      BY <1>4, <3>1, UpdateProgressIs
    <3> QED BY <2>1, <3>2, <3>3 DEF Updated
  <2>2. CASE ~changed
    BY <1>2, <1>4, <2>2 DEF Updated
  <2> QED BY <2>1, <2>2
<1>8. a \notin Answers
  BY AnswersAre
<1>9. t.renames \in Int
  BY <1>1, TorrentParts
<1>10. RenamesHandled(a, 0)
  BY <1>6, <1>8, <1>9 DEF RenamesHandled
<1>11. PiecesHandled(a, FALSE)
  BY <1>7 DEF PiecesHandled, Updated
<1>12. NamesHandled(a)
  BY <1>6 DEF NamesHandled
<1> QED BY <1>5, <1>6, <1>10, <1>11, <1>12 DEF Handled

(* What follows from manageIncompleteFiles() alone.                        *)
LEMMA ManagedKeeps ==
    ASSUME NEW s \in TorrentImpl, NEW ext
    PROVE  LET x == Managed(s, ext)
           IN  /\ x \in TorrentImpl /\ SameNames(s, x) /\ SamePieces(s, x)
               /\ x.completed = s.completed /\ x.prios = s.prios
               /\ x.announcing = s.announcing /\ x.unchecked = s.unchecked
               /\ x.renames = s.renames + Len(ManageIncompleteFiles(s, ext))
<1> DEFINE x == Managed(s, ext)
<1>1. x \in TorrentImpl /\ x = [s EXCEPT !.renames = x.renames]
      /\ x.renames = s.renames + Len(ManageIncompleteFiles(s, ext))
  BY ManagedIs
<1> HIDE DEF x
<1> DEFINE n == x.renames
<1>2. x = [s EXCEPT !.renames = n]
  BY <1>1
<1> HIDE DEF n
<1>3. /\ SameNames(s, x) /\ SamePieces(s, x)
      /\ x.completed = s.completed /\ x.prios = s.prios
      /\ x.announcing = s.announcing /\ x.unchecked = s.unchecked
  BY <1>2 DEF TorrentImpl, SameNames, SamePieces
<1> QED BY <1>1, <1>3 DEF x

LEMMA RunCheckedIs ==
    ASSUME TypeOK, NEW a \in Alert, a.is = "run_checked", RunChecked
    PROVE  Handled(a)
<1> DEFINE finished == IF t.status.wanted THEN t.status.done ELSE t.finished
           s == [t EXCEPT !.finished = finished]
           R == ManageIncompleteFiles(s, append)
<1>1. t \in TorrentImpl
  BY DEF TypeOK
<1>2. t' = Managed(s, append) /\ work' = work \o R
  BY DEF RunChecked, Does
<1>3. finished \in BOOLEAN
  BY <1>1, TorrentParts, StatusParts
<1> HIDE DEF finished, R
<1>4. /\ s \in TorrentImpl /\ SameNames(t, s) /\ SamePieces(t, s)
      /\ s.completed = t.completed /\ s.prios = t.prios
      /\ s.announcing = t.announcing /\ s.renames = t.renames
  BY <1>1, <1>3 DEF TorrentImpl, SameNames, SamePieces
<1> HIDE DEF s
<1>5. Renames(R, s) /\ Len(R) \in Nat
  BY <1>4, ManagedIs DEF R
<1>6. Renames(R, t)
  <2>1. R \in Seq(Request) /\ \A i \in DOMAIN R : R[i].do = "rename" /\ R[i].file \in File
    BY <1>5, Elements, RequestParts DEF Renames
  <2>2. \A f \in File : FilePath(s, f) = FilePath(t, f)
    BY <1>4, NamesAre
  <2> QED BY <1>5, <2>1, <2>2 DEF Renames
<1>7. Asks(Len(R), FALSE)
  BY <1>2, <1>6, AsksRenames
<1>8. /\ t' \in TorrentImpl /\ SameNames(t, t') /\ SamePieces(t, t')
      /\ t'.completed = t.completed /\ t'.prios = t.prios
      /\ t'.announcing = t.announcing /\ t'.renames = t.renames + Len(R)
  BY <1>2, <1>4, ManagedKeeps DEF R, SameNames, SamePieces
<1>9. a \notin Answers
  BY AnswersAre
<1>10. RenamesHandled(a, Len(R)) /\ PiecesHandled(a, FALSE)
  BY <1>8, <1>9 DEF RenamesHandled, PiecesHandled
<1>11. NamesHandled(a)
  BY <1>8 DEF NamesHandled
<1> QED BY <1>5, <1>7, <1>8, <1>10, <1>11 DEF Handled

LEMMA RunFinishedIs ==
    ASSUME TypeOK, NEW a \in Alert, a.is = "run_finished", RunFinished
    PROVE  Handled(a)
<1> DEFINE s == Managed(t, append)
           R == ManageIncompleteFiles(t, append)
<1>1. t \in TorrentImpl
  BY DEF TypeOK
<1>2. \/ /\ t' = ForceRecheck(s)
         /\ work' = work \o Append(R, [do |-> "recheck"])
      \/ /\ t' = [s EXCEPT !.finished = TRUE,
                           !.announcing = IF s.renames > 0 THEN @ + 1 ELSE @]
         /\ work' = work \o R
  BY DEF RunFinished, Does
<1>3. /\ s \in TorrentImpl /\ SameNames(t, s) /\ SamePieces(t, s)
      /\ s.completed = t.completed /\ s.prios = t.prios
      /\ s.announcing = t.announcing /\ s.renames = t.renames + Len(R)
  BY <1>1, ManagedKeeps
<1>4. Renames(R, t) /\ Len(R) \in Nat
  BY <1>1, ManagedIs
<1> HIDE DEF s, R
<1>5. a \notin Answers
  BY AnswersAre
<1>6. CASE /\ t' = ForceRecheck(s)
           /\ work' = work \o Append(R, [do |-> "recheck"])
  <2>1. Asks(Len(R), TRUE)
    BY <1>4, <1>6, AsksRecheck
  <2>2. /\ t' \in TorrentImpl /\ SameNames(t, t') /\ Rechecked(t, t')
        /\ t'.prios = t.prios /\ t'.announcing = t.announcing
        /\ t'.renames = t.renames + Len(R)
    BY <1>3, <1>6, ForceRecheckIs DEF SameNames, SamePieces, Rechecked
  <2>3. RenamesHandled(a, Len(R)) /\ PiecesHandled(a, TRUE)
    BY <1>5, <2>2 DEF RenamesHandled, PiecesHandled
  <2>4. NamesHandled(a)
    BY <2>2 DEF NamesHandled
  <2> QED BY <1>4, <2>1, <2>2, <2>3, <2>4 DEF Handled
<1>7. CASE /\ t' = [s EXCEPT !.finished = TRUE,
                             !.announcing = IF s.renames > 0 THEN @ + 1 ELSE @]
           /\ work' = work \o R
  <2> DEFINE announcing == IF s.renames > 0 THEN s.announcing + 1 ELSE s.announcing
  <2>1. announcing \in Nat
    BY <1>3, TorrentParts
  <2>2. t' = [s EXCEPT !.finished = TRUE, !.announcing = announcing]
    BY <1>7
  <2>3. announcing = s.announcing \/ s.renames > 0
    OBVIOUS
  <2> HIDE DEF announcing
  <2>4. /\ t' \in TorrentImpl /\ SameNames(s, t') /\ SamePieces(s, t')
        /\ t'.completed = s.completed /\ t'.prios = s.prios
        /\ t'.announcing = announcing /\ t'.renames = s.renames
    BY <1>3, <2>1, <2>2 DEF TorrentImpl, SameNames, SamePieces
  <2>5. SameNames(t, t') /\ SamePieces(t, t') /\ t'.completed = t.completed /\ t'.prios = t.prios
        /\ t'.renames = t.renames + Len(R)
    BY <1>3, <2>4 DEF SameNames, SamePieces
  <2>6. Asks(Len(R), FALSE)
    BY <1>4, <1>7, AsksRenames
  <2>7. t'.renames > 0 \/ t'.announcing = t.announcing
    BY <1>3, <2>3, <2>4
  <2>8. RenamesHandled(a, Len(R))
    BY <1>5, <2>5, <2>7 DEF RenamesHandled
  <2>9. PiecesHandled(a, FALSE)
    BY <2>5 DEF PiecesHandled
  <2>10. NamesHandled(a)
    BY <2>5 DEF NamesHandled
  <2> QED BY <1>4, <2>4, <2>5, <2>6, <2>8, <2>9, <2>10 DEF Handled
<1> QED BY <1>2, <1>6, <1>7

(* The alert that is taken, whichever it is.                               *)
LEMMA HandleAlertIs ==
    ASSUME TypeOK, HandleAlert
    PROVE  /\ alerts # <<>> /\ Head(alerts) \in Alert
           /\ Handled(Head(alerts))
<1> DEFINE a == Head(alerts)
<1>1. alerts # <<>> /\ a \in Alert
  <2>1. alerts \in Seq(Alert) /\ reading > 0 /\ reading \in 0 .. Len(alerts)
    BY DEF TypeOK, HandleAlert
  <2>2. alerts # <<>>
    BY <2>1
  <2> QED BY <2>1, <2>2, Rest
<1>2. \/ a.is = "completed" /\ HandleFileCompleted(a.file)
      \/ a.is = "renamed" /\ HandleFileRenamed(a.file, a.path)
      \/ a.is = "rename_failed" /\ HandleFileRenameFailed
      \/ a.is = "checked" /\ HandleTorrentChecked
      \/ a.is = "finished" /\ HandleTorrentFinished
      \/ a.is = "saved" /\ HandleSaveResumeData(a.params)
      \/ a.is = "status" /\ UpdateStatus(a.status)
      \/ a.is = "run_checked" /\ RunChecked
      \/ a.is = "run_finished" /\ RunFinished
  BY DEF HandleAlert
<1> HIDE DEF a
<1>3. Handled(a)
  BY <1>1, <1>2, CompletedIs, RenamedIs, RenameFailedIs, CheckedIs, FinishedIs, SavedIs,
     StatusIs, RunCheckedIs, RunFinishedIs
<1> QED BY <1>1, <1>3 DEF a

-----------------------------------------------------------------------------
(* What the calls of the user do.                                          *)

Wanted(prios) == [do |-> "wanted", pieces |-> PiecesWanted(prios)]
Prioritized(prios) == [do |-> "prioritize", prios |-> prios]

LEMMA PiecesWantedType == \A prios : PiecesWanted(prios) \in SUBSET Piece
<1>1. \A f \in File : PiecesOf[f] \in SUBSET Piece
  BY FilesAssumption
<1> QED BY <1>1 DEF PiecesWanted

(* Requests that are no renames and ask for no recheck.                    *)
Plain(R) == \A i \in DOMAIN R : R[i].do \in {"prioritize", "wanted", "save"}

LEMMA PlainAre ==
    ASSUME NEW R \in Seq(Request), Plain(R)
    PROVE  /\ Number(R, Renamings) = 0 /\ ~Rechecks(R)
           /\ \A i \in DOMAIN R : R[i].do # "rename"
<1>1. \A i \in DOMAIN R : R[i] \notin Renamings /\ R[i].do # "recheck" /\ R[i].do # "rename"
  BY DEF Plain, Renamings
<1>2. Number(R, Renamings) = 0
  BY <1>1, PositionsFinite
<1> QED BY <1>1, <1>2 DEF Rechecks

LEMMA SingleIs ==
    ASSUME NEW r \in Request
    PROVE  /\ <<r>> \in Seq(Request) /\ DOMAIN <<r>> = {1} /\ <<r>>[1] = r
           /\ r.do \in {"prioritize", "wanted", "save"} => Plain(<<r>>)
BY DEF Plain

LEMMA PairIs ==
    ASSUME NEW q \in Request, NEW r \in Request
    PROVE  /\ <<q, r>> \in Seq(Request) /\ DOMAIN <<q, r>> = {1, 2}
           /\ <<q, r>>[1] = q /\ <<q, r>>[2] = r
           /\ q.do = "prioritize" /\ r.do = "wanted" => Plain(<<q, r>>)
BY DEF Plain

(* Of the torrent, only its priorities and flags change.                   *)
SameFiles(s, x) ==
    /\ SameNames(s, x) /\ SamePieces(s, x) /\ x.completed = s.completed
    /\ x.renames = s.renames /\ x.announcing = s.announcing

LEMMA PrioritizeIs ==
    ASSUME TypeOK, NEW prios \in Priorities, PrioritizeFiles(prios)
    PROVE  /\ t' \in TorrentImpl /\ SameFiles(t, t')
           /\ t'.prios = IF mode.deferState THEN t.prios ELSE prios
           /\ Prioritized(prios) \in Request /\ Wanted(FilePriorities(t')) \in Request
           /\ \/ work' = work \o <<Prioritized(prios)>>
              \/ work' = work \o <<Prioritized(prios), Wanted(FilePriorities(t'))>>
<1> DEFINE again == \E f \in File : /\ ~FilePriorities(t)[f] /\ prios[f]
                                    /\ ~IsCompletedFile(t, f)
           finished == t.finished /\ ~again
           new == IF mode.deferState THEN t.prios ELSE prios
           s == [t EXCEPT !.finished = finished, !.prios = new]
<1>1. t \in TorrentImpl
  BY DEF TypeOK
<1>2. t' = s
      /\ \/ work' = work \o <<Prioritized(prios), ApplyFirstLastPiecePriority(s)>>
         \/ work' = work \o <<Prioritized(prios)>>
  BY DEF PrioritizeFiles, Does, Prioritized
<1>3. finished \in BOOLEAN /\ new \in Priorities
  BY <1>1, TorrentParts
<1> HIDE DEF finished, new
<1>4. s \in TorrentImpl /\ SameFiles(t, s) /\ s.prios = new
  BY <1>1, <1>3 DEF TorrentImpl, SameFiles, SameNames, SamePieces
<1> HIDE DEF s
<1>5. ApplyFirstLastPiecePriority(s) = Wanted(FilePriorities(s))
  BY DEF ApplyFirstLastPiecePriority, Wanted
<1>6. Prioritized(prios) \in Request /\ Wanted(FilePriorities(s)) \in Request
  BY RequestTypes, PiecesWantedType DEF Prioritized, Wanted
<1> QED BY <1>2, <1>4, <1>5, <1>6 DEF new

LEMMA FirstLastIs ==
    ASSUME TypeOK, SetFirstLastPiecePriority
    PROVE  /\ t' \in TorrentImpl /\ SameFiles(t, t') /\ t'.prios = t.prios
           /\ Wanted(FilePriorities(t)) \in Request
           /\ work' = work \o <<Wanted(FilePriorities(t))>>
<1>1. t \in TorrentImpl
  BY DEF TypeOK
<1>2. (~t.firstLast) \in BOOLEAN
  OBVIOUS
<1>3. t' = [t EXCEPT !.firstLast = ~t.firstLast]
      /\ work' = work \o <<ApplyFirstLastPiecePriority(t)>>
  BY DEF SetFirstLastPiecePriority, Does
<1>4. ApplyFirstLastPiecePriority(t) = Wanted(FilePriorities(t))
  BY DEF ApplyFirstLastPiecePriority, Wanted
<1>5. Wanted(FilePriorities(t)) \in Request
  BY RequestTypes, PiecesWantedType DEF Wanted
<1>6. t' \in TorrentImpl /\ SameFiles(t, t') /\ t'.prios = t.prios
  BY <1>1, <1>2, <1>3 DEF TorrentImpl, SameFiles, SameNames, SamePieces
<1> QED BY <1>3, <1>4, <1>5, <1>6

LEMMA RenameFileIs ==
    ASSUME TypeOK, NEW f \in File, NEW path \in Path, RenameFile(f, path)
    PROVE  /\ t' \in TorrentImpl /\ SameNames(t, t') /\ SamePieces(t, t')
           /\ t'.completed = t.completed /\ t'.prios = t.prios
           /\ t'.renames = t.renames + 1 /\ t'.announcing = t.announcing
           /\ path \in UserPath
           /\ \E r \in Request : /\ r.do = "rename" /\ r.file = f /\ r.to.path = path
                                 /\ work' = work \o <<r>>
<1>1. t \in TorrentImpl
  BY DEF TypeOK
<1>2. t' = [t EXCEPT !.renames = @ + 1] /\ path \in UserPath
      /\ work' = work \o <<Rename(f, WantedActualPath(t, append, f, path))>>
  BY DEF RenameFile, Does
<1>3. t.renames + 1 \in Int
  BY <1>1, TorrentParts
<1>4. /\ t' \in TorrentImpl /\ SameNames(t, t') /\ SamePieces(t, t')
      /\ t'.completed = t.completed /\ t'.prios = t.prios
      /\ t'.renames = t.renames + 1 /\ t'.announcing = t.announcing
  BY <1>1, <1>2, <1>3 DEF TorrentImpl, SameNames, SamePieces
<1> DEFINE r == Rename(f, WantedActualPath(t, append, f, path))
<1>5. r \in Request /\ r.do = "rename" /\ r.file = f /\ r.to.path = path
  BY WantedNameIs, RequestTypes
<1> HIDE DEF r
<1>6. work' = work \o <<r>>
  BY <1>2 DEF r
<1> QED BY <1>2, <1>4, <1>5, <1>6

LEMMA ToggleIs ==
    ASSUME TypeOK, ToggleAppendExtension
    PROVE  /\ t' \in TorrentImpl /\ SameNames(t, t') /\ SamePieces(t, t')
           /\ t'.completed = t.completed /\ t'.prios = t.prios /\ t'.announcing = t.announcing
           /\ \E n \in Nat : t'.renames = t.renames + n /\ Asks(n, FALSE)
<1> DEFINE R == ManageIncompleteFiles(t, append')
<1>1. t \in TorrentImpl
  BY DEF TypeOK
<1>2. t' = Managed(t, append') /\ work' = work \o R
  BY DEF ToggleAppendExtension, Does
<1>3. /\ t' \in TorrentImpl /\ SameNames(t, t') /\ SamePieces(t, t')
      /\ t'.completed = t.completed /\ t'.prios = t.prios /\ t'.announcing = t.announcing
      /\ t'.renames = t.renames + Len(R)
  BY <1>1, <1>2, ManagedKeeps
<1>4. Renames(R, t) /\ Len(R) \in Nat
  BY <1>1, ManagedIs
<1> HIDE DEF R
<1>5. Asks(Len(R), FALSE)
  BY <1>2, <1>4, AsksRenames
<1> QED BY <1>3, <1>4, <1>5

LEMMA RecheckIs ==
    ASSUME TypeOK, Recheck
    PROVE  /\ t' \in TorrentImpl /\ SameNames(t, t') /\ Rechecked(t, t')
           /\ t'.prios = t.prios /\ t'.announcing = t.announcing /\ t'.renames = t.renames
           /\ Asks(0, TRUE)
<1>1. t \in TorrentImpl
  BY DEF TypeOK
<1>2. t' = ForceRecheck(t) /\ work' = work \o <<[do |-> "recheck"]>>
  BY DEF Recheck, Does
<1>3. work' = work \o Append(<<>>, [do |-> "recheck"])
  BY <1>2
<1>4. Asks(0, TRUE)
  BY <1>3, NoRenames, AsksRecheck
<1> QED BY <1>1, <1>2, <1>4, ForceRecheckIs

(* Every step of the program adds requests to those that wait.             *)
LEMMA WorkGrows ==
    ASSUME TypeOK, NEW R \in Seq(Request), work' = work \o R
    PROVE  /\ work' \in Seq(Request)
           /\ Number(work', Renamings) = Number(work, Renamings) + Number(R, Renamings)
           /\ Rechecks(work') <=> Rechecks(work) \/ Rechecks(R)
<1>1. work \in Seq(Request)
  BY DEF TypeOK
<1>2. Rechecks(work \o R) => Rechecks(work) \/ Rechecks(R)
  <2> SUFFICES ASSUME NEW i \in DOMAIN (work \o R), (work \o R)[i].do = "recheck"
               PROVE  Rechecks(work) \/ Rechecks(R)
    BY DEF Rechecks
  <2>1. CASE i \in DOMAIN work
    BY <1>1, <2>1, Joined DEF Rechecks
  <2>2. CASE i > Len(work) /\ i - Len(work) \in DOMAIN R
    <3>1. Len(work) \in Int /\ i \in Int
      BY <1>1, Joined, Elements
    <3>2. (i - Len(work)) + Len(work) = i
      BY <3>1
    <3> QED BY <1>1, <2>2, <3>2, Joined DEF Rechecks
  <2> QED BY <1>1, <2>1, <2>2, Joined
<1>3. ASSUME NEW i \in DOMAIN work, work[i].do = "recheck"
      PROVE  Rechecks(work \o R)
  BY <1>1, <1>3, Joined DEF Rechecks
<1>4. ASSUME NEW i \in DOMAIN R, R[i].do = "recheck"
      PROVE  Rechecks(work \o R)
  <2>1. i + Len(work) \in DOMAIN (work \o R) /\ (work \o R)[i + Len(work)] = R[i]
    BY <1>1, Joined
  <2>2. (work \o R)[i + Len(work)].do = "recheck"
    BY <1>4, <2>1
  <2> QED BY <2>1, <2>2 DEF Rechecks
<1>5. Rechecks(work \o R) <=> Rechecks(work) \/ Rechecks(R)
  BY <1>2, <1>3, <1>4 DEF Rechecks
<1> QED BY <1>1, <1>5, Joined, NumberJoined

LEMMA AsksGrow ==
    ASSUME TypeOK, NEW n, NEW again, Asks(n, again)
    PROVE  /\ work' \in Seq(Request)
           /\ Number(work', Renamings) = Number(work, Renamings) + n
           /\ Rechecks(work') <=> Rechecks(work) \/ again
BY WorkGrows DEF Asks

LEMMA PlainGrow ==
    ASSUME TypeOK, NEW R \in Seq(Request), Plain(R), work' = work \o R
    PROVE  /\ work' \in Seq(Request)
           /\ Number(work', Renamings) = Number(work, Renamings)
           /\ Rechecks(work') <=> Rechecks(work)
<1>1. Number(work, Renamings) \in Nat
  BY PositionsFinite DEF TypeOK
<1> QED BY <1>1, WorkGrows, PlainAre

-----------------------------------------------------------------------------
(* What libtorrent does.                                                   *)

Only(reports, kinds) == \A i \in DOMAIN reports : reports[i].is \in kinds

(* Nothing changes on the disk; nothing changes of what is wished.         *)
SameDisk(n, x) == x.have = n.have /\ x.checking = n.checking /\ x.paths = n.paths
SameWishes(n, x) == x.prios = n.prios /\ x.wanted = n.wanted

NativeIs(n, x) == SameDisk(n, x) /\ SameWishes(n, x)

LEMMA OnlyJoined ==
    ASSUME NEW x \in Seq(Alert), NEW y \in Seq(Alert), NEW kinds, NEW more,
           Only(x, kinds), Only(y, more)
    PROVE  Only(x \o y, kinds \union more)
<1> SUFFICES ASSUME NEW i \in DOMAIN (x \o y)
             PROVE  (x \o y)[i].is \in kinds \union more
  BY DEF Only
<1>1. CASE i \in DOMAIN x
  BY <1>1, Joined DEF Only
<1>2. CASE i > Len(x) /\ i - Len(x) \in DOMAIN y
  <2>1. Len(x) \in Int /\ i \in Int
    BY Joined, Elements
  <2>2. (i - Len(x)) + Len(x) = i
    BY <2>1
  <2>3. (x \o y)[i] = y[i - Len(x)]
    BY <1>2, <2>2, Joined
  <2> QED BY <1>2, <2>3 DEF Only
<1> QED BY <1>1, <1>2, Joined

LEMMA NativeBecomesIs ==
    ASSUME TypeOK, NEW n \in Native, NEW reports \in Seq(Alert), NativeBecomes(n, reports)
    PROVE  /\ native' \in Native /\ NativeIs(n, native') /\ native'.updated
           /\ \E end \in Seq(Alert) : /\ Only(end, {"finished"})
                                      /\ reports \o end \in Seq(Alert)
                                      /\ alerts' = alerts \o (reports \o end)
<1> DEFINE done == ~n.checking /\ n.wanted \subseteq n.have
           end == IF done /\ ~n.finished THEN <<[is |-> "finished"]>> ELSE <<>>
<1>1. native' = [n EXCEPT !.finished = done, !.modified = TRUE, !.updated = TRUE]
      /\ alerts' = alerts \o reports \o end
  BY DEF NativeBecomes
<1>2. done \in BOOLEAN
  OBVIOUS
<1>3. end \in Seq(Alert) /\ Only(end, {"finished"})
  BY AlertTypes DEF Only
<1> HIDE DEF done, end
<1>4. native' \in Native /\ NativeIs(n, native') /\ native'.updated
  BY <1>1, <1>2 DEF Native, NativeIs, SameDisk, SameWishes
<1>5. alerts \in Seq(Alert)
  BY DEF TypeOK
<1>6. reports \o end \in Seq(Alert) /\ alerts' = alerts \o (reports \o end)
  BY <1>1, <1>3, <1>5, ConcatAssociative, ConcatProperties
<1> QED BY <1>3, <1>4, <1>6

LEMMA CompletedAre ==
    ASSUME NEW files \in SUBSET File
    PROVE  /\ Completed(files) \in Seq(Alert) /\ Only(Completed(files), {"completed"})
           /\ \A i \in DOMAIN Completed(files) : Completed(files)[i].file \in files
           /\ \A f \in files : \E i \in DOMAIN Completed(files) : Completed(files)[i].file = f
<1> DEFINE seq == SetToSeq(files)
           R == Completed(files)
<1>1. seq \in Seq(files) /\ \A f \in files : \E i \in DOMAIN seq : seq[i] = f
  BY FilesAssumption, FS_Subset, Listed
<1>2. DOMAIN seq = 1 .. Len(seq) /\ Len(seq) \in Nat /\ \A i \in DOMAIN seq : seq[i] \in files
  BY <1>1, Elements
<1>3. R = [i \in DOMAIN seq |-> [is |-> "completed", file |-> seq[i]]]
  BY DEF Completed
<1> HIDE DEF seq, R
<1>4. \A i \in DOMAIN seq : [is |-> "completed", file |-> seq[i]] \in Alert
  BY <1>2, AlertTypes
<1>5. R \in Seq(Alert)
  BY <1>2, <1>3, <1>4
<1>6. \A i \in DOMAIN R : i \in DOMAIN seq /\ R[i].is = "completed" /\ R[i].file = seq[i]
  BY <1>3
<1>7. DOMAIN R = DOMAIN seq
  BY <1>3
<1> QED BY <1>1, <1>2, <1>5, <1>6, <1>7 DEF R, Only

LEMMA ParamsOfIs ==
    ASSUME NEW n \in Native
    PROVE  /\ ParamsOf(n) \in Params
           /\ \A f \in File : ParamsOf(n).renamed[f] =
                 IF n.paths[f] = OnDisk(Original, FALSE) THEN NoPath ELSE n.paths[f].path
<1> DEFINE renamed == [f \in File |-> IF n.paths[f] = OnDisk(Original, FALSE) THEN NoPath
                                      ELSE n.paths[f].path]
<1>1. \A f \in File : n.paths[f].path \in Path
  BY NativeParts DEF DiskName
<1>2. renamed \in [File -> Path \union {NoPath}]
  BY <1>1
<1>3. ParamsOf(n) = [prios |-> n.prios, renamed |-> renamed]
  BY DEF ParamsOf
<1>4. n.prios \in Priorities
  BY NativeParts
<1>5. \A f \in File : renamed[f] =
         IF n.paths[f] = OnDisk(Original, FALSE) THEN NoPath ELSE n.paths[f].path
  OBVIOUS
<1> HIDE DEF renamed
<1>6. ParamsOf(n) \in Params /\ ParamsOf(n).renamed = renamed
  BY <1>2, <1>3, <1>4 DEF Params
<1> QED BY <1>5, <1>6

Failed(r) == [is |-> "rename_failed", file |-> r.file]
RenamedTo(r) == [is |-> "renamed", file |-> r.file, path |-> r.to.path]
SavedAs(n) == [is |-> "saved", params |-> ParamsOf(n)]

(* How a request is carried out, with the reports that are made.           *)
CarriedOut(r, reports) ==
    \/ /\ r.do = "prioritize" /\ Only(reports, {"finished"})
       /\ native'.prios = r.prios /\ native'.wanted = PiecesWanted(r.prios)
       /\ SameDisk(native, native') /\ native'.updated
    \/ /\ r.do = "wanted" /\ Only(reports, {"finished"})
       /\ native'.prios = native.prios /\ native'.wanted = r.pieces
       /\ SameDisk(native, native') /\ native'.updated
    \/ /\ r.do = "rename"
       /\ \E end \in Seq(Alert) : /\ Only(end, {"finished"})
                                  /\ reports = <<RenamedTo(r)>> \o end
       /\ native'.paths = [native.paths EXCEPT ![r.file] = r.to]
       /\ native'.have = native.have /\ native'.checking = native.checking
       /\ SameWishes(native, native') /\ native'.updated
    \/ /\ r.do = "rename" /\ reports = <<Failed(r)>> /\ native' = native
    \/ /\ r.do = "recheck" /\ Only(reports, {"finished"})
       /\ native'.have = {} /\ native'.checking /\ native'.paths = native.paths
       /\ SameWishes(native, native') /\ native'.updated
    \/ /\ r.do = "save" /\ reports = <<SavedAs(native)>>
       /\ NativeIs(native, native') /\ native'.updated = native.updated

LEMMA NativeRequestIs ==
    ASSUME TypeOK, NativeRequest
    PROVE  /\ work # <<>> /\ Head(work) \in Request /\ work' = Tail(work)
           /\ work' \in Seq(Request) /\ native' \in Native
           /\ \E reports \in Seq(Alert) : /\ alerts' = alerts \o reports
                                          /\ CarriedOut(Head(work), reports)
<1> DEFINE r == Head(work)
<1>1. work # <<>> /\ work' = Tail(work)
  BY DEF NativeRequest
<1>2. work' \in Seq(Request) /\ r \in Request
  BY <1>1, Rest DEF TypeOK
<1>3. native \in Native /\ alerts \in Seq(Alert) /\ <<>> \in Seq(Alert)
  BY DEF TypeOK
<1>4. \/ /\ r.do = "prioritize"
         /\ NativeBecomes([native EXCEPT !.prios = r.prios,
                                         !.wanted = PiecesWanted(r.prios)], <<>>)
      \/ /\ r.do = "wanted"
         /\ NativeBecomes([native EXCEPT !.wanted = r.pieces], <<>>)
      \/ /\ r.do = "rename"
         /\ NativeBecomes([native EXCEPT !.paths = [@ EXCEPT ![r.file] = r.to]],
                          <<RenamedTo(r)>>)
      \/ /\ r.do = "rename"
         /\ alerts' = Append(alerts, Failed(r))
         /\ UNCHANGED native
      \/ /\ r.do = "recheck"
         /\ NativeBecomes([native EXCEPT !.have = {}, !.checking = TRUE], <<>>)
      \/ /\ r.do = "save"
         /\ native' = [native EXCEPT !.modified = FALSE]
         /\ alerts' = Append(alerts, SavedAs(native))
  BY DEF NativeRequest, RenamedTo, Failed, SavedAs
<1> HIDE DEF r
<1> DEFINE Goal == /\ native' \in Native
                   /\ \E reports \in Seq(Alert) : alerts' = alerts \o reports /\ CarriedOut(r, reports)
<1>5. ASSUME NEW n \in Native, NativeBecomes(n, <<>>)
      PROVE  /\ native' \in Native /\ NativeIs(n, native') /\ native'.updated
             /\ \E reports \in Seq(Alert) : /\ alerts' = alerts \o reports
                                            /\ Only(reports, {"finished"})
  <2>1. /\ native' \in Native /\ NativeIs(n, native') /\ native'.updated
        /\ \E end \in Seq(Alert) : /\ Only(end, {"finished"})
                                   /\ alerts' = alerts \o (<<>> \o end)
    BY <1>3, <1>5, NativeBecomesIs
  <2>2. \A end \in Seq(Alert) : <<>> \o end = end
    BY ConcatEmptySeq
  <2> QED BY <2>1, <2>2
<1>6. ASSUME /\ r.do = "prioritize"
             /\ NativeBecomes([native EXCEPT !.prios = r.prios,
                                             !.wanted = PiecesWanted(r.prios)], <<>>)
      PROVE  Goal
  <2> DEFINE prios == r.prios
             wanted == PiecesWanted(prios)
             n == [native EXCEPT !.prios = prios, !.wanted = wanted]
  <2>1. prios \in Priorities /\ wanted \in SUBSET Piece
    BY <1>2, <1>6, RequestParts, PiecesWantedType
  <2>2. NativeBecomes(n, <<>>)
    BY <1>6
  <2> HIDE DEF wanted, prios
  <2>3. n \in Native /\ SameDisk(native, n) /\ n.prios = prios /\ n.wanted = wanted
    BY <1>3, <2>1 DEF Native, SameDisk
  <2> HIDE DEF n
  <2>4. native'.prios = prios /\ native'.wanted = wanted /\ SameDisk(native, native')
    BY <1>5, <2>2, <2>3 DEF NativeIs, SameDisk, SameWishes
  <2> QED BY <1>5, <1>6, <2>2, <2>3, <2>4 DEF CarriedOut, wanted, prios
<1>7. ASSUME /\ r.do = "wanted"
             /\ NativeBecomes([native EXCEPT !.wanted = r.pieces], <<>>)
      PROVE  Goal
  <2> DEFINE wanted == r.pieces
             n == [native EXCEPT !.wanted = wanted]
  <2>1. wanted \in SUBSET Piece
    BY <1>2, <1>7, RequestParts
  <2>2. NativeBecomes(n, <<>>)
    BY <1>7
  <2> HIDE DEF wanted
  <2>3. n \in Native /\ SameDisk(native, n) /\ n.prios = native.prios /\ n.wanted = wanted
    BY <1>3, <2>1 DEF Native, SameDisk
  <2> HIDE DEF n
  <2>4. native'.prios = native.prios /\ native'.wanted = wanted /\ SameDisk(native, native')
    BY <1>5, <2>2, <2>3 DEF NativeIs, SameDisk, SameWishes
  <2> QED BY <1>5, <1>7, <2>2, <2>3, <2>4 DEF CarriedOut, wanted
<1>8. ASSUME /\ r.do = "rename"
             /\ NativeBecomes([native EXCEPT !.paths = [@ EXCEPT ![r.file] = r.to]],
                              <<RenamedTo(r)>>)
      PROVE  Goal
  <2> DEFINE paths == [native.paths EXCEPT ![r.file] = r.to]
             n == [native EXCEPT !.paths = paths]
  <2>1. r.file \in File /\ r.to \in DiskName /\ r.to.path \in Path
    BY <1>2, <1>8, RequestParts DEF DiskName
  <2>2. paths \in [File -> DiskName]
    BY <1>3, <2>1, NativeParts
  <2>3. NativeBecomes(n, <<RenamedTo(r)>>)
    BY <1>8
  <2> HIDE DEF paths
  <2>4. /\ n \in Native /\ n.paths = paths /\ n.have = native.have /\ n.checking = native.checking
        /\ SameWishes(native, n)
    BY <1>3, <2>2 DEF Native, DiskName, SameWishes
  <2> HIDE DEF n
  <2>5. RenamedTo(r) \in Alert /\ <<RenamedTo(r)>> \in Seq(Alert)
    BY <2>1, AlertTypes DEF RenamedTo
  <2>6. /\ native' \in Native /\ NativeIs(n, native') /\ native'.updated
        /\ \E end \in Seq(Alert) : /\ Only(end, {"finished"})
                                   /\ <<RenamedTo(r)>> \o end \in Seq(Alert)
                                   /\ alerts' = alerts \o (<<RenamedTo(r)>> \o end)
    BY <2>3, <2>4, <2>5, NativeBecomesIs
  <2>7. /\ native'.paths = paths /\ native'.have = native.have /\ native'.checking = native.checking
        /\ SameWishes(native, native')
    BY <2>4, <2>6 DEF NativeIs, SameDisk, SameWishes
  <2> QED BY <1>8, <2>6, <2>7 DEF CarriedOut, paths
<1>9. ASSUME r.do = "rename" /\ alerts' = Append(alerts, Failed(r)) /\ UNCHANGED native
      PROVE  Goal
  <2>1. Failed(r) \in Alert
    BY <1>2, <1>9, RequestParts, AlertTypes DEF Failed
  <2>2. <<Failed(r)>> \in Seq(Alert) /\ alerts' = alerts \o <<Failed(r)>>
    BY <1>3, <1>9, <2>1, AppendIsConcat
  <2> QED BY <1>3, <1>9, <2>2 DEF CarriedOut
<1>10. ASSUME /\ r.do = "recheck"
              /\ NativeBecomes([native EXCEPT !.have = {}, !.checking = TRUE], <<>>)
      PROVE  Goal
  <2> DEFINE n == [native EXCEPT !.have = {}, !.checking = TRUE]
  <2>1. /\ n \in Native /\ n.have = {} /\ n.checking = TRUE /\ n.paths = native.paths
        /\ SameWishes(native, n)
    BY <1>3 DEF Native, SameWishes
  <2>2. NativeBecomes(n, <<>>)
    BY <1>10
  <2> HIDE DEF n
  <2>3. /\ native'.have = {} /\ native'.checking /\ native'.paths = native.paths
        /\ SameWishes(native, native')
    BY <1>5, <2>1, <2>2 DEF NativeIs, SameDisk, SameWishes
  <2> QED BY <1>5, <1>10, <2>1, <2>2, <2>3 DEF CarriedOut
<1>11. ASSUME /\ r.do = "save"
              /\ native' = [native EXCEPT !.modified = FALSE]
              /\ alerts' = Append(alerts, SavedAs(native))
      PROVE  Goal
  <2>1. SavedAs(native) \in Alert
    BY <1>3, ParamsOfIs, AlertTypes DEF SavedAs
  <2>2. <<SavedAs(native)>> \in Seq(Alert) /\ alerts' = alerts \o <<SavedAs(native)>>
    BY <1>3, <1>11, <2>1, AppendIsConcat
  <2>3. native' \in Native /\ NativeIs(native, native') /\ native'.updated = native.updated
    BY <1>3, <1>11 DEF Native, NativeIs, SameDisk, SameWishes
  <2> QED BY <1>11, <2>2, <2>3 DEF CarriedOut
<1>12. Goal
  BY <1>4, <1>6, <1>7, <1>8, <1>9, <1>10, <1>11
<1> QED BY <1>1, <1>2, <1>12 DEF r

(* Is there a report that file f is complete?                              *)
Completes(reports, f) ==
    \E i \in DOMAIN reports : reports[i].is = "completed" /\ reports[i].file = f

LEMMA CompletesJoined ==
    ASSUME NEW x \in Seq(Alert), NEW y \in Seq(Alert), NEW f
    PROVE  Completes(x \o y, f) <=> Completes(x, f) \/ Completes(y, f)
<1>1. ASSUME NEW i \in DOMAIN x, x[i].is = "completed", x[i].file = f
      PROVE  Completes(x \o y, f)
  BY <1>1, Joined DEF Completes
<1>2. ASSUME NEW i \in DOMAIN y, y[i].is = "completed", y[i].file = f
      PROVE  Completes(x \o y, f)
  <2>1. i + Len(x) \in DOMAIN (x \o y) /\ (x \o y)[i + Len(x)] = y[i]
    BY Joined
  <2>2. (x \o y)[i + Len(x)].is = "completed" /\ (x \o y)[i + Len(x)].file = f
    BY <1>2, <2>1
  <2> QED BY <2>1, <2>2 DEF Completes
<1>3. ASSUME NEW i \in DOMAIN (x \o y), (x \o y)[i].is = "completed", (x \o y)[i].file = f
      PROVE  Completes(x, f) \/ Completes(y, f)
  <2>1. CASE i \in DOMAIN x
    BY <1>3, <2>1, Joined DEF Completes
  <2>2. CASE i > Len(x) /\ i - Len(x) \in DOMAIN y
    <3>1. Len(x) \in Int /\ i \in Int
      BY Joined, Elements
    <3>2. (i - Len(x)) + Len(x) = i
      BY <3>1
    <3>3. (x \o y)[i] = y[i - Len(x)]
      BY <2>2, <3>2, Joined
    <3> QED BY <1>3, <2>2, <3>3 DEF Completes
  <2> QED BY <2>1, <2>2, Joined
<1> QED BY <1>1, <1>2, <1>3 DEF Completes

LEMMA CompletesFiles ==
    ASSUME NEW files \in SUBSET File, NEW rest \in Seq(Alert), NEW kinds,
           Only(rest, kinds), "completed" \notin kinds
    PROVE  /\ Completed(files) \o rest \in Seq(Alert)
           /\ Only(Completed(files) \o rest, kinds \union {"completed"})
           /\ \A f \in File : Completes(Completed(files) \o rest, f) <=> f \in files
<1>1. /\ Completed(files) \in Seq(Alert) /\ Only(Completed(files), {"completed"})
      /\ \A i \in DOMAIN Completed(files) : Completed(files)[i].file \in files
      /\ \A f \in files : \E i \in DOMAIN Completed(files) : Completed(files)[i].file = f
  BY CompletedAre
<1>2. Completed(files) \o rest \in Seq(Alert)
  BY <1>1, Joined
<1>3. Only(Completed(files) \o rest, {"completed"} \union kinds)
  BY <1>1, OnlyJoined
<1>4. \A f \in File : Completes(Completed(files), f) <=> f \in files
  BY <1>1 DEF Completes, Only
<1>5. \A f \in File : ~Completes(rest, f)
  BY DEF Completes, Only
<1>6. \A f \in File : Completes(Completed(files) \o rest, f) <=> f \in files
  BY <1>1, <1>4, <1>5, CompletesJoined
<1>7. {"completed"} \union kinds = kinds \union {"completed"}
  OBVIOUS
<1> QED BY <1>2, <1>3, <1>6, <1>7

LEMMA NativePieceIs ==
    ASSUME TypeOK, NEW p \in Piece, NativePiece(p)
    PROVE  /\ ~native.checking /\ native' \in Native
           /\ native'.have = native.have \union {p} /\ native'.checking = native.checking
           /\ native'.paths = native.paths /\ SameWishes(native, native') /\ native'.updated
           /\ \E reports \in Seq(Alert) :
                 /\ alerts' = alerts \o reports
                 /\ Only(reports, {"finished", "completed"})
                 /\ \A f \in File : Completes(reports, f) <=>
                       p \in PiecesOf[f] /\ PiecesOf[f] \subseteq native.have \union {p}
<1> DEFINE have == native.have \union {p}
           files == {f \in File : p \in PiecesOf[f] /\ PiecesOf[f] \subseteq have}
           n == [native EXCEPT !.have = have]
<1>1. native \in Native /\ ~native.checking /\ NativeBecomes(n, Completed(files))
  BY DEF NativePiece, TypeOK
<1>2. have \in SUBSET Piece
  BY <1>1, NativeParts
<1>3. files \in SUBSET File /\ \A f \in File : f \in files <=>
         p \in PiecesOf[f] /\ PiecesOf[f] \subseteq native.have \union {p}
  OBVIOUS
<1> HIDE DEF files
<1>4. Completed(files) \in Seq(Alert)
  BY <1>3, CompletedAre
<1>5. native.have \union {p} = have
  OBVIOUS
<1> HIDE DEF have
<1>6. /\ n \in Native /\ n.have = have /\ n.checking = native.checking
      /\ n.paths = native.paths /\ SameWishes(native, n)
  BY <1>1, <1>2 DEF Native, SameWishes
<1> HIDE DEF n
<1>7. /\ native' \in Native /\ NativeIs(n, native') /\ native'.updated
      /\ \E end \in Seq(Alert) : /\ Only(end, {"finished"})
                                 /\ Completed(files) \o end \in Seq(Alert)
                                 /\ alerts' = alerts \o (Completed(files) \o end)
  BY <1>1, <1>4, <1>6, NativeBecomesIs
<1>8. \E reports \in Seq(Alert) :
         /\ alerts' = alerts \o reports
         /\ Only(reports, {"finished", "completed"})
         /\ \A f \in File : Completes(reports, f) <=> f \in files
  <2>1. PICK end \in Seq(Alert) : /\ Only(end, {"finished"})
                                  /\ Completed(files) \o end \in Seq(Alert)
                                  /\ alerts' = alerts \o (Completed(files) \o end)
    BY <1>7
  <2>2. /\ Only(Completed(files) \o end, {"finished"} \union {"completed"})
        /\ \A f \in File : Completes(Completed(files) \o end, f) <=> f \in files
    BY <1>3, <2>1, CompletesFiles
  <2>3. {"finished"} \union {"completed"} = {"finished", "completed"}
    OBVIOUS
  <2> QED BY <2>1, <2>2, <2>3
<1>9. /\ native'.have = have /\ native'.checking = native.checking
      /\ native'.paths = native.paths /\ SameWishes(native, native')
  BY <1>6, <1>7 DEF NativeIs, SameDisk, SameWishes
<1> QED BY <1>1, <1>3, <1>5, <1>7, <1>8, <1>9

LEMMA NativeCheckedIs ==
    ASSUME TypeOK, NativeChecked
    PROVE  /\ native.checking /\ native' \in Native
           /\ ~native'.checking /\ native'.paths = native.paths
           /\ SameWishes(native, native') /\ native'.updated
           /\ \E reports \in Seq(Alert) :
                 /\ alerts' = alerts \o reports
                 /\ Only(reports, {"checked", "finished", "completed"})
                 /\ \A f \in File : Completes(reports, f) <=>
                       PiecesOf[f] # {} /\ PiecesOf[f] \subseteq native'.have
<1> DEFINE checked == <<[is |-> "checked"]>>
           Files(have) == {f \in File : PiecesOf[f] # {} /\ PiecesOf[f] \subseteq have}
           n(have) == [native EXCEPT !.have = have, !.checking = FALSE]
<1>1. PICK have \in SUBSET Piece : NativeBecomes(n(have), Completed(Files(have)) \o checked)
  BY DEF NativeChecked
<1>2. native \in Native /\ native.checking
  BY DEF NativeChecked, TypeOK
<1>3. Files(have) \in SUBSET File /\ \A f \in File : f \in Files(have) <=>
         PiecesOf[f] # {} /\ PiecesOf[f] \subseteq have
  OBVIOUS
<1> HIDE DEF Files
<1>4. checked \in Seq(Alert) /\ Only(checked, {"checked"})
  BY AlertTypes DEF Only
<1> HIDE DEF checked
<1>5. Completed(Files(have)) \in Seq(Alert) /\ Completed(Files(have)) \o checked \in Seq(Alert)
  BY <1>3, <1>4, CompletedAre, Joined
<1>6. /\ n(have) \in Native /\ n(have).have = have /\ n(have).checking = FALSE
      /\ n(have).paths = native.paths /\ SameWishes(native, n(have))
  BY <1>2 DEF Native, SameWishes
<1> HIDE DEF n
<1>7. /\ native' \in Native /\ NativeIs(n(have), native') /\ native'.updated
      /\ \E end \in Seq(Alert) :
            /\ Only(end, {"finished"})
            /\ alerts' = alerts \o ((Completed(Files(have)) \o checked) \o end)
  BY <1>1, <1>5, <1>6, NativeBecomesIs
<1>8. \E reports \in Seq(Alert) :
         /\ alerts' = alerts \o reports
         /\ Only(reports, {"checked", "finished", "completed"})
         /\ \A f \in File : Completes(reports, f) <=> f \in Files(have)
  <2>1. PICK end \in Seq(Alert) :
            /\ Only(end, {"finished"})
            /\ alerts' = alerts \o ((Completed(Files(have)) \o checked) \o end)
    BY <1>7
  <2>2. (Completed(Files(have)) \o checked) \o end = Completed(Files(have)) \o (checked \o end)
    BY <1>4, <1>5, ConcatAssociative
  <2>3. checked \o end \in Seq(Alert) /\ Only(checked \o end, {"checked", "finished"})
    <3>1. {"checked"} \union {"finished"} = {"checked", "finished"}
      OBVIOUS
    <3> QED BY <1>4, <2>1, <3>1, OnlyJoined, Joined
  <2>4. "completed" \notin {"checked", "finished"}
    OBVIOUS
  <2>5. /\ Completed(Files(have)) \o (checked \o end) \in Seq(Alert)
        /\ Only(Completed(Files(have)) \o (checked \o end), {"checked", "finished"} \union {"completed"})
        /\ \A f \in File : Completes(Completed(Files(have)) \o (checked \o end), f) <=> f \in Files(have)
    BY <1>3, <2>3, <2>4, CompletesFiles
  <2>6. {"checked", "finished"} \union {"completed"} = {"checked", "finished", "completed"}
    OBVIOUS
  <2> QED BY <2>1, <2>2, <2>5, <2>6
<1>9. /\ native'.have = have /\ ~native'.checking
      /\ native'.paths = native.paths /\ SameWishes(native, native')
  BY <1>6, <1>7 DEF NativeIs, SameDisk, SameWishes
<1> QED BY <1>2, <1>3, <1>7, <1>8, <1>9

LEMMA NativeStatusIs ==
    ASSUME TypeOK, NativeStatus
    PROVE  /\ work = <<>> /\ \A i \in DOMAIN alerts : alerts[i].is # "status"
           /\ native' \in Native /\ NativeIs(native, native') /\ ~native'.updated
           /\ \E a \in Alert : /\ a.is = "status" /\ a.status.have = native.have
                               /\ a.status.checking = native.checking
                               /\ <<a>> \in Seq(Alert)
                               /\ alerts' = alerts \o <<a>>
<1> DEFINE done == native.wanted \subseteq native.have
           wanted == native.wanted # {}
           status == [have |-> native.have, done |-> done, wanted |-> wanted,
                      checking |-> native.checking, modified |-> native.modified]
           a == [is |-> "status", status |-> status]
<1>1. /\ work = <<>> /\ \A i \in DOMAIN alerts : alerts[i].is # "status"
      /\ native' = [native EXCEPT !.updated = FALSE] /\ alerts' = Append(alerts, a)
  BY DEF NativeStatus
<1>2. native \in Native /\ alerts \in Seq(Alert)
  BY DEF TypeOK
<1>3. done \in BOOLEAN /\ wanted \in BOOLEAN
  OBVIOUS
<1> HIDE DEF done, wanted
<1>4. status \in Status /\ status.have = native.have /\ status.checking = native.checking
  BY <1>2, <1>3, NativeParts DEF Status
<1> HIDE DEF status
<1>5. a \in Alert /\ a.is = "status" /\ a.status = status
  BY <1>4, AlertTypes
<1> HIDE DEF a
<1>6. <<a>> \in Seq(Alert) /\ alerts' = alerts \o <<a>>
  BY <1>1, <1>2, <1>5, AppendIsConcat
<1>7. native' \in Native /\ NativeIs(native, native') /\ ~native'.updated
  BY <1>1, <1>2 DEF Native, NativeIs, SameDisk, SameWishes
<1> QED BY <1>1, <1>4, <1>5, <1>6, <1>7

-----------------------------------------------------------------------------
(* Type correctness.                                                       *)

LEMMA InitTypes == Init => TypeOK
<1> SUFFICES ASSUME Init PROVE TypeOK
  OBVIOUS
<1>1. PICK finished \in BOOLEAN, firstLast \in BOOLEAN, paths \in [File -> UserPath] :
         LET wanted == [f \in File |-> TRUE]
         IN  /\ t = [params |-> [renamed |-> Stored(paths), prios |-> wanted],
                     paths |-> paths, prios |-> wanted,
                     completed |-> {}, progress |-> [p \in Piece |-> 0], pieces |-> {},
                     status |-> [have |-> {}, done |-> FALSE, wanted |-> TRUE,
                                 checking |-> TRUE, modified |-> FALSE],
                     finished |-> finished, unchecked |-> FALSE, firstLast |-> firstLast,
                     renames |-> 0, triggers |-> <<>>, announcing |-> 0]
             /\ native = [have |-> {}, wanted |-> PiecesWanted(wanted), prios |-> wanted,
                          paths |-> [f \in File |-> OnDisk(paths[f], append)],
                          checking |-> TRUE, finished |-> FALSE,
                          modified |-> FALSE, updated |-> TRUE]
  BY DEF Init
<1> DEFINE wanted == [f \in File |-> TRUE]
           params == [renamed |-> Stored(paths), prios |-> wanted]
           progress == [p \in Piece |-> 0]
           status == [have |-> {}, done |-> FALSE, wanted |-> TRUE,
                      checking |-> TRUE, modified |-> FALSE]
           pieces == PiecesWanted(wanted)
           disk == [f \in File |-> OnDisk(paths[f], append)]
           none == <<>>
<1>2. /\ mode \in Modes /\ append \in BOOLEAN /\ work = <<>> /\ alerts = <<>>
      /\ reading = 0 /\ saving = FALSE /\ late = FALSE /\ events = 0
  BY DEF Init
<1>3. /\ t = [params |-> params, paths |-> paths, prios |-> wanted,
              completed |-> {}, progress |-> progress, pieces |-> {}, status |-> status,
              finished |-> finished, unchecked |-> FALSE, firstLast |-> firstLast,
              renames |-> 0, triggers |-> none, announcing |-> 0]
      /\ native = [have |-> {}, wanted |-> pieces, prios |-> wanted, paths |-> disk,
                   checking |-> TRUE, finished |-> FALSE, modified |-> FALSE, updated |-> TRUE]
  BY <1>1
<1>4. paths \in [File -> Path]
  BY PathsAre
<1>5. Stored(paths) \in [File -> Path \union {NoPath}]
  BY <1>4 DEF Stored
<1>6. wanted \in Priorities /\ progress \in [Piece -> Nat] /\ none \in Seq(Trigger)
  BY DEF Priorities
<1>7. params \in Params
  BY <1>5, <1>6 DEF Params
<1>8. status \in Status
  BY DEF Status
<1>9. pieces \in SUBSET Piece
  BY PiecesWantedType
<1>10. disk \in [File -> DiskName]
  BY <1>2, <1>4, DiskNameIs
<1> HIDE DEF wanted, params, progress, status, pieces, disk, none
<1>11. t \in TorrentImpl
  BY <1>3, <1>4, <1>6, <1>7, <1>8 DEF TorrentImpl
<1>12. native \in Native
  BY <1>3, <1>6, <1>9, <1>10 DEF Native, DiskName
<1>13. work \in Seq(Request) /\ alerts \in Seq(Alert) /\ Len(alerts) = 0
  BY <1>2
<1>14. events \in 0 .. MaxEvents /\ reading \in 0 .. Len(alerts)
  BY <1>2, <1>13, FilesAssumption
<1> QED BY <1>2, <1>11, <1>12, <1>13, <1>14 DEF TypeOK

LEMMA AlertsTail ==
    ASSUME TypeOK, HandleAlert
    PROVE  \E next \in Seq(Trigger) :
              /\ next = (IF Head(alerts).is = "status" THEN t.triggers ELSE <<>>)
              /\ next \in Seq(Alert) /\ Tail(alerts) \in Seq(Alert)
              /\ alerts' = next \o Tail(alerts)
              /\ alerts' \in Seq(Alert) /\ reading' \in 0 .. Len(alerts')
<1> DEFINE next == IF Head(alerts).is = "status" THEN t.triggers ELSE <<>>
<1>1. alerts' = next \o Tail(alerts) /\ reading' = Len(next) + reading - 1 /\ reading > 0
  BY DEF HandleAlert
<1>2. alerts \in Seq(Alert) /\ reading \in 0 .. Len(alerts) /\ t \in TorrentImpl /\ alerts # <<>>
  BY HandleAlertIs DEF TypeOK
<1>3. next \in Seq(Trigger)
  BY <1>2, TorrentParts
<1> HIDE DEF next
<1>4. next \in Seq(Alert) /\ Len(next) \in Nat
  BY <1>3, TriggerTypes, Elements
<1>5. Tail(alerts) \in Seq(Alert) /\ Len(Tail(alerts)) = Len(alerts) - 1 /\ Len(alerts) \in Nat
  BY <1>2, HeadTailProperties, Elements
<1>6. alerts' \in Seq(Alert) /\ Len(alerts') = Len(next) + (Len(alerts) - 1)
  BY <1>1, <1>4, <1>5, ConcatProperties
<1>7. reading' \in 0 .. Len(alerts')
  BY <1>1, <1>2, <1>4, <1>5, <1>6
<1> QED BY <1>1, <1>3, <1>4, <1>5, <1>6, <1>7 DEF next

(* What a call of the user does to the rest.                               *)
LEMMA EventIs ==
    ASSUME TypeOK, Event
    PROVE  /\ mode' \in Modes /\ mode' = mode /\ native' = native /\ alerts' = alerts
           /\ reading' = reading /\ late' = late
           /\ native' \in Native /\ alerts' \in Seq(Alert) /\ reading' \in 0 .. Len(alerts')
           /\ late' \in BOOLEAN /\ events' \in 0 .. MaxEvents
<1>1. events' \in 0 .. MaxEvents
  BY FilesAssumption DEF Event, TypeOK
<1>2. /\ mode' = mode /\ native' = native /\ alerts' = alerts
      /\ reading' = reading /\ late' = late
  BY DEF Event
<1> QED BY <1>1, <1>2 DEF TypeOK

LEMMA NativeGrows ==
    ASSUME TypeOK, NEW reports \in Seq(Alert), alerts' = alerts \o reports
    PROVE  alerts' \in Seq(Alert) /\ (reading' = reading => reading' \in 0 .. Len(alerts'))
<1>1. alerts \in Seq(Alert) /\ reading \in 0 .. Len(alerts)
  BY DEF TypeOK
<1>2. alerts' \in Seq(Alert) /\ Len(alerts') = Len(alerts) + Len(reports)
  BY <1>1, ConcatProperties
<1>3. Len(alerts) \in Nat /\ Len(reports) \in Nat
  BY <1>1, Elements
<1> QED BY <1>1, <1>2, <1>3

LEMMA TypeStep == TypeOK /\ [Next]_vars => TypeOK'
<1> SUFFICES ASSUME TypeOK, [Next]_vars PROVE TypeOK'
  OBVIOUS
<1>1. ASSUME NEW prios \in Priorities, PrioritizeFiles(prios) PROVE TypeOK'
  <2>1. Event /\ append' = append
    BY <1>1 DEF PrioritizeFiles
  <2>2. saving' = (saving \/ FALSE)
    BY <1>1 DEF PrioritizeFiles, Does
  <2>3. work' \in Seq(Request)
    <3> DEFINE q == Prioritized(prios)
               r == Wanted(FilePriorities(t'))
    <3>1. q \in Request /\ r \in Request /\ (work' = work \o <<q>> \/ work' = work \o <<q, r>>)
      BY <1>1, PrioritizeIs
    <3> HIDE DEF q, r
    <3>2. <<q>> \in Seq(Request) /\ <<q, r>> \in Seq(Request)
      BY <3>1
    <3>3. work \in Seq(Request)
      BY DEF TypeOK
    <3> QED BY <3>1, <3>2, <3>3, Joined
  <2>4. t' \in TorrentImpl
    BY <1>1, PrioritizeIs
  <2> QED BY <2>1, <2>2, <2>3, <2>4, EventIs DEF TypeOK
<1>2. CASE SetFirstLastPiecePriority
  <2>1. Event /\ append' = append
    BY <1>2 DEF SetFirstLastPiecePriority
  <2>2. saving' = (saving \/ TRUE)
    BY <1>2 DEF SetFirstLastPiecePriority, Does
  <2>3. work' \in Seq(Request) /\ t' \in TorrentImpl
    <3>1. <<Wanted(FilePriorities(t))>> \in Seq(Request) /\ work \in Seq(Request)
      BY <1>2, FirstLastIs, SingleIs DEF TypeOK
    <3> QED BY <1>2, <3>1, FirstLastIs, Joined
  <2> QED BY <2>1, <2>2, <2>3, EventIs DEF TypeOK
<1>3. ASSUME NEW f \in File, NEW path \in Path, RenameFile(f, path) PROVE TypeOK'
  <2>1. Event /\ append' = append
    BY <1>3 DEF RenameFile
  <2>2. saving' = (saving \/ FALSE)
    BY <1>3 DEF RenameFile, Does
  <2>3. work' \in Seq(Request) /\ t' \in TorrentImpl
    <3>1. PICK r \in Request : work' = work \o <<r>>
      BY <1>3, RenameFileIs
    <3>2. <<r>> \in Seq(Request) /\ work \in Seq(Request)
      BY SingleIs DEF TypeOK
    <3> QED BY <1>3, <3>1, <3>2, RenameFileIs, Joined
  <2> QED BY <2>1, <2>2, <2>3, EventIs DEF TypeOK
<1>4. CASE ToggleAppendExtension
  <2>1. Event /\ append' = (~append)
    BY <1>4 DEF ToggleAppendExtension
  <2>2. saving' = (saving \/ FALSE)
    BY <1>4 DEF ToggleAppendExtension, Does
  <2>3. work' \in Seq(Request) /\ t' \in TorrentImpl
    BY <1>4, ToggleIs, AsksGrow
  <2> QED BY <2>1, <2>2, <2>3, EventIs DEF TypeOK
<1>5. CASE Recheck
  <2>1. Event /\ append' = append
    BY <1>5 DEF Recheck
  <2>2. saving' = (saving \/ FALSE)
    BY <1>5 DEF Recheck, Does
  <2>3. work' \in Seq(Request) /\ t' \in TorrentImpl
    BY <1>5, RecheckIs, AsksGrow
  <2> QED BY <2>1, <2>2, <2>3, EventIs DEF TypeOK
<1>6. CASE SaveResumeData
  <2>1. work' \in Seq(Request)
    <3>1. work \in Seq(Request) /\ [do |-> "save"] \in Request
      BY RequestTypes DEF TypeOK
    <3>2. work' = Append(work, [do |-> "save"])
      BY <1>6 DEF SaveResumeData
    <3> QED BY <3>1, <3>2, AppendProperties
  <2> QED BY <1>6, <2>1 DEF SaveResumeData, TypeOK
<1>7. CASE ReadAlerts
  <2>1. reading' = Len(alerts) /\ Len(alerts) \in Nat
    BY <1>7, Elements DEF ReadAlerts, TypeOK
  <2>2. reading' \in 0 .. Len(alerts)
    BY <2>1
  <2> QED BY <1>7, <2>2 DEF ReadAlerts, TypeOK
<1>8. CASE HandleAlert
  <2>1. t' \in TorrentImpl /\ work' \in Seq(Request)
    BY <1>8, HandleAlertIs, AsksGrow DEF Handled
  <2>2. alerts' \in Seq(Alert) /\ reading' \in 0 .. Len(alerts')
    BY <1>8, AlertsTail
  <2>3. /\ mode' = mode /\ append' = append /\ native' = native /\ events' = events
        /\ late' \in BOOLEAN
    BY <1>8 DEF HandleAlert
  <2>4. saving' \in BOOLEAN
    <3>1. \E save : saving' = (saving \/ save)
      BY <1>8 DEF HandleAlert, HandleFileCompleted, HandleFileRenamed, HandleFileRenameFailed,
         HandleTorrentChecked, HandleTorrentFinished, HandleSaveResumeData, UpdateStatus,
         RunChecked, RunFinished, Does
    <3> QED BY <3>1
  <2> QED BY <2>1, <2>2, <2>3, <2>4 DEF TypeOK
<1>9. CASE NativeRequest
  <2>1. work' \in Seq(Request) /\ native' \in Native
        /\ \E reports \in Seq(Alert) : alerts' = alerts \o reports
    BY <1>9, NativeRequestIs
  <2>2. /\ mode' = mode /\ append' = append /\ t' = t /\ reading' = reading
        /\ saving' = saving /\ events' = events /\ late' \in BOOLEAN
    BY <1>9 DEF NativeRequest
  <2> QED BY <2>1, <2>2, NativeGrows DEF TypeOK
<1>10. ASSUME NEW p \in Piece, NativePiece(p) PROVE TypeOK'
  <2>1. native' \in Native /\ \E reports \in Seq(Alert) : alerts' = alerts \o reports
    BY <1>10, NativePieceIs
  <2>2. UNCHANGED <<mode, append, t, work, reading, saving, late, events>>
    BY <1>10 DEF NativePiece
  <2> QED BY <2>1, <2>2, NativeGrows DEF TypeOK
<1>11. CASE NativeChecked
  <2>1. native' \in Native /\ \E reports \in Seq(Alert) : alerts' = alerts \o reports
    BY <1>11, NativeCheckedIs
  <2>2. UNCHANGED <<mode, append, t, work, reading, saving, late, events>>
    BY <1>11 DEF NativeChecked
  <2> QED BY <2>1, <2>2, NativeGrows DEF TypeOK
<1>12. CASE NativeStatus
  <2>1. native' \in Native /\ \E reports \in Seq(Alert) : alerts' = alerts \o reports
    BY <1>12, NativeStatusIs
  <2>2. UNCHANGED <<mode, append, t, work, reading, saving, late, events>>
    BY <1>12 DEF NativeStatus
  <2> QED BY <2>1, <2>2, NativeGrows DEF TypeOK
<1>13. CASE UNCHANGED vars
  BY <1>13 DEF vars, TypeOK
<1> QED BY <1>1, <1>2, <1>3, <1>4, <1>5, <1>6, <1>7, <1>8, <1>9, <1>10, <1>11, <1>12, <1>13
    DEF Next

THEOREM TypeCorrect == Spec => []TypeOK
BY InitTypes, TypeStep, PTL DEF Spec

-----------------------------------------------------------------------------
(* The renames that are counted.                                           *)

CountInv ==
    /\ t.renames = Number(work, Renamings) + Number(alerts, Answers)
    /\ t.announcing > 0 => t.renames > 0

LEMMA NoAnswers ==
    ASSUME NEW reports \in Seq(Alert), NEW kinds, Only(reports, kinds),
           "renamed" \notin kinds, "rename_failed" \notin kinds
    PROVE  Number(reports, Answers) = 0
<1>1. \A i \in DOMAIN reports : reports[i] \notin Answers
  BY DEF Only, Answers
<1> QED BY <1>1, PositionsFinite

LEMMA OneAnswer ==
    ASSUME NEW a \in Alert, a \in Answers, NEW rest \in Seq(Alert), Only(rest, {"finished"})
    PROVE  Number(<<a>> \o rest, Answers) = 1 /\ Number(<<a>>, Answers) = 1
<1>1. <<a>> \in Seq(Alert) /\ DOMAIN <<a>> = {1} /\ <<a>>[1] = a /\ Len(<<a>>) = 1
  OBVIOUS
<1>2. Number(<<a>>, Answers) = 1
  BY <1>1, NumberAll
<1>3. Number(rest, Answers) = 0
  <2>1. "renamed" \notin {"finished"} /\ "rename_failed" \notin {"finished"}
    OBVIOUS
  <2> QED BY <2>1, NoAnswers
<1>4. Number(<<a>> \o rest, Answers) = Number(<<a>>, Answers) + Number(rest, Answers)
  BY <1>1, NumberJoined
<1> QED BY <1>2, <1>3, <1>4

LEMMA CountsAre ==
    ASSUME TypeOK
    PROVE  /\ Number(work, Renamings) \in Nat /\ Number(alerts, Answers) \in Nat
           /\ t.renames \in Int /\ t.announcing \in Nat
BY PositionsFinite, TorrentParts DEF TypeOK

LEMMA InitCounts == Init => CountInv
<1> SUFFICES ASSUME Init PROVE CountInv
  OBVIOUS
<1>1. work = <<>> /\ alerts = <<>> /\ t.renames = 0 /\ t.announcing = 0
  BY DEF Init
<1> QED BY <1>1, NumberEmpty DEF CountInv

LEMMA CountStep == TypeOK /\ CountInv /\ [Next]_vars => CountInv'
<1> SUFFICES ASSUME TypeOK, CountInv, [Next]_vars PROVE CountInv'
  OBVIOUS
<1> USE CountsAre
<1>1. ASSUME alerts' = alerts, t'.announcing = t.announcing,
             NEW n \in Nat, NEW again, Asks(n, again), t'.renames = t.renames + n
      PROVE  CountInv'
  <2>1. Number(work', Renamings) = Number(work, Renamings) + n
    BY <1>1, AsksGrow
  <2> QED BY <1>1, <2>1 DEF CountInv
<1>2. ASSUME NEW prios \in Priorities, PrioritizeFiles(prios) PROVE CountInv'
  <2> DEFINE q == Prioritized(prios)
             r == Wanted(FilePriorities(t'))
  <2>1. /\ q \in Request /\ r \in Request /\ (work' = work \o <<q>> \/ work' = work \o <<q, r>>)
        /\ SameFiles(t, t')
    BY <1>2, PrioritizeIs
  <2>2. q.do = "prioritize" /\ r.do = "wanted"
    BY DEF Prioritized, Wanted
  <2> HIDE DEF q, r
  <2>3. /\ <<q>> \in Seq(Request) /\ Plain(<<q>>)
        /\ <<q, r>> \in Seq(Request) /\ Plain(<<q, r>>)
    BY <2>1, <2>2, SingleIs, PairIs
  <2>5. Number(work', Renamings) = Number(work, Renamings)
    <3>1. CASE work' = work \o <<q>>
      BY <2>3, <3>1, PlainGrow
    <3>2. CASE work' = work \o <<q, r>>
      BY <2>3, <3>2, PlainGrow
    <3> QED BY <2>1, <3>1, <3>2
  <2>4. alerts' = alerts
    BY <1>2 DEF PrioritizeFiles, Event
  <2> QED BY <2>1, <2>4, <2>5 DEF CountInv, SameFiles
<1>3. CASE SetFirstLastPiecePriority
  <2> DEFINE r == Wanted(FilePriorities(t))
  <2>1. r \in Request /\ work' = work \o <<r>> /\ SameFiles(t, t')
    BY <1>3, FirstLastIs
  <2>2. r.do = "wanted"
    BY DEF Wanted
  <2> HIDE DEF r
  <2>3. Number(work', Renamings) = Number(work, Renamings)
    BY <2>1, <2>2, SingleIs, PlainGrow
  <2>4. alerts' = alerts
    BY <1>3 DEF SetFirstLastPiecePriority, Event
  <2> QED BY <2>1, <2>3, <2>4 DEF CountInv, SameFiles
<1>4. ASSUME NEW f \in File, NEW path \in Path, RenameFile(f, path) PROVE CountInv'
  <2>1. PICK r \in Request : r.do = "rename" /\ work' = work \o <<r>>
    BY <1>4, RenameFileIs
  <2>2. t'.renames = t.renames + 1 /\ t'.announcing = t.announcing /\ alerts' = alerts
    BY <1>4, RenameFileIs DEF RenameFile, Event
  <2>3. Number(<<r>>, Renamings) = 1 /\ <<r>> \in Seq(Request)
    <3>1. <<r>> \in Seq(Request) /\ Len(<<r>>) = 1 /\ \A i \in DOMAIN <<r>> : <<r>>[i] \in Renamings
      BY <2>1 DEF Renamings
    <3> QED BY <3>1, NumberAll
  <2>4. Number(work', Renamings) = Number(work, Renamings) + 1
    BY <2>1, <2>3, WorkGrows
  <2> QED BY <2>2, <2>4 DEF CountInv
<1>5. CASE ToggleAppendExtension
  <2>1. alerts' = alerts
    BY <1>5 DEF ToggleAppendExtension, Event
  <2> QED BY <1>1, <1>5, <2>1, ToggleIs
<1>6. CASE Recheck
  <2>1. alerts' = alerts
    BY <1>6 DEF Recheck, Event
  <2>2. t'.renames = t.renames /\ t'.announcing = t.announcing /\ Asks(0, TRUE)
    BY <1>6, RecheckIs
  <2>3. t'.renames = t.renames + 0
    BY <2>2
  <2> QED BY <1>1, <2>1, <2>2, <2>3
<1>7. CASE SaveResumeData
  <2>1. work' = work \o <<[do |-> "save"]>> /\ t' = t /\ alerts' = alerts
    BY <1>7, RequestTypes, AppendIsConcat DEF SaveResumeData, TypeOK
  <2>2. Number(work', Renamings) = Number(work, Renamings)
    <3>1. [do |-> "save"] \in Request /\ [do |-> "save"].do = "save"
      BY RequestTypes
    <3> QED BY <2>1, <3>1, SingleIs, PlainGrow
  <2> QED BY <2>1, <2>2 DEF CountInv
<1>8. CASE ReadAlerts
  BY <1>8 DEF ReadAlerts, CountInv
<1>9. CASE HandleAlert
  <2> DEFINE a == Head(alerts)
  <2>1. alerts # <<>> /\ a \in Alert /\ Handled(a)
    BY <1>9, HandleAlertIs
  <2>2. PICK n \in Nat, again \in BOOLEAN : Asks(n, again) /\ RenamesHandled(a, n)
    BY <2>1 DEF Handled
  <2>3. Number(work', Renamings) = Number(work, Renamings) + n
    BY <2>2, AsksGrow
  <2>4. PICK next \in Seq(Trigger) : /\ next \in Seq(Alert) /\ Tail(alerts) \in Seq(Alert)
                                     /\ alerts' = next \o Tail(alerts)
    BY <1>9, AlertsTail
  <2>5. Number(next, Answers) = 0
    <3>1. Only(next, {"run_checked", "run_finished"})
      BY Elements, TriggerTypes DEF Only
    <3> QED BY <2>4, <3>1, NoAnswers
  <2>6. Number(Tail(alerts), Answers) \in Nat
    BY <2>4, PositionsFinite
  <2>7. Number(alerts', Answers) = Number(Tail(alerts), Answers)
    <3>1. Number(alerts', Answers) = Number(next, Answers) + Number(Tail(alerts), Answers)
      BY <2>4, NumberJoined
    <3> QED BY <2>5, <2>6, <3>1
  <2>8. Number(alerts, Answers) = Number(alerts', Answers) + IF a \in Answers THEN 1 ELSE 0
    BY <2>1, <2>7, NumberRest DEF TypeOK
  <2> HIDE DEF a
  <2>9. t'.renames = Number(work', Renamings) + Number(alerts', Answers)
    BY <2>2, <2>3, <2>6, <2>7, <2>8 DEF CountInv, RenamesHandled
  <2>10. t'.announcing > 0 => t'.renames > 0
    <3>1. t' \in TorrentImpl
      BY <2>1 DEF Handled
    <3>2. t'.announcing \in Nat
      BY <3>1, TorrentParts
    <3>3. CASE t'.announcing = 0
      BY <3>3
    <3>4. CASE t'.announcing = t.announcing /\ t'.announcing > 0 /\ ~(a \in Answers /\ t.renames = 1)
      BY <2>2, <3>4 DEF CountInv, RenamesHandled
    <3> QED BY <2>2, <3>2, <3>3, <3>4 DEF RenamesHandled
  <2> QED BY <2>9, <2>10 DEF CountInv
<1>10. CASE NativeRequest
  <2> DEFINE r == Head(work)
  <2>1. work # <<>> /\ r \in Request /\ work' = Tail(work) /\ work' \in Seq(Request)
    BY <1>10, NativeRequestIs
  <2>2. PICK reports \in Seq(Alert) : alerts' = alerts \o reports /\ CarriedOut(r, reports)
    BY <1>10, NativeRequestIs
  <2>3. Number(work, Renamings) = Number(work', Renamings) + IF r \in Renamings THEN 1 ELSE 0
    BY <2>1, NumberRest DEF TypeOK
  <2>4. r \in Renamings <=> r.do = "rename"
    BY <2>1 DEF Renamings
  <2>5. Number(alerts', Answers) = Number(alerts, Answers) + Number(reports, Answers)
    BY <2>2, NumberJoined DEF TypeOK
  <2>6. Number(work', Renamings) \in Nat
    BY <2>1, PositionsFinite
  <2> HIDE DEF r
  <2>7. Number(reports, Answers) = IF r.do = "rename" THEN 1 ELSE 0
    <3>1. CASE r.do = "rename"
      <4>1. r.file \in File /\ r.to.path \in Path
        BY <2>1, <3>1, RequestParts DEF r, DiskName
      <4>2. RenamedTo(r) \in Alert /\ RenamedTo(r) \in Answers
        BY <4>1, AlertTypes DEF RenamedTo, Answers
      <4>3. Failed(r) \in Alert /\ Failed(r) \in Answers
        BY <4>1, AlertTypes DEF Failed, Answers
      <4>4. <<>> \in Seq(Alert) /\ Only(<<>>, {"finished"})
        BY DEF Only
      <4>5. \/ \E end \in Seq(Alert) : Only(end, {"finished"}) /\ reports = <<RenamedTo(r)>> \o end
            \/ reports = <<Failed(r)>>
        BY <2>2, <3>1 DEF CarriedOut
      <4> QED BY <3>1, <4>2, <4>3, <4>4, <4>5, OneAnswer
    <3>2. CASE r.do = "save"
      <4>1. Only(reports, {"saved"})
        BY <2>2, <3>2 DEF CarriedOut, Only, SavedAs
      <4> QED BY <3>2, <4>1, NoAnswers
    <3>3. CASE r.do \notin {"rename", "save"}
      <4>1. Only(reports, {"finished"})
        BY <2>2, <3>3 DEF CarriedOut
      <4> QED BY <3>3, <4>1, NoAnswers
    <3> QED BY <3>1, <3>2, <3>3
  <2>8. t' = t
    BY <1>10 DEF NativeRequest
  <2> QED BY <2>3, <2>4, <2>5, <2>6, <2>7, <2>8 DEF CountInv
<1>11. ASSUME NEW reports \in Seq(Alert), alerts' = alerts \o reports,
              Number(reports, Answers) = 0, work' = work, t' = t
       PROVE  CountInv'
  <2>1. Number(alerts', Answers) = Number(alerts, Answers)
    BY <1>11, NumberJoined DEF TypeOK
  <2> QED BY <1>11, <2>1 DEF CountInv
<1>12. ASSUME NEW p \in Piece, NativePiece(p) PROVE CountInv'
  <2>1. PICK reports \in Seq(Alert) : /\ alerts' = alerts \o reports
                                      /\ Only(reports, {"finished", "completed"})
    BY <1>12, NativePieceIs
  <2>2. work' = work /\ t' = t
    BY <1>12 DEF NativePiece
  <2> QED BY <1>11, <2>1, <2>2, NoAnswers
<1>13. CASE NativeChecked
  <2>1. PICK reports \in Seq(Alert) : /\ alerts' = alerts \o reports
                                      /\ Only(reports, {"checked", "finished", "completed"})
    BY <1>13, NativeCheckedIs
  <2>2. work' = work /\ t' = t
    BY <1>13 DEF NativeChecked
  <2> QED BY <1>11, <2>1, <2>2, NoAnswers
<1>14. CASE NativeStatus
  <2>1. PICK a \in Alert : a.is = "status" /\ <<a>> \in Seq(Alert) /\ alerts' = alerts \o <<a>>
    BY <1>14, NativeStatusIs
  <2>2. work' = work /\ t' = t
    BY <1>14 DEF NativeStatus
  <2>3. Only(<<a>>, {"status"})
    BY <2>1 DEF Only
  <2> QED BY <1>11, <2>1, <2>2, <2>3, NoAnswers
<1>15. CASE UNCHANGED vars
  BY <1>15 DEF vars, CountInv
<1> QED BY <1>2, <1>3, <1>4, <1>5, <1>6, <1>7, <1>8, <1>9, <1>10, <1>12, <1>13, <1>14, <1>15
    DEF Next

LEMMA CountsProperty == TypeOK /\ CountInv => RenamesAreCounted
<1> SUFFICES ASSUME TypeOK, CountInv PROVE RenamesAreCounted
  OBVIOUS
<1>1. {i \in DOMAIN work : work[i].do = "rename"} = Positions(work, Renamings)
  BY Elements DEF TypeOK, Positions, Renamings
<1>2. {i \in DOMAIN alerts : alerts[i].is \in {"renamed", "rename_failed"}} = Positions(alerts, Answers)
  BY Elements DEF TypeOK, Positions, Answers
<1> QED BY <1>1, <1>2 DEF CountInv, RenamesAreCounted, Number

(* m_renameCount is the number of the renames that libtorrent has not      *)
(* answered for, and nothing else holds the end of a download back.        *)
THEOREM RenamesCount == Spec => []RenamesAreCounted
<1>1. Init => TypeOK /\ CountInv
  BY InitTypes, InitCounts
<1>2. TypeOK /\ CountInv /\ [Next]_vars => TypeOK' /\ CountInv'
  BY TypeStep, CountStep
<1>3. TypeOK /\ CountInv => RenamesAreCounted
  BY CountsProperty
<1> QED BY <1>1, <1>2, <1>3, PTL DEF Spec

-----------------------------------------------------------------------------
(* The names of files.                                                     *)

(* The alert bears a new name of f; it tells its name, one way or another. *)
Bears(a, f) == a.is = "renamed" /\ a.file = f
Names(a, f) == Bears(a, f) \/ (mode.deferPaths /\ a.is = "saved")
NameIn(a, f) == IF a.is = "renamed" THEN a.path ELSE Resolved(a.params, f)

NoneBears(x, f) == \A i \in DOMAIN x : ~Bears(x[i], f)

(* What is told of the name of a file is true, unless a new one follows.   *)
Tells(x, paths) ==
    \A f \in File : \A i \in DOMAIN x :
        Names(x[i], f) /\ (\A j \in DOMAIN x : j > i => ~Bears(x[j], f))
            => NameIn(x[i], f) = paths[f].path

Asked(w) == \A i \in DOMAIN w : w[i].do = "rename" => w[i].to.path \in UserPath
Told(x) == \A i \in DOMAIN x : \A f \in File : Names(x[i], f) => NameIn(x[i], f) \in UserPath

PathsHold(n, s, w, x) ==
    /\ \A f \in File : n.paths[f].path \in UserPath /\ FilePath(s, f) \in UserPath
    /\ Asked(w) /\ Told(x)
    /\ Tells(x, n.paths)
    /\ \A f \in File : NoneBears(x, f) => FilePath(s, f) = n.paths[f].path

PathsInv == PathsHold(native, t, work, alerts)

LEMMA PathsPrimed ==
    ASSUME mode' = mode, PathsHold(native', t', work', alerts')
    PROVE  PathsInv'
BY DEF PathsInv, PathsHold, Asked, Told, Tells, NoneBears, Names, NameIn, Bears, FilePath,
       Resolved, UserPath, DefaultPath

LEMMA AskedJoined ==
    ASSUME NEW w \in Seq(Request), NEW R \in Seq(Request), Asked(w), Asked(R)
    PROVE  Asked(w \o R)
<1> SUFFICES ASSUME NEW i \in DOMAIN (w \o R), (w \o R)[i].do = "rename"
             PROVE  (w \o R)[i].to.path \in UserPath
  BY DEF Asked
<1>1. CASE i \in DOMAIN w
  BY <1>1, Joined DEF Asked
<1>2. CASE i > Len(w) /\ i - Len(w) \in DOMAIN R
  <2>1. Len(w) \in Int /\ i \in Int
    BY Joined, Elements
  <2>2. (i - Len(w)) + Len(w) = i
    BY <2>1
  <2>3. (w \o R)[i] = R[i - Len(w)]
    BY <1>2, <2>2, Joined
  <2> QED BY <1>2, <2>3 DEF Asked
<1> QED BY <1>1, <1>2, Joined

LEMMA ToldJoined ==
    ASSUME NEW x \in Seq(Alert), NEW y \in Seq(Alert), Told(x), Told(y)
    PROVE  Told(x \o y)
<1> SUFFICES ASSUME NEW i \in DOMAIN (x \o y), NEW f \in File, Names((x \o y)[i], f)
             PROVE  NameIn((x \o y)[i], f) \in UserPath
  BY DEF Told
<1>1. CASE i \in DOMAIN x
  BY <1>1, Joined DEF Told
<1>2. CASE i > Len(x) /\ i - Len(x) \in DOMAIN y
  <2>1. Len(x) \in Int /\ i \in Int
    BY Joined, Elements
  <2>2. (i - Len(x)) + Len(x) = i
    BY <2>1
  <2>3. (x \o y)[i] = y[i - Len(x)]
    BY <1>2, <2>2, Joined
  <2> QED BY <1>2, <2>3 DEF Told
<1> QED BY <1>1, <1>2, Joined

LEMMA NoneBearsJoined ==
    ASSUME NEW x \in Seq(Alert), NEW y \in Seq(Alert), NEW f, NoneBears(x \o y, f)
    PROVE  NoneBears(x, f) /\ NoneBears(y, f)
<1>1. NoneBears(x, f)
  BY Joined DEF NoneBears
<1>2. ASSUME NEW j \in DOMAIN y, Bears(y[j], f)
      PROVE  FALSE
  <2>1. j + Len(x) \in DOMAIN (x \o y) /\ (x \o y)[j + Len(x)] = y[j]
    BY Joined
  <2>2. Bears((x \o y)[j + Len(x)], f)
    BY <1>2, <2>1
  <2> QED BY <2>1, <2>2 DEF NoneBears
<1> QED BY <1>1, <1>2 DEF NoneBears

LEMMA TellsJoined ==
    ASSUME NEW x \in Seq(Alert), NEW y \in Seq(Alert), NEW before, NEW after,
           Tells(x, before), Tells(y, after),
           \A f \in File : NoneBears(y, f) => after[f].path = before[f].path
    PROVE  Tells(x \o y, after)
<1> SUFFICES ASSUME NEW f \in File, NEW i \in DOMAIN (x \o y), Names((x \o y)[i], f),
                    \A j \in DOMAIN (x \o y) : j > i => ~Bears((x \o y)[j], f)
             PROVE  NameIn((x \o y)[i], f) = after[f].path
  BY DEF Tells
<1>0. Len(x) \in Int /\ DOMAIN x \subseteq Int /\ DOMAIN y \subseteq Int /\ i \in Int
  BY Joined, Elements
<1>1. CASE i \in DOMAIN x
  <2>1. (x \o y)[i] = x[i] /\ i <= Len(x)
    BY <1>1, Joined
  <2>2. ASSUME NEW j \in DOMAIN x, j > i PROVE ~Bears(x[j], f)
    BY <2>2, Joined
  <2>3. ASSUME NEW j \in DOMAIN y PROVE ~Bears(y[j], f)
    <3>1. j + Len(x) \in DOMAIN (x \o y) /\ (x \o y)[j + Len(x)] = y[j] /\ j + Len(x) > Len(x)
      BY Joined
    <3>2. j + Len(x) > i
      BY <1>0, <2>1, <3>1
    <3>3. ~Bears((x \o y)[j + Len(x)], f)
      BY <3>1, <3>2
    <3> QED BY <3>1, <3>3
  <2>4. NoneBears(y, f)
    BY <2>3 DEF NoneBears
  <2>5. NameIn(x[i], f) = before[f].path
    BY <1>1, <2>1, <2>2 DEF Tells
  <2> QED BY <2>1, <2>4, <2>5
<1>2. CASE i > Len(x) /\ i - Len(x) \in DOMAIN y
  <2> DEFINE k == i - Len(x)
  <2>1. k + Len(x) = i /\ k \in Int /\ k \in DOMAIN y
    BY <1>0, <1>2
  <2> HIDE DEF k
  <2>2. (x \o y)[i] = y[k]
    BY <2>1, Joined
  <2>3. ASSUME NEW j \in DOMAIN y, j > k PROVE ~Bears(y[j], f)
    <3>1. j + Len(x) \in DOMAIN (x \o y) /\ (x \o y)[j + Len(x)] = y[j]
      BY Joined
    <3>2. j + Len(x) > i
      BY <1>0, <2>1, <2>3
    <3>3. ~Bears((x \o y)[j + Len(x)], f)
      BY <3>1, <3>2
    <3> QED BY <3>1, <3>3
  <2> QED BY <2>1, <2>2, <2>3 DEF Tells
<1> QED BY <1>1, <1>2, Joined

(* Of the first alert, and of those after it.                              *)
LEMMA TellsRest ==
    ASSUME NEW x \in Seq(Alert), x # <<>>, NEW paths, Tells(x, paths), Told(x)
    PROVE  /\ Tells(Tail(x), paths) /\ Told(Tail(x))
           /\ \A f \in File : NoneBears(Tail(x), f) /\ Names(Head(x), f)
                 => NameIn(Head(x), f) = paths[f].path
           /\ \A f \in File : Names(Head(x), f) => NameIn(Head(x), f) \in UserPath
           /\ \A f \in File : NoneBears(Tail(x), f) /\ ~Bears(Head(x), f) => NoneBears(x, f)
<1>1. /\ Tail(x) \in Seq(Alert) /\ Head(x) = x[1] /\ 1 \in DOMAIN x
      /\ \A i \in DOMAIN Tail(x) : i + 1 \in DOMAIN x /\ i + 1 > 1 /\ Tail(x)[i] = x[i + 1]
      /\ \A i \in DOMAIN x : i # 1 => i - 1 \in DOMAIN Tail(x) /\ Tail(x)[i - 1] = x[i]
  BY Rest
<1>2. DOMAIN x \subseteq Int /\ DOMAIN Tail(x) \subseteq Int
  BY <1>1, Elements
<1>3. ASSUME NEW f \in File, NEW i \in DOMAIN Tail(x), Names(Tail(x)[i], f),
             \A j \in DOMAIN Tail(x) : j > i => ~Bears(Tail(x)[j], f)
      PROVE  NameIn(Tail(x)[i], f) = paths[f].path
  <2>1. i + 1 \in DOMAIN x /\ Tail(x)[i] = x[i + 1]
    BY <1>1
  <2>2. ASSUME NEW j \in DOMAIN x, j > i + 1 PROVE ~Bears(x[j], f)
    <3>1. j # 1 /\ j - 1 > i
      BY <1>1, <1>2, <2>2
    <3>2. j - 1 \in DOMAIN Tail(x) /\ Tail(x)[j - 1] = x[j]
      BY <1>1, <3>1
    <3>3. ~Bears(Tail(x)[j - 1], f)
      BY <1>3, <3>1, <3>2
    <3> QED BY <3>2, <3>3
  <2> DEFINE k == i + 1
  <2>3. k \in DOMAIN x /\ Names(x[k], f) /\ (\A j \in DOMAIN x : j > k => ~Bears(x[j], f))
    BY <1>3, <2>1, <2>2
  <2> HIDE DEF k
  <2>4. NameIn(x[k], f) = paths[f].path
    BY <2>3 DEF Tells
  <2> QED BY <2>1, <2>4 DEF k
<1>4. ASSUME NEW f \in File, NoneBears(Tail(x), f), NEW j \in DOMAIN x, j # 1
      PROVE  ~Bears(x[j], f)
  <2>1. j - 1 \in DOMAIN Tail(x) /\ Tail(x)[j - 1] = x[j]
    BY <1>1, <1>4
  <2>2. ~Bears(Tail(x)[j - 1], f)
    BY <1>4, <2>1 DEF NoneBears
  <2> QED BY <2>1, <2>2
<1>5. ASSUME NEW f \in File, NoneBears(Tail(x), f), Names(Head(x), f)
      PROVE  NameIn(Head(x), f) = paths[f].path
  <2>1. \A j \in DOMAIN x : j > 1 => ~Bears(x[j], f)
    BY <1>2, <1>4, <1>5
  <2> QED BY <1>1, <1>5, <2>1 DEF Tells
<1>6. Told(Tail(x))
  BY <1>1 DEF Told
<1>7. \A f \in File : Names(Head(x), f) => NameIn(Head(x), f) \in UserPath
  BY <1>1 DEF Told
<1>8. \A f \in File : NoneBears(Tail(x), f) /\ ~Bears(Head(x), f) => NoneBears(x, f)
  BY <1>1, <1>4 DEF NoneBears
<1> QED BY <1>3, <1>5, <1>6, <1>7, <1>8 DEF Tells

(* Reports that say nothing of names.                                      *)
LEMMA NamelessAre ==
    ASSUME NEW y \in Seq(Alert), NEW kinds, Only(y, kinds),
           "renamed" \notin kinds, "saved" \notin kinds
    PROVE  Told(y) /\ (\A paths : Tells(y, paths)) /\ (\A f : NoneBears(y, f))
<1>1. \A i \in DOMAIN y : \A f : ~Bears(y[i], f) /\ ~Names(y[i], f)
  BY DEF Only, Bears, Names
<1> QED BY <1>1 DEF Told, Tells, NoneBears

(* Where no name changes, only what is asked for is left to show.          *)
LEMMA PathsKept ==
    ASSUME TypeOK, PathsInv, mode' = mode, native' = native, alerts' = alerts,
           SameNames(t, t'), NEW R \in Seq(Request), Asked(R), work' = work \o R
    PROVE  PathsInv'
<1>1. Asked(work')
  BY AskedJoined DEF TypeOK, PathsInv, PathsHold
<1>2. \A f \in File : FilePath(t', f) = FilePath(t, f)
  BY NamesAre
<1> HIDE DEF Asked
<1>3. PathsHold(native', t', work', alerts')
  BY <1>1, <1>2 DEF PathsInv, PathsHold
<1> QED BY <1>3, PathsPrimed

LEMMA AsksNamed ==
    ASSUME TypeOK, PathsInv, NEW n, NEW again, Asks(n, again)
    PROVE  \E R \in Seq(Request) : Asked(R) /\ work' = work \o R
<1>1. PICK R \in Seq(Request) :
         /\ work' = work \o R
         /\ \A i \in DOMAIN R : R[i].do = "rename" => R[i].to.path = FilePath(t, R[i].file)
  BY DEF Asks
<1>2. \A i \in DOMAIN R : R[i].do = "rename" => R[i].file \in File
  BY Elements, RequestParts
<1>3. Asked(R)
  BY <1>1, <1>2 DEF Asked, PathsInv, PathsHold
<1> QED BY <1>1, <1>3

LEMMA AskedPlain ==
    ASSUME NEW R \in Seq(Request), Plain(R)
    PROVE  Asked(R)
BY PlainAre DEF Asked

LEMMA ResolvedIs ==
    ASSUME NEW params, NEW f
    PROVE  /\ params.renamed[f] = NoPath => Resolved(params, f) = DefaultPath
           /\ params.renamed[f] # NoPath => Resolved(params, f) = params.renamed[f]
BY DEF Resolved

(* The name that an alert tells is the name that the torrent has then.     *)
LEMMA NameTaken ==
    ASSUME TypeOK, NEW a \in Alert, Handled(a), NEW f \in File
    PROVE  FilePath(t', f) = IF Names(a, f) THEN NameIn(a, f) ELSE FilePath(t, f)
<1>1. t \in TorrentImpl /\ t.params \in Params
  BY TorrentParts DEF TypeOK
<1>2. NamesHandled(a)
  BY DEF Handled
<1>3. CASE a.is \notin {"renamed", "saved"}
  <2>1. SameNames(t, t') /\ ~Names(a, f)
    BY <1>2, <1>3 DEF NamesHandled, Names, Bears
  <2> QED BY <2>1, NamesAre
<1>4. CASE a.is = "saved"
  <2>1. t'.params = a.params /\ t'.paths = t.paths
    BY <1>2, <1>4 DEF NamesHandled
  <2>2. FilePath(t', f) = IF mode.deferPaths THEN Resolved(a.params, f) ELSE t.paths[f]
    BY <2>1 DEF FilePath, Resolved
  <2>3. Names(a, f) <=> mode.deferPaths
    BY <1>4 DEF Names, Bears
  <2>4. NameIn(a, f) = Resolved(a.params, f)
    BY <1>4 DEF NameIn
  <2>5. ~mode.deferPaths => FilePath(t, f) = t.paths[f]
    BY DEF FilePath
  <2> QED BY <2>2, <2>3, <2>4, <2>5
<1>5. CASE a.is = "renamed"
  <2>1. a.file \in File /\ a.path \in Path
    BY <1>5, AlertParts
  <2>2. NameIn(a, f) = a.path /\ (Names(a, f) <=> a.file = f)
    BY <1>5 DEF NameIn, Names, Bears
  <2>3. CASE FilePath(t, a.file) = a.path
    <3>1. SameNames(t, t')
      BY <1>2, <1>5, <2>3 DEF NamesHandled
    <3>2. FilePath(t', f) = FilePath(t, f)
      BY <3>1, NamesAre
    <3> QED BY <2>2, <2>3, <3>2
  <2>4. CASE FilePath(t, a.file) # a.path
    <3>1. /\ t'.params.renamed = WithRenamedFile(t.params.renamed, a.file, a.path)
          /\ t'.paths = IF mode.deferPaths THEN t.paths
                        ELSE [t.paths EXCEPT ![a.file] = a.path]
      BY <1>2, <1>5, <2>4 DEF NamesHandled
    <3>2. CASE mode.deferPaths
      <4>1. FilePath(t, f) = Resolved(t.params, f) /\ FilePath(t', f) = Resolved(t'.params, f)
        BY <3>2 DEF FilePath
      <4> DEFINE old == t.params.renamed
                 new == WithRenamedFile(old, a.file, a.path)
      <4>2. /\ \A g \in File : g # a.file => new[g] = old[g]
            /\ new[a.file] = a.path \/ (new[a.file] = NoPath /\ a.path = DefaultPath)
        <5>1. old \in [File -> Path \union {NoPath}]
          BY <1>1, ParamsParts
        <5> HIDE DEF old
        <5> QED BY <2>1, <5>1, StoredIs
      <4>3. t'.params.renamed[f] = new[f]
        BY <3>1
      <4> HIDE DEF new
      <4>4. CASE a.file = f
        <5>1. a.path # NoPath
          BY <2>1, FilesAssumption
        <5>2. Resolved(t'.params, f) = a.path
          BY <4>2, <4>3, <4>4, <5>1, ResolvedIs
        <5> QED BY <2>2, <4>1, <4>4, <5>2
      <4>5. CASE a.file # f
        <5>1. t'.params.renamed[f] = t.params.renamed[f]
          BY <4>2, <4>3, <4>5 DEF old
        <5>2. Resolved(t'.params, f) = Resolved(t.params, f)
          BY <5>1 DEF Resolved
        <5> QED BY <2>2, <4>1, <4>5, <5>2
      <4> QED BY <4>4, <4>5
    <3>3. CASE ~mode.deferPaths
      <4>1. FilePath(t, f) = t.paths[f] /\ FilePath(t', f) = t'.paths[f]
        BY <3>3 DEF FilePath
      <4>2. t.paths \in [File -> Path]
        BY <1>1, TorrentParts
      <4>3. t'.paths[f] = IF f = a.file THEN a.path ELSE t.paths[f]
        BY <2>1, <3>1, <3>3, <4>2
      <4> QED BY <2>2, <4>1, <4>3
    <3> QED BY <3>2, <3>3
  <2> QED BY <2>3, <2>4
<1> QED BY <1>3, <1>4, <1>5

(* What libtorrent saves of a name is its name.                            *)
LEMMA SavedNames ==
    ASSUME TypeOK, PathsInv, NEW f \in File
    PROVE  Resolved(ParamsOf(native), f) = native.paths[f].path
<1>1. native \in Native /\ native.paths[f].path \in UserPath
  BY DEF TypeOK, PathsInv, PathsHold
<1>2. ParamsOf(native).renamed[f] =
         IF native.paths[f] = OnDisk(Original, FALSE) THEN NoPath ELSE native.paths[f].path
  BY <1>1, ParamsOfIs
<1>3. CASE native.paths[f] = OnDisk(Original, FALSE)
  <2>1. native.paths[f].path = Original
    BY <1>3 DEF OnDisk
  <2>2. DefaultPath = Original
    BY <1>1, <2>1 DEF UserPath
  <2> QED BY <1>2, <1>3, <2>1, <2>2, ResolvedIs
<1>4. CASE native.paths[f] # OnDisk(Original, FALSE)
  <2>1. ParamsOf(native).renamed[f] = native.paths[f].path /\ native.paths[f].path # NoPath
    BY <1>1, <1>2, <1>4, PathsAre
  <2> QED BY <2>1, ResolvedIs
<1> QED BY <1>3, <1>4

(* Reports y of what libtorrent did, which changed names from those before.*)
LEMMA PathsReported ==
    ASSUME TypeOK, PathsInv, mode' = mode, t' = t, Asked(work'),
           NEW y \in Seq(Alert), alerts' = alerts \o y, Told(y), Tells(y, native'.paths),
           \A f \in File : native'.paths[f].path \in UserPath,
           \A f \in File : NoneBears(y, f) => native'.paths[f].path = native.paths[f].path
    PROVE  PathsInv'
<1>1. alerts \in Seq(Alert) /\ Told(alerts) /\ Tells(alerts, native.paths)
  BY DEF TypeOK, PathsInv, PathsHold
<1> DEFINE before == native.paths
           after == native'.paths
<1>2. Tells(alerts, before) /\ Tells(y, after)
      /\ \A f \in File : NoneBears(y, f) => after[f].path = before[f].path
  BY <1>1
<1> HIDE DEF before, after
<1>3. Tells(alerts \o y, after)
  BY <1>1, <1>2, TellsJoined
<1>4. Told(alerts \o y)
  BY <1>1, ToldJoined
<1>5. ASSUME NEW f \in File, NoneBears(alerts \o y, f)
      PROVE  FilePath(t, f) = native'.paths[f].path
  <2>1. NoneBears(alerts, f) /\ NoneBears(y, f)
    BY <1>1, <1>5, NoneBearsJoined
  <2> QED BY <2>1 DEF PathsInv, PathsHold
<1> HIDE DEF Asked
<1>6. PathsHold(native', t', work', alerts')
  BY <1>3, <1>4, <1>5 DEF PathsInv, PathsHold, after
<1> QED BY <1>6, PathsPrimed

LEMMA InitPaths == Init => PathsInv
<1> SUFFICES ASSUME Init PROVE PathsInv
  OBVIOUS
<1>1. PICK paths \in [File -> UserPath] :
         /\ t.params.renamed = Stored(paths) /\ t.paths = paths
         /\ native.paths = [f \in File |-> OnDisk(paths[f], append)]
  BY DEF Init
<1>2. work = <<>> /\ alerts = <<>>
  BY DEF Init
<1>3. Asked(work) /\ Told(alerts) /\ Tells(alerts, native.paths)
  BY <1>2 DEF Asked, Told, Tells
<1>4. ASSUME NEW f \in File
      PROVE  native.paths[f].path = paths[f] /\ FilePath(t, f) = paths[f] /\ paths[f] \in UserPath
  <2>1. native.paths[f].path = paths[f]
    BY <1>1 DEF OnDisk
  <2>2. paths[f] \in UserPath /\ paths[f] # NoPath
    BY PathsAre
  <2>3. t.params.renamed[f] = IF mode.sparse /\ paths[f] = DefaultPath THEN NoPath ELSE paths[f]
    BY <1>1 DEF Stored
  <2>4. Resolved(t.params, f) = paths[f]
    BY <2>2, <2>3, ResolvedIs
  <2> QED BY <1>1, <2>1, <2>2, <2>4 DEF FilePath
<1> QED BY <1>3, <1>4 DEF PathsInv, PathsHold

LEMMA PathsStep == TypeOK /\ PathsInv /\ [Next]_vars => PathsInv'
<1> SUFFICES ASSUME TypeOK, PathsInv, [Next]_vars PROVE PathsInv'
  OBVIOUS
<1>1. ASSUME mode' = mode, native' = native, alerts' = alerts, SameNames(t, t'),
             NEW n, NEW again, Asks(n, again)
      PROVE  PathsInv'
  BY <1>1, AsksNamed, PathsKept
<1>2. ASSUME NEW prios \in Priorities, PrioritizeFiles(prios) PROVE PathsInv'
  <2> DEFINE q == Prioritized(prios)
             r == Wanted(FilePriorities(t'))
  <2>1. /\ q \in Request /\ r \in Request /\ (work' = work \o <<q>> \/ work' = work \o <<q, r>>)
        /\ SameNames(t, t')
    BY <1>2, PrioritizeIs DEF SameFiles
  <2>2. q.do = "prioritize" /\ r.do = "wanted"
    BY DEF Prioritized, Wanted
  <2> HIDE DEF q, r
  <2>3. /\ <<q>> \in Seq(Request) /\ Asked(<<q>>)
        /\ <<q, r>> \in Seq(Request) /\ Asked(<<q, r>>)
    BY <2>1, <2>2, SingleIs, PairIs, AskedPlain
  <2>4. mode' = mode /\ native' = native /\ alerts' = alerts
    BY <1>2, EventIs DEF PrioritizeFiles
  <2>5. CASE work' = work \o <<q>>
    BY <2>1, <2>3, <2>4, <2>5, PathsKept
  <2>6. CASE work' = work \o <<q, r>>
    BY <2>1, <2>3, <2>4, <2>6, PathsKept
  <2> QED BY <2>1, <2>5, <2>6
<1>3. CASE SetFirstLastPiecePriority
  <2> DEFINE r == Wanted(FilePriorities(t))
  <2>1. r \in Request /\ work' = work \o <<r>> /\ SameNames(t, t')
    BY <1>3, FirstLastIs DEF SameFiles
  <2>2. r.do = "wanted"
    BY DEF Wanted
  <2> HIDE DEF r
  <2>3. <<r>> \in Seq(Request) /\ Asked(<<r>>)
    BY <2>1, <2>2, SingleIs, AskedPlain
  <2>4. mode' = mode /\ native' = native /\ alerts' = alerts
    BY <1>3, EventIs DEF SetFirstLastPiecePriority
  <2> QED BY <2>1, <2>3, <2>4, PathsKept
<1>4. ASSUME NEW f \in File, NEW path \in Path, RenameFile(f, path) PROVE PathsInv'
  <2>1. PICK r \in Request : r.do = "rename" /\ r.to.path = path /\ work' = work \o <<r>>
    BY <1>4, RenameFileIs
  <2>2. path \in UserPath /\ SameNames(t, t')
    BY <1>4, RenameFileIs
  <2>3. <<r>> \in Seq(Request) /\ DOMAIN <<r>> = {1} /\ <<r>>[1] = r
    BY SingleIs
  <2>4. Asked(<<r>>)
    BY <2>1, <2>2, <2>3 DEF Asked
  <2>5. mode' = mode /\ native' = native /\ alerts' = alerts
    BY <1>4, EventIs DEF RenameFile
  <2> QED BY <2>1, <2>2, <2>3, <2>4, <2>5, PathsKept
<1>5. CASE ToggleAppendExtension
  <2>1. mode' = mode /\ native' = native /\ alerts' = alerts
    BY <1>5, EventIs DEF ToggleAppendExtension
  <2> QED BY <1>1, <1>5, <2>1, ToggleIs
<1>6. CASE Recheck
  <2>1. mode' = mode /\ native' = native /\ alerts' = alerts
    BY <1>6, EventIs DEF Recheck
  <2> QED BY <1>1, <1>6, <2>1, RecheckIs
<1>7. CASE SaveResumeData
  <2>1. [do |-> "save"] \in Request /\ [do |-> "save"].do = "save"
    BY RequestTypes
  <2>2. <<[do |-> "save"]>> \in Seq(Request) /\ Asked(<<[do |-> "save"]>>)
    BY <2>1, SingleIs, AskedPlain
  <2>3. work' = work \o <<[do |-> "save"]>>
    BY <1>7, <2>1, AppendIsConcat DEF SaveResumeData, TypeOK
  <2>4. mode' = mode /\ native' = native /\ alerts' = alerts /\ SameNames(t, t')
    BY <1>7 DEF SaveResumeData, SameNames
  <2> QED BY <2>2, <2>3, <2>4, PathsKept
<1>8. ASSUME mode' = mode, native' = native, alerts' = alerts, work' = work, t' = t
      PROVE  PathsInv'
  <2>1. PathsHold(native', t', work', alerts')
    BY <1>8 DEF PathsInv
  <2> QED BY <1>8, <2>1, PathsPrimed
<1>9. CASE ReadAlerts
  BY <1>8, <1>9 DEF ReadAlerts
<1>10. CASE HandleAlert
  <2> DEFINE a == Head(alerts)
             rest == Tail(alerts)
  <2>1. alerts # <<>> /\ a \in Alert /\ Handled(a)
    BY <1>10, HandleAlertIs
  <2>2. PICK next \in Seq(Trigger) : /\ next \in Seq(Alert) /\ rest \in Seq(Alert)
                                     /\ alerts' = next \o rest
    BY <1>10, AlertsTail
  <2>3. mode' = mode /\ native' = native
    BY <1>10 DEF HandleAlert
  <2>4. Told(next) /\ (\A paths : Tells(next, paths)) /\ (\A f : NoneBears(next, f))
    <3>1. Only(next, {"run_checked", "run_finished"})
      BY Elements, TriggerTypes DEF Only
    <3> QED BY <2>2, <3>1, NamelessAre
  <2>5. alerts \in Seq(Alert) /\ Told(alerts) /\ Tells(alerts, native.paths)
    BY DEF TypeOK, PathsInv, PathsHold
  <2> DEFINE paths == native.paths
  <2>6. /\ Tells(rest, paths) /\ Told(rest)
        /\ \A f \in File : NoneBears(rest, f) /\ Names(a, f) => NameIn(a, f) = paths[f].path
        /\ \A f \in File : Names(a, f) => NameIn(a, f) \in UserPath
        /\ \A f \in File : NoneBears(rest, f) /\ ~Bears(a, f) => NoneBears(alerts, f)
    BY <2>1, <2>5, TellsRest
  <2>7. \A f \in File : FilePath(t', f) = IF Names(a, f) THEN NameIn(a, f) ELSE FilePath(t, f)
    BY <2>1, NameTaken
  <2>8. \A f \in File : Bears(a, f) => Names(a, f)
    BY DEF Names
  <2> HIDE DEF a, rest, paths
  <2>9. Tells(alerts', paths) /\ Told(alerts')
    <3>1. Tells(next, paths) /\ Tells(rest, paths)
      BY <2>4, <2>6
    <3>2. \A f \in File : NoneBears(rest, f) => paths[f].path = paths[f].path
      OBVIOUS
    <3>3. Tells(next \o rest, paths)
      BY <2>2, <3>1, <3>2, TellsJoined
    <3>4. Told(next \o rest)
      BY <2>2, <2>4, <2>6, ToldJoined
    <3> QED BY <2>2, <3>3, <3>4
  <2>10. \A f \in File : /\ paths[f].path \in UserPath /\ FilePath(t, f) \in UserPath
                         /\ NoneBears(alerts, f) => FilePath(t, f) = paths[f].path
    BY DEF PathsInv, PathsHold, paths
  <2>11. \A f \in File : FilePath(t', f) \in UserPath
    BY <2>6, <2>7, <2>10
  <2>12. ASSUME NEW f \in File, NoneBears(alerts', f)
         PROVE  FilePath(t', f) = paths[f].path
    <3>1. NoneBears(rest, f)
      BY <2>2, <2>12, NoneBearsJoined
    <3>2. CASE Names(a, f)
      BY <2>6, <2>7, <3>1, <3>2
    <3>3. CASE ~Names(a, f)
      BY <2>6, <2>7, <2>8, <2>10, <3>1, <3>3
    <3> QED BY <3>2, <3>3
  <2>13. Asked(work')
    <3>1. \E R \in Seq(Request) : Asked(R) /\ work' = work \o R
      BY <2>1, AsksNamed DEF Handled
    <3> QED BY <3>1, AskedJoined DEF TypeOK, PathsInv, PathsHold
  <2>14. PathsHold(native', t', work', alerts')
    BY <2>3, <2>9, <2>10, <2>11, <2>12, <2>13 DEF PathsHold, paths
  <2> QED BY <2>3, <2>14, PathsPrimed
<1>11. CASE NativeRequest
  <2> DEFINE r == Head(work)
  <2>1. /\ work # <<>> /\ r \in Request /\ work' = Tail(work) /\ work' \in Seq(Request)
        /\ native' \in Native
    BY <1>11, NativeRequestIs
  <2>2. PICK y \in Seq(Alert) : alerts' = alerts \o y /\ CarriedOut(r, y)
    BY <1>11, NativeRequestIs
  <2>3. mode' = mode /\ t' = t
    BY <1>11 DEF NativeRequest
  <2>4. Asked(work') /\ (r.do = "rename" => r.to.path \in UserPath)
    <3>1. Asked(work)
      BY DEF PathsInv, PathsHold
    <3> QED BY <2>1, <3>1, Rest DEF Asked, TypeOK
  <2>5. \A f \in File : native.paths[f].path \in UserPath
    BY DEF PathsInv, PathsHold
  <2>6. native.paths \in [File -> DiskName]
    BY NativeParts DEF TypeOK
  <2> HIDE DEF r
  <2>7. ASSUME native'.paths = native.paths, Told(y), Tells(y, native'.paths)
        PROVE  PathsInv'
    BY <2>2, <2>3, <2>4, <2>5, <2>7, PathsReported
  <2>8. ASSUME native'.paths = native.paths, NEW kinds, Only(y, kinds),
               "renamed" \notin kinds, "saved" \notin kinds
        PROVE  PathsInv'
    BY <2>7, <2>8, NamelessAre
  <2>9. CASE r.do \in {"prioritize", "wanted", "recheck"}
    <3>1. native'.paths = native.paths /\ Only(y, {"finished"})
      BY <2>2, <2>9 DEF CarriedOut, SameDisk
    <3> QED BY <2>8, <3>1
  <2>10. CASE r.do = "rename" /\ y = <<Failed(r)>> /\ native' = native
    <3>1. Only(y, {"rename_failed"})
      BY <2>10 DEF Only, Failed
    <3> QED BY <2>8, <2>10, <3>1
  <2>11. CASE /\ r.do = "rename"
              /\ \E end \in Seq(Alert) : Only(end, {"finished"}) /\ y = <<RenamedTo(r)>> \o end
              /\ native'.paths = [native.paths EXCEPT ![r.file] = r.to]
    <3>1. PICK end \in Seq(Alert) : Only(end, {"finished"}) /\ y = <<RenamedTo(r)>> \o end
      BY <2>11
    <3>2. r.file \in File /\ r.to.path \in Path
      BY <2>1, <2>11, RequestParts DEF DiskName
    <3> DEFINE a == RenamedTo(r)
    <3>3. a \in Alert /\ a.is = "renamed" /\ a.file = r.file /\ a.path = r.to.path
      BY <3>2, AlertTypes DEF RenamedTo
    <3>4. y = <<a>> \o end
      BY <3>1
    <3> HIDE DEF a
    <3>5. \A f \in File : native'.paths[f] = IF f = r.file THEN r.to ELSE native.paths[f]
      BY <2>6, <2>11, <3>2
    <3>6. /\ <<a>> \in Seq(Alert) /\ DOMAIN <<a>> = {1} /\ <<a>>[1] = a
          /\ Len(<<a>>) = 1
      BY <3>3
    <3>7. \A f \in File : Names(a, f) => f = r.file /\ NameIn(a, f) = r.to.path
      BY <3>3 DEF Names, Bears, NameIn
    <3>8. Told(<<a>>)
      BY <2>4, <2>11, <3>6, <3>7 DEF Told
    <3>9. Tells(<<a>>, native'.paths)
      BY <3>5, <3>6, <3>7 DEF Tells
    <3>10. Told(end) /\ (\A paths : Tells(end, paths))
      BY <3>1, NamelessAre
    <3>11. Told(y)
      BY <3>4, <3>6, <3>8, <3>10, ToldJoined
    <3>12. Tells(y, native'.paths)
      <4> DEFINE paths == native'.paths
      <4>1. Tells(<<a>>, paths) /\ Tells(end, paths)
        BY <3>9, <3>10
      <4> HIDE DEF paths
      <4>2. Tells(<<a>> \o end, paths)
        BY <3>6, <4>1, TellsJoined
      <4> QED BY <3>4, <4>2 DEF paths
    <3>13. ASSUME NEW f \in File, NoneBears(y, f)
           PROVE  native'.paths[f].path = native.paths[f].path
      <4>1. NoneBears(<<a>>, f)
        BY <3>4, <3>6, <3>13, NoneBearsJoined
      <4>2. ~Bears(a, f)
        BY <3>6, <4>1 DEF NoneBears
      <4>3. f # r.file
        BY <3>3, <4>2 DEF Bears
      <4> QED BY <3>5, <4>3
    <3>14. \A f \in File : native'.paths[f].path \in UserPath
      BY <2>4, <2>5, <2>11, <3>5
    <3> QED BY <2>2, <2>3, <2>4, <3>11, <3>12, <3>13, <3>14, PathsReported
  <2>12. CASE r.do = "save"
    <3> DEFINE a == SavedAs(native)
    <3>1. y = <<a>> /\ native'.paths = native.paths
      BY <2>2, <2>12 DEF CarriedOut, NativeIs, SameDisk
    <3>2. a.is = "saved" /\ a.params = ParamsOf(native)
      BY DEF SavedAs
    <3>3. \A f \in File : Resolved(ParamsOf(native), f) = native.paths[f].path
      BY SavedNames
    <3> HIDE DEF a
    <3>4. \A f \in File : NameIn(a, f) = native.paths[f].path
      BY <3>2, <3>3 DEF NameIn
    <3>5. DOMAIN <<a>> = {1} /\ <<a>>[1] = a
      OBVIOUS
    <3>6. Told(y)
      BY <2>5, <3>1, <3>4, <3>5 DEF Told
    <3>7. Tells(y, native'.paths)
      BY <3>1, <3>4, <3>5 DEF Tells
    <3> QED BY <2>7, <3>1, <3>6, <3>7
  <2>13. \/ r.do \in {"prioritize", "wanted", "recheck", "save"}
         \/ r.do = "rename" /\ y = <<Failed(r)>> /\ native' = native
         \/ /\ r.do = "rename"
            /\ \E end \in Seq(Alert) : Only(end, {"finished"}) /\ y = <<RenamedTo(r)>> \o end
            /\ native'.paths = [native.paths EXCEPT ![r.file] = r.to]
    BY <2>2 DEF CarriedOut
  <2> QED BY <2>9, <2>10, <2>11, <2>12, <2>13
<1>12. ASSUME mode' = mode, t' = t, work' = work, native'.paths = native.paths,
              NEW y \in Seq(Alert), alerts' = alerts \o y,
              NEW kinds, Only(y, kinds), "renamed" \notin kinds, "saved" \notin kinds
       PROVE  PathsInv'
  <2>1. Told(y) /\ (\A paths : Tells(y, paths)) /\ Asked(work')
        /\ \A f \in File : native'.paths[f].path \in UserPath
    BY <1>12, NamelessAre DEF PathsInv, PathsHold
  <2> QED BY <1>12, <2>1, PathsReported
<1>13. ASSUME NEW p \in Piece, NativePiece(p) PROVE PathsInv'
  <2>1. native'.paths = native.paths
        /\ \E y \in Seq(Alert) : alerts' = alerts \o y /\ Only(y, {"finished", "completed"})
    BY <1>13, NativePieceIs
  <2>2. mode' = mode /\ t' = t /\ work' = work
    BY <1>13 DEF NativePiece
  <2> QED BY <1>12, <2>1, <2>2
<1>14. CASE NativeChecked
  <2>1. native'.paths = native.paths
        /\ \E y \in Seq(Alert) : /\ alerts' = alerts \o y
                                 /\ Only(y, {"checked", "finished", "completed"})
    BY <1>14, NativeCheckedIs
  <2>2. mode' = mode /\ t' = t /\ work' = work
    BY <1>14 DEF NativeChecked
  <2> QED BY <1>12, <2>1, <2>2
<1>15. CASE NativeStatus
  <2>1. PICK a \in Alert : a.is = "status" /\ <<a>> \in Seq(Alert) /\ alerts' = alerts \o <<a>>
    BY <1>15, NativeStatusIs
  <2>2. mode' = mode /\ t' = t /\ work' = work
    BY <1>15 DEF NativeStatus
  <2>3. Only(<<a>>, {"status"})
    BY <2>1 DEF Only
  <2>4. native'.paths = native.paths
    BY <1>15, NativeStatusIs DEF NativeIs, SameDisk
  <2> QED BY <1>12, <2>1, <2>2, <2>3, <2>4
<1>16. CASE UNCHANGED vars
  BY <1>8, <1>16 DEF vars
<1> QED BY <1>2, <1>3, <1>4, <1>5, <1>6, <1>7, <1>9, <1>10, <1>11, <1>13, <1>14, <1>15, <1>16
    DEF Next

(* The path of a file is its name on the disk, unless a new name is on its *)
(* way: kept or worked out, for all the files or only for those with names *)
(* of their own, and whatever resume data come in between.                 *)
THEOREM Paths == Spec => []PathsAreTheDisks
<1>1. Init => TypeOK /\ PathsInv
  BY InitTypes, InitPaths
<1>2. TypeOK /\ PathsInv /\ [Next]_vars => TypeOK' /\ PathsInv'
  BY TypeStep, PathsStep
<1>3. PathsInv => PathsAreTheDisks
  BY DEF PathsInv, PathsHold, PathsAreTheDisks, InFlight, NoneBears, Bears
<1> QED BY <1>1, <1>2, <1>3, PTL DEF Spec

-----------------------------------------------------------------------------
(* The wanted pieces.                                                      *)

(* h: the priorities that libtorrent has, and will have after each request *)
(* that waits.  At the end they are those that the torrent keeps.          *)
History(h, first, last, w) ==
    /\ h \in [0 .. Len(w) -> Priorities]
    /\ h[0] = first /\ h[Len(w)] = last
    /\ \A i \in DOMAIN w :
          /\ h[i] = IF w[i].do = "prioritize" THEN w[i].prios ELSE h[i - 1]
          /\ w[i].do = "wanted" => w[i].pieces = PiecesWanted(h[i])

WishesInv ==
    ~mode.deferState =>
        /\ native.wanted = PiecesWanted(native.prios)
        /\ \E h : History(h, native.prios, t.prios, work)

(* The requests that are added say what the torrent has now.               *)
Says(R, last) ==
    \A i \in DOMAIN R : /\ R[i].do = "prioritize" => R[i].prios = last
                        /\ R[i].do = "wanted" => R[i].pieces = PiecesWanted(last)

LEMMA HistoryGrows ==
    ASSUME NEW w \in Seq(Request), NEW R \in Seq(Request), NEW h, NEW first, NEW old,
           NEW last \in Priorities, History(h, first, old, w), Says(R, last),
           last = old \/ (1 \in DOMAIN R /\ R[1].do = "prioritize")
    PROVE  \E g : History(g, first, last, w \o R)
<1> DEFINE x == w \o R
           n == Len(w)
           m == Len(x)
           g == [i \in 0 .. m |-> IF i <= n THEN h[i] ELSE last]
<1>1. x \in Seq(Request) /\ m = n + Len(R) /\ n \in Nat /\ Len(R) \in Nat
  BY ConcatProperties, Elements
<1>2. DOMAIN x = 1 .. m /\ DOMAIN w = 1 .. n /\ DOMAIN R = 1 .. Len(R)
  BY <1>1, Elements
<1>3. h \in [0 .. n -> Priorities] /\ h[0] = first /\ h[n] = old
  BY DEF History
<1>4. /\ \A i \in DOMAIN w : x[i] = w[i]
      /\ \A i \in DOMAIN R : x[i + n] = R[i]
  BY Joined
<1>5. /\ \A i \in DOMAIN w : h[i] = IF w[i].do = "prioritize" THEN w[i].prios ELSE h[i - 1]
      /\ \A i \in DOMAIN w : w[i].do = "wanted" => w[i].pieces = PiecesWanted(h[i])
  BY DEF History
<1> HIDE DEF x, n, m
<1>6. g \in [0 .. m -> Priorities]
  <2>1. \A i \in 0 .. m : i <= n => h[i] \in Priorities
    BY <1>1, <1>3
  <2> QED BY <2>1
<1>7. /\ \A i \in 0 .. m : i <= n => g[i] = h[i]
      /\ \A i \in 0 .. m : i > n => g[i] = last
  BY <1>1
<1> HIDE DEF g
<1>8. g[0] = first
  BY <1>1, <1>3, <1>7
<1>9. g[m] = last
  <2>1. CASE m > n
    BY <1>1, <1>7, <2>1
  <2>2. CASE ~(m > n)
    <3>1. m = n /\ Len(R) = 0
      BY <1>1, <2>2
    <3>2. DOMAIN R = {}
      BY <1>2, <3>1
    <3>3. last = old
      BY <3>2
    <3> QED BY <1>1, <1>3, <1>7, <3>1, <3>3
  <2> QED BY <2>1, <2>2
<1>10. ASSUME NEW i \in DOMAIN x
       PROVE  /\ g[i] = IF x[i].do = "prioritize" THEN x[i].prios ELSE g[i - 1]
              /\ x[i].do = "wanted" => x[i].pieces = PiecesWanted(g[i])
  <2>0. i \in Int /\ i >= 1 /\ i <= m /\ i \in 0 .. m /\ i - 1 \in 0 .. m
    BY <1>1, <1>2
  <2>1. CASE i <= n
    <3>1. i \in DOMAIN w /\ x[i] = w[i]
      BY <1>2, <1>4, <2>0, <2>1
    <3>2. g[i] = h[i] /\ g[i - 1] = h[i - 1]
      BY <1>1, <1>7, <2>0, <2>1
    <3> QED BY <1>5, <3>1, <3>2
  <2>2. CASE i > n
    <3> DEFINE k == i - n
    <3>1. k \in DOMAIN R /\ k + n = i /\ (k = 1 <=> i = n + 1)
      <4>1. k \in Int /\ k >= 1 /\ k <= Len(R)
        BY <1>1, <2>0, <2>2
      <4>2. k \in 1 .. Len(R)
        BY <1>1, <4>1
      <4>3. k + n = i /\ (k = 1 <=> i = n + 1)
        BY <1>1, <2>0
      <4> QED BY <1>2, <4>2, <4>3
    <3> HIDE DEF k
    <3>2. x[i] = R[k]
      BY <1>4, <3>1
    <3>3. g[i] = last
      BY <1>7, <2>0, <2>2
    <3>4. x[i].do = "prioritize" => x[i].prios = last
      BY <3>1, <3>2 DEF Says
    <3>5. x[i].do = "wanted" => x[i].pieces = PiecesWanted(last)
      BY <3>1, <3>2 DEF Says
    <3>6. x[i].do # "prioritize" => g[i - 1] = last
      <4>1. CASE i = n + 1
        <5>1. i - 1 = n /\ i - 1 <= n
          BY <1>1, <4>1
        <5>2. g[i - 1] = old
          BY <1>3, <1>7, <2>0, <5>1
        <5> QED BY <3>1, <3>2, <4>1, <5>2
      <4>2. CASE i # n + 1
        <5>1. i - 1 > n
          BY <1>1, <2>0, <2>2, <4>2
        <5> QED BY <1>7, <2>0, <5>1
      <4> QED BY <4>1, <4>2
    <3> QED BY <3>3, <3>4, <3>5, <3>6
  <2> QED BY <1>1, <2>0, <2>1, <2>2
<1>11. History(g, first, last, x)
  BY <1>6, <1>8, <1>9, <1>10 DEF History, m
<1> QED BY <1>11 DEF x

(* The first request is carried out.                                       *)
LEMMA HistoryRest ==
    ASSUME NEW w \in Seq(Request), w # <<>>, NEW h, NEW first, NEW last,
           History(h, first, last, w)
    PROVE  /\ h[1] = IF Head(w).do = "prioritize" THEN Head(w).prios ELSE first
           /\ Head(w).do = "wanted" => Head(w).pieces = PiecesWanted(h[1])
           /\ \E g : History(g, h[1], last, Tail(w))
<1> DEFINE x == Tail(w)
           n == Len(w)
           m == Len(x)
           g == [i \in 0 .. m |-> h[i + 1]]
<1>1. x \in Seq(Request) /\ m = n - 1 /\ n \in Nat /\ m \in Nat
  BY HeadTailProperties, Elements
<1>2. DOMAIN x = 1 .. m /\ DOMAIN w = 1 .. n
  BY <1>1, Elements
<1>3. h \in [0 .. n -> Priorities] /\ h[0] = first /\ h[n] = last
  BY DEF History
<1>4. /\ \A i \in DOMAIN x : x[i] = w[i + 1] /\ i + 1 \in DOMAIN w
      /\ Head(w) = w[1] /\ 1 \in DOMAIN w
  BY Rest
<1>5. /\ \A i \in DOMAIN w : h[i] = IF w[i].do = "prioritize" THEN w[i].prios ELSE h[i - 1]
      /\ \A i \in DOMAIN w : w[i].do = "wanted" => w[i].pieces = PiecesWanted(h[i])
  BY DEF History
<1> HIDE DEF x, n, m
<1>6. g \in [0 .. m -> Priorities]
  <2>1. \A i \in 0 .. m : h[i + 1] \in Priorities
    BY <1>1, <1>3
  <2> QED BY <2>1
<1>7. \A i \in 0 .. m : g[i] = h[i + 1]
  OBVIOUS
<1> HIDE DEF g
<1>8. g[0] = h[1] /\ g[m] = last
  <2>1. 0 \in 0 .. m /\ m \in 0 .. m /\ m + 1 = n /\ 0 + 1 = 1
    BY <1>1
  <2> QED BY <1>3, <1>7, <2>1
<1>9. ASSUME NEW i \in DOMAIN x
      PROVE  /\ g[i] = IF x[i].do = "prioritize" THEN x[i].prios ELSE g[i - 1]
             /\ x[i].do = "wanted" => x[i].pieces = PiecesWanted(g[i])
  <2> DEFINE k == i + 1
  <2>1. k \in DOMAIN w /\ x[i] = w[k] /\ k - 1 = i /\ i \in 0 .. m /\ i - 1 \in 0 .. m
        /\ (i - 1) + 1 = i
    BY <1>1, <1>2, <1>4
  <2>2. g[i] = h[k] /\ g[i - 1] = h[k - 1]
    <3>1. g[i] = h[k]
      BY <1>7, <2>1
    <3>2. g[i - 1] = h[(i - 1) + 1]
      BY <1>7, <2>1
    <3> QED BY <2>1, <3>1, <3>2
  <2> HIDE DEF k
  <2> QED BY <1>5, <2>1, <2>2
<1>10. History(g, h[1], last, x)
  BY <1>6, <1>8, <1>9 DEF History, m
<1>11. h[1] = IF Head(w).do = "prioritize" THEN Head(w).prios ELSE first
  <2>1. h[1] = IF w[1].do = "prioritize" THEN w[1].prios ELSE h[1 - 1]
    BY <1>4, <1>5
  <2>2. 1 - 1 = 0
    OBVIOUS
  <2> QED BY <1>3, <1>4, <2>1, <2>2
<1>12. Head(w).do = "wanted" => Head(w).pieces = PiecesWanted(h[1])
  BY <1>4, <1>5
<1> QED BY <1>10, <1>11, <1>12 DEF x

LEMMA WishesPrimed ==
    ASSUME mode' = mode,
           ~mode.deferState => /\ native'.wanted = PiecesWanted(native'.prios)
                               /\ \E h : History(h, native'.prios, t'.prios, work')
    PROVE  WishesInv'
BY DEF WishesInv, History, PiecesWanted

LEMMA WishesAsked ==
    ASSUME TypeOK, WishesInv, mode' = mode, SameWishes(native, native'),
           t' \in TorrentImpl, NEW R \in Seq(Request), work' = work \o R,
           ~mode.deferState => /\ Says(R, t'.prios)
                               /\ t'.prios = t.prios \/ (1 \in DOMAIN R /\ R[1].do = "prioritize")
    PROVE  WishesInv'
<1>1. t'.prios \in Priorities /\ work \in Seq(Request)
  BY TorrentParts DEF TypeOK
<1>2. ASSUME ~mode.deferState
      PROVE  /\ native'.wanted = PiecesWanted(native'.prios)
             /\ \E h : History(h, native'.prios, t'.prios, work')
  <2>1. native.wanted = PiecesWanted(native.prios)
    BY <1>2 DEF WishesInv
  <2>2. PICK h : History(h, native.prios, t.prios, work)
    BY <1>2 DEF WishesInv
  <2>3. Says(R, t'.prios)
        /\ (t'.prios = t.prios \/ (1 \in DOMAIN R /\ R[1].do = "prioritize"))
    BY <1>2
  <2> DEFINE first == native.prios
             old == t.prios
             last == t'.prios
  <2> HIDE DEF first, old, last
  <2>4. \E g : History(g, first, last, work \o R)
    BY <1>1, <2>2, <2>3, HistoryGrows DEF first, old, last
  <2> QED BY <2>1, <2>4 DEF first, last, SameWishes
<1> QED BY <1>2, WishesPrimed

(* Neither prioritised nor wanted.                                         *)
LEMMA SaysNothing ==
    ASSUME NEW R, \A i \in DOMAIN R : R[i].do \notin {"prioritize", "wanted"}
    PROVE  \A last : Says(R, last)
BY DEF Says

LEMMA InitWishes == Init => WishesInv
<1> SUFFICES ASSUME Init PROVE WishesInv
  OBVIOUS
<1> DEFINE wanted == [f \in File |-> TRUE]
<1>1. native.wanted = PiecesWanted(wanted) /\ native.prios = wanted /\ t.prios = wanted
  BY DEF Init
<1>2. work = <<>>
  BY DEF Init
<1>3. wanted \in Priorities
  BY DEF Priorities
<1> HIDE DEF wanted
<1> DEFINE h == [i \in 0 .. 0 |-> wanted]
<1>4. h \in [0 .. 0 -> Priorities] /\ h[0] = wanted
  BY <1>3
<1> HIDE DEF h
<1>5. Len(work) = 0 /\ DOMAIN work = {}
  BY <1>2
<1>6. History(h, wanted, wanted, work)
  BY <1>4, <1>5 DEF History
<1> QED BY <1>1, <1>6 DEF WishesInv

LEMMA WishesStep == TypeOK /\ WishesInv /\ [Next]_vars => WishesInv'
<1> SUFFICES ASSUME TypeOK, WishesInv, [Next]_vars PROVE WishesInv'
  OBVIOUS
<1>1. ASSUME mode' = mode, SameWishes(native, native'), t' \in TorrentImpl, t'.prios = t.prios,
             NEW R \in Seq(Request), work' = work \o R,
             \A i \in DOMAIN R : R[i].do \notin {"prioritize", "wanted"}
      PROVE  WishesInv'
  BY <1>1, SaysNothing, WishesAsked
<1>2. ASSUME mode' = mode, SameWishes(native, native'), t' \in TorrentImpl, t'.prios = t.prios,
             NEW n, NEW again, Asks(n, again)
      PROVE  WishesInv'
  <2>1. PICK R \in Seq(Request) :
           work' = work \o R /\ \A i \in DOMAIN R : R[i].do \in {"rename", "recheck"}
    BY <1>2 DEF Asks
  <2> QED BY <1>1, <1>2, <2>1
<1>3. ASSUME mode' = mode, SameWishes(native, native'), t'.prios = t.prios, work' = work
      PROVE  WishesInv'
  BY <1>3, WishesPrimed DEF WishesInv, SameWishes
<1>4. ASSUME native' = native PROVE SameWishes(native, native')
  BY <1>4 DEF SameWishes
<1>5. ASSUME NEW prios \in Priorities, PrioritizeFiles(prios) PROVE WishesInv'
  <2> DEFINE q == Prioritized(prios)
             r == Wanted(FilePriorities(t'))
  <2>1. /\ t' \in TorrentImpl /\ q \in Request /\ r \in Request
        /\ (work' = work \o <<q>> \/ work' = work \o <<q, r>>)
        /\ t'.prios = IF mode.deferState THEN t.prios ELSE prios
    BY <1>5, PrioritizeIs
  <2>2. q.do = "prioritize" /\ q.prios = prios
    BY DEF Prioritized
  <2>3. r.do = "wanted" /\ r.pieces = PiecesWanted(FilePriorities(t'))
    BY DEF Wanted
  <2>4. ~mode.deferState => FilePriorities(t') = t'.prios /\ t'.prios = prios
    BY <2>1 DEF FilePriorities
  <2> HIDE DEF q, r
  <2>5. mode' = mode /\ native' = native
    BY <1>5, EventIs DEF PrioritizeFiles
  <2>6. CASE work' = work \o <<q>>
    <3>1. <<q>> \in Seq(Request) /\ DOMAIN <<q>> = {1} /\ <<q>>[1] = q
      BY <2>1, SingleIs
    <3>2. ~mode.deferState => Says(<<q>>, t'.prios)
      BY <2>2, <2>4, <3>1 DEF Says
    <3>3. 1 \in DOMAIN <<q>> /\ <<q>>[1].do = "prioritize"
      BY <2>2, <3>1
    <3> DEFINE R == <<q>>
    <3> HIDE DEF R
    <3>4. R \in Seq(Request) /\ work' = work \o R /\ (~mode.deferState => Says(R, t'.prios))
          /\ 1 \in DOMAIN R /\ R[1].do = "prioritize"
      BY <2>6, <3>1, <3>2, <3>3 DEF R
    <3> QED BY <1>4, <2>1, <2>5, <3>4, WishesAsked
  <2>7. CASE work' = work \o <<q, r>>
    <3>1. /\ <<q, r>> \in Seq(Request) /\ DOMAIN <<q, r>> = {1, 2}
          /\ <<q, r>>[1] = q /\ <<q, r>>[2] = r
      BY <2>1, PairIs
    <3> DEFINE R == <<q, r>>
    <3> HIDE DEF R
    <3>2. R \in Seq(Request) /\ DOMAIN R = {1, 2} /\ R[1] = q /\ R[2] = r /\ work' = work \o R
      BY <2>7, <3>1 DEF R
    <3>3. ~mode.deferState => Says(R, t'.prios)
      BY <2>2, <2>3, <2>4, <3>2 DEF Says
    <3>4. 1 \in DOMAIN R /\ R[1].do = "prioritize"
      BY <2>2, <3>2
    <3> QED BY <1>4, <2>1, <2>5, <3>2, <3>3, <3>4, WishesAsked
  <2> QED BY <2>1, <2>6, <2>7
<1>6. CASE SetFirstLastPiecePriority
  <2> DEFINE r == Wanted(FilePriorities(t))
  <2>1. r \in Request /\ work' = work \o <<r>> /\ t' \in TorrentImpl /\ t'.prios = t.prios
    BY <1>6, FirstLastIs
  <2>2. r.do = "wanted" /\ r.pieces = PiecesWanted(FilePriorities(t))
    BY DEF Wanted
  <2>3. ~mode.deferState => FilePriorities(t) = t.prios
    BY DEF FilePriorities
  <2> HIDE DEF r
  <2> DEFINE R == <<r>>
  <2>4. R \in Seq(Request) /\ DOMAIN R = {1} /\ R[1] = r /\ work' = work \o R
    BY <2>1, SingleIs
  <2> HIDE DEF R
  <2>5. ~mode.deferState => Says(R, t'.prios)
    BY <2>1, <2>2, <2>3, <2>4 DEF Says
  <2>6. mode' = mode /\ native' = native
    BY <1>6, EventIs DEF SetFirstLastPiecePriority
  <2> QED BY <1>4, <2>1, <2>4, <2>5, <2>6, WishesAsked
<1>7. ASSUME NEW f \in File, NEW path \in Path, RenameFile(f, path) PROVE WishesInv'
  <2>1. PICK r \in Request : r.do = "rename" /\ work' = work \o <<r>>
    BY <1>7, RenameFileIs
  <2>2. <<r>> \in Seq(Request) /\ DOMAIN <<r>> = {1} /\ <<r>>[1] = r
    BY SingleIs
  <2>3. \A i \in DOMAIN <<r>> : <<r>>[i].do \notin {"prioritize", "wanted"}
    BY <2>1, <2>2
  <2>4. mode' = mode /\ native' = native /\ t' \in TorrentImpl /\ t'.prios = t.prios
    BY <1>7, EventIs, RenameFileIs DEF RenameFile
  <2> QED BY <1>1, <1>4, <2>1, <2>2, <2>3, <2>4
<1>8. CASE ToggleAppendExtension
  <2>1. mode' = mode /\ native' = native
    BY <1>8, EventIs DEF ToggleAppendExtension
  <2> QED BY <1>2, <1>4, <1>8, <2>1, ToggleIs
<1>9. CASE Recheck
  <2>1. mode' = mode /\ native' = native
    BY <1>9, EventIs DEF Recheck
  <2> QED BY <1>2, <1>4, <1>9, <2>1, RecheckIs
<1>10. CASE SaveResumeData
  <2> DEFINE r == [do |-> "save"]
  <2>1. r \in Request /\ r.do = "save"
    BY RequestTypes
  <2>2. work' = Append(work, r) /\ mode' = mode /\ native' = native /\ t' = t /\ t \in TorrentImpl
    BY <1>10 DEF SaveResumeData, TypeOK
  <2> HIDE DEF r
  <2>3. <<r>> \in Seq(Request) /\ DOMAIN <<r>> = {1} /\ <<r>>[1] = r
    BY <2>1, SingleIs
  <2>4. \A i \in DOMAIN <<r>> : <<r>>[i].do \notin {"prioritize", "wanted"}
    BY <2>1, <2>3
  <2>5. work' = work \o <<r>>
    BY <2>1, <2>2, AppendIsConcat DEF TypeOK
  <2> QED BY <1>1, <1>4, <2>2, <2>3, <2>4, <2>5
<1>11. CASE ReadAlerts
  BY <1>3, <1>4, <1>11 DEF ReadAlerts
<1>12. CASE HandleAlert
  <2>1. mode' = mode /\ native' = native
    BY <1>12 DEF HandleAlert
  <2>2. t' \in TorrentImpl /\ t'.prios = t.prios /\ \E n, again : Asks(n, again)
    BY <1>12, HandleAlertIs DEF Handled
  <2> QED BY <1>2, <1>4, <2>1, <2>2
<1>13. CASE NativeRequest
  <2> DEFINE r == Head(work)
  <2>1. /\ work # <<>> /\ work' = Tail(work) /\ work \in Seq(Request)
        /\ \E y : CarriedOut(r, y)
    BY <1>13, NativeRequestIs DEF TypeOK
  <2>2. mode' = mode /\ t' = t
    BY <1>13 DEF NativeRequest
  <2>3. \/ r.do = "prioritize" /\ native'.prios = r.prios /\ native'.wanted = PiecesWanted(r.prios)
        \/ r.do = "wanted" /\ native'.prios = native.prios /\ native'.wanted = r.pieces
        \/ r.do \notin {"prioritize", "wanted"} /\ SameWishes(native, native')
    BY <2>1 DEF CarriedOut, NativeIs, SameWishes
  <2>4. ASSUME ~mode.deferState
        PROVE  /\ native'.wanted = PiecesWanted(native'.prios)
               /\ \E h : History(h, native'.prios, t'.prios, work')
    <3>1. native.wanted = PiecesWanted(native.prios)
      BY <2>4 DEF WishesInv
    <3>2. PICK h : History(h, native.prios, t.prios, work)
      BY <2>4 DEF WishesInv
    <3> DEFINE first == native.prios
               last == t.prios
    <3>3. History(h, first, last, work)
      BY <3>2
    <3> HIDE DEF first, last
    <3>4. /\ h[1] = IF r.do = "prioritize" THEN r.prios ELSE first
          /\ r.do = "wanted" => r.pieces = PiecesWanted(h[1])
          /\ \E g : History(g, h[1], last, Tail(work))
      BY <2>1, <3>3, HistoryRest
    <3> HIDE DEF r
    <3>5. native'.prios = h[1]
      BY <2>3, <3>4 DEF SameWishes, first
    <3>6. native'.wanted = PiecesWanted(h[1])
      BY <2>3, <3>1, <3>4 DEF SameWishes, first
    <3> QED BY <2>1, <2>2, <3>4, <3>5, <3>6 DEF last
  <2> QED BY <2>2, <2>4, WishesPrimed
<1>14. ASSUME NEW p \in Piece, NativePiece(p) PROVE WishesInv'
  <2>1. mode' = mode /\ t' = t /\ work' = work
    BY <1>14 DEF NativePiece
  <2>2. SameWishes(native, native')
    BY <1>14, NativePieceIs
  <2> QED BY <1>3, <2>1, <2>2
<1>15. CASE NativeChecked
  <2>1. mode' = mode /\ t' = t /\ work' = work
    BY <1>15 DEF NativeChecked
  <2>2. SameWishes(native, native')
    BY <1>15, NativeCheckedIs
  <2> QED BY <1>3, <2>1, <2>2
<1>16. CASE NativeStatus
  <2>1. mode' = mode /\ t' = t /\ work' = work
    BY <1>16 DEF NativeStatus
  <2>2. SameWishes(native, native')
    BY <1>16, NativeStatusIs DEF NativeIs
  <2> QED BY <1>3, <2>1, <2>2
<1>17. CASE UNCHANGED vars
  BY <1>3, <1>4, <1>17 DEF vars
<1> QED BY <1>5, <1>6, <1>7, <1>8, <1>9, <1>10, <1>11, <1>12, <1>13, <1>14, <1>15, <1>16, <1>17
    DEF Next

(* A torrent that keeps its priorities itself loads the pieces of the files*)
(* that are wanted: prioritizeFiles() tells the new priorities before      *)
(* applyFirstLastPiecePriority() asks for the pieces.                      *)
THEOREM Wishes == Spec => []WantedFilesAreLoadedWhenResident
<1>1. Init => TypeOK /\ WishesInv
  BY InitTypes, InitWishes
<1>2. TypeOK /\ WishesInv /\ [Next]_vars => TypeOK' /\ WishesInv'
  BY TypeStep, WishesStep
<1>3. TypeOK /\ WishesInv => WantedFilesAreLoadedWhenResident
  <2>1. TypeOK => mode.deferState \in BOOLEAN
    BY FilesAssumption DEF TypeOK, Mode
  <2> QED BY <2>1 DEF WishesInv, WantedFilesAreLoadedWhenResident, WantedFilesAreLoaded
<1> QED BY <1>1, <1>2, <1>3, PTL DEF Spec

-----------------------------------------------------------------------------
(* The pieces that are known, and the files that are known complete.       *)

(* What the statuses that are on their way say of the pieces; there is at  *)
(* most one of them.                                                       *)
Statuses == {a \in Alert : a.is = "status"}
Pending(x) == {x[i].status.have : i \in Positions(x, Statuses)}

(* Before the program has asked for a recheck, and after libtorrent has    *)
(* begun with it, nothing is known that is not there; in between, nothing  *)
(* is known.                                                               *)
PiecesHold(n, s, w, x) ==
    /\ s.pieces = s.status.have
    /\ ~mode.deferState => \A p \in Piece : s.progress[p] = IF p \in s.pieces THEN 1 ELSE 0
    /\ Number(x, Statuses) <= 1
    /\ \A have \in Pending(x) : s.pieces \subseteq have
    /\ IF Rechecks(w) THEN s.pieces = {}
       ELSE /\ s.pieces \subseteq n.have
            /\ \A have \in Pending(x) : have \subseteq n.have
    /\ n.checking => n.have = {}

(* The last status says what is there, when no other is to come.           *)
StatusHolds(n, s, w, x) ==
    ~n.updated /\ ~Rechecks(w) =>
        /\ \A have \in Pending(x) : have = n.have
        /\ Pending(x) = {} => s.pieces = n.have

(* A file that is complete is known to be, or is being reported.           *)
CompletedHold(n, s, w, x) ==
    ~mode.deferState => \A f \in File : PiecesOf[f] # {} =>
        IF Rechecks(w) THEN f \notin s.completed
        ELSE f \in s.completed \/ Completes(x, f) <=> PiecesOf[f] \subseteq n.have

FilesHold(n, s, w, x) == StatusHolds(n, s, w, x) /\ CompletedHold(n, s, w, x)

PiecesInv == ~late => PiecesHold(native, t, work, alerts) /\ FilesHold(native, t, work, alerts)

LEMMA PiecesPrimed ==
    ASSUME mode' = mode,
           ~late' => PiecesHold(native', t', work', alerts') /\ FilesHold(native', t', work', alerts')
    PROVE  PiecesInv'
<1>1. PiecesHold(native', t', work', alerts') => PiecesHold(native, t, work, alerts)'
  BY DEF PiecesHold, Pending, Number, Positions, Statuses, Rechecks
<1>2. FilesHold(native', t', work', alerts') => FilesHold(native, t, work, alerts)'
  BY DEF FilesHold, StatusHolds, CompletedHold, Pending, Positions, Statuses, Rechecks, Completes
<1> QED BY <1>1, <1>2 DEF PiecesInv

LEMMA StatusesAre ==
    ASSUME NEW a \in Alert
    PROVE  a \in Statuses <=> a.is = "status"
BY DEF Statuses

LEMMA NonePending ==
    ASSUME NEW x \in Seq(Alert), Number(x, Statuses) = 0
    PROVE  Pending(x) = {}
<1>1. \A i \in DOMAIN x : x[i] \notin Statuses
  BY PositionsFinite
<1> QED BY <1>1 DEF Pending, Positions

LEMMA PendingJoined ==
    ASSUME NEW x \in Seq(Alert), NEW y \in Seq(Alert)
    PROVE  Pending(x \o y) = Pending(x) \union Pending(y)
<1>1. ASSUME NEW i \in Positions(x, Statuses)
      PROVE  x[i].status.have \in Pending(x \o y)
  <2>1. i \in DOMAIN (x \o y) /\ (x \o y)[i] = x[i]
    BY Joined DEF Positions
  <2>2. i \in Positions(x \o y, Statuses)
    BY <2>1 DEF Positions
  <2> QED BY <2>1, <2>2 DEF Pending
<1>2. ASSUME NEW i \in Positions(y, Statuses)
      PROVE  y[i].status.have \in Pending(x \o y)
  <2> DEFINE k == i + Len(x)
  <2>1. k \in DOMAIN (x \o y) /\ (x \o y)[k] = y[i]
    BY Joined DEF Positions
  <2> HIDE DEF k
  <2>2. k \in Positions(x \o y, Statuses)
    BY <2>1 DEF Positions
  <2> QED BY <2>1, <2>2 DEF Pending
<1>3. ASSUME NEW i \in Positions(x \o y, Statuses)
      PROVE  (x \o y)[i].status.have \in Pending(x) \union Pending(y)
  <2>1. i \in DOMAIN (x \o y) /\ (x \o y)[i] \in Statuses
    BY DEF Positions
  <2>2. CASE i \in DOMAIN x
    <3>1. (x \o y)[i] = x[i]
      BY <2>2, Joined
    <3>2. i \in Positions(x, Statuses)
      BY <2>1, <2>2, <3>1 DEF Positions
    <3> QED BY <3>1, <3>2 DEF Pending
  <2>3. CASE i > Len(x) /\ i - Len(x) \in DOMAIN y
    <3> DEFINE k == i - Len(x)
    <3>1. k + Len(x) = i
      <4>1. Len(x) \in Int /\ i \in Int
        BY <2>1, Joined, Elements
      <4> QED BY <4>1
    <3>2. k \in DOMAIN y
      BY <2>3
    <3> HIDE DEF k
    <3>3. (x \o y)[i] = y[k]
      BY <3>1, <3>2, Joined
    <3>4. k \in Positions(y, Statuses)
      BY <2>1, <3>2, <3>3 DEF Positions
    <3> QED BY <3>3, <3>4 DEF Pending
  <2> QED BY <2>1, <2>2, <2>3, Joined
<1>4. Pending(x) \subseteq Pending(x \o y)
  BY <1>1 DEF Pending
<1>5. Pending(y) \subseteq Pending(x \o y)
  BY <1>2 DEF Pending
<1>6. Pending(x \o y) \subseteq Pending(x) \union Pending(y)
  BY <1>3 DEF Pending
<1> QED BY <1>4, <1>5, <1>6

LEMMA SingleAlert ==
    ASSUME NEW a \in Alert
    PROVE  /\ <<a>> \in Seq(Alert) /\ DOMAIN <<a>> = {1} /\ <<a>>[1] = a
           /\ a.is = "status" => Pending(<<a>>) = {a.status.have} /\ Number(<<a>>, Statuses) = 1
           /\ a.is # "status" => Pending(<<a>>) = {} /\ Number(<<a>>, Statuses) = 0
           /\ \A f : Completes(<<a>>, f) <=> a.is = "completed" /\ a.file = f
<1>1. <<a>> \in Seq(Alert) /\ DOMAIN <<a>> = {1} /\ <<a>>[1] = a /\ Len(<<a>>) = 1
  OBVIOUS
<1>2. \A f : Completes(<<a>>, f) <=> a.is = "completed" /\ a.file = f
  BY <1>1 DEF Completes
<1>3. ASSUME a.is = "status"
      PROVE  Pending(<<a>>) = {a.status.have} /\ Number(<<a>>, Statuses) = 1
  <2>1. \A i \in DOMAIN <<a>> : <<a>>[i] \in Statuses
    BY <1>1, <1>3, StatusesAre
  <2>2. Number(<<a>>, Statuses) = 1
    BY <1>1, <2>1, NumberAll
  <2>3. Positions(<<a>>, Statuses) = {1}
    BY <1>1, <2>1 DEF Positions
  <2>4. Pending(<<a>>) = {<<a>>[i].status.have : i \in {1}}
    BY <2>3 DEF Pending
  <2> QED BY <1>1, <2>2, <2>4
<1>4. ASSUME a.is # "status"
      PROVE  Pending(<<a>>) = {} /\ Number(<<a>>, Statuses) = 0
  <2>1. \A i \in DOMAIN <<a>> : <<a>>[i] \notin Statuses
    BY <1>1, <1>4, StatusesAre
  <2>2. Number(<<a>>, Statuses) = 0
    BY <1>1, <2>1, PositionsFinite
  <2> QED BY <1>1, <2>2, NonePending
<1> QED BY <1>1, <1>2, <1>3, <1>4

LEMMA NoStatus ==
    ASSUME NEW y \in Seq(Alert), NEW kinds, Only(y, kinds), "status" \notin kinds
    PROVE  Pending(y) = {} /\ Number(y, Statuses) = 0
<1>1. \A i \in DOMAIN y : y[i] \notin Statuses
  BY Elements, StatusesAre DEF Only
<1>2. Number(y, Statuses) = 0
  BY <1>1, PositionsFinite
<1> QED BY <1>2, NonePending

LEMMA NoCompletion ==
    ASSUME NEW y, NEW kinds, Only(y, kinds), "completed" \notin kinds
    PROVE  \A f : ~Completes(y, f)
BY DEF Only, Completes

(* The first alert and the rest.                                           *)
LEMMA FirstAndRest ==
    ASSUME NEW x \in Seq(Alert), x # <<>>
    PROVE  x = <<Head(x)>> \o Tail(x) /\ Tail(x) \in Seq(Alert) /\ Head(x) \in Alert
<1>1. Head(x) \in Alert /\ Tail(x) \in Seq(Alert)
  BY Rest
<1>2. <<Head(x)>> \o Tail(x) = x
  BY HeadTailProperties, ConcatProperties
<1> QED BY <1>1, <1>2

(* What the handling of an alert does to what is on its way, and what it   *)
(* does if no report was late.                                             *)
LEMMA AlertTaken ==
    ASSUME TypeOK, HandleAlert
    PROVE  LET a == Head(alerts)
           IN  /\ a \in Alert /\ alerts' \in Seq(Alert) /\ t' \in TorrentImpl
               /\ mode' = mode /\ native' = native
               /\ Pending(alerts) = (IF a.is = "status" THEN {a.status.have} ELSE {})
                                       \union Pending(alerts')
               /\ Number(alerts, Statuses) =
                     (IF a.is = "status" THEN 1 ELSE 0) + Number(alerts', Statuses)
               /\ \A f : Completes(alerts, f) <=>
                     (a.is = "completed" /\ a.file = f) \/ Completes(alerts', f)
               /\ ~late' => ~late /\ (a.is \in {"completed", "status"} => ~Rechecks(work))
               /\ \E again \in BOOLEAN :
                     PiecesHandled(a, again) /\ (Rechecks(work') <=> Rechecks(work) \/ again)
<1> DEFINE a == Head(alerts)
           rest == Tail(alerts)
<1>1. alerts # <<>> /\ a \in Alert /\ Handled(a)
  BY HandleAlertIs
<1>2. PICK next \in Seq(Trigger) : /\ next \in Seq(Alert) /\ rest \in Seq(Alert)
                                   /\ alerts' = next \o rest
  BY AlertsTail
<1>3. mode' = mode /\ native' = native /\ late' = (late \/ (IsReport(a) /\ Rechecks(work)))
  BY DEF HandleAlert
<1>4. ~late' => ~late /\ (a.is \in {"completed", "status"} => ~Rechecks(work))
  BY <1>3 DEF IsReport
<1>5. Only(next, {"run_checked", "run_finished"})
  BY <1>2, Elements, TriggerTypes DEF Only
<1>6. Pending(next) = {} /\ Number(next, Statuses) = 0 /\ \A f : ~Completes(next, f)
  BY <1>2, <1>5, NoStatus, NoCompletion
<1>7. alerts \in Seq(Alert)
  BY DEF TypeOK
<1>8. alerts = <<a>> \o rest
  BY <1>1, <1>7, FirstAndRest
<1> HIDE DEF a, rest
<1>9. <<a>> \in Seq(Alert)
  BY <1>1, SingleAlert
<1>10. Pending(alerts') = Pending(rest) /\ Pending(alerts) = Pending(<<a>>) \union Pending(rest)
  <2>1. Pending(next \o rest) = Pending(next) \union Pending(rest)
    BY <1>2, PendingJoined
  <2>2. Pending(<<a>> \o rest) = Pending(<<a>>) \union Pending(rest)
    BY <1>2, <1>9, PendingJoined
  <2> QED BY <1>2, <1>6, <1>8, <2>1, <2>2
<1>11. /\ Number(alerts', Statuses) = Number(next, Statuses) + Number(rest, Statuses)
       /\ Number(alerts, Statuses) = Number(<<a>>, Statuses) + Number(rest, Statuses)
       /\ Number(rest, Statuses) \in Nat
  <2>1. Number(alerts', Statuses) = Number(next, Statuses) + Number(rest, Statuses)
    BY <1>2, NumberJoined
  <2>2. Number(<<a>> \o rest, Statuses) = Number(<<a>>, Statuses) + Number(rest, Statuses)
    BY <1>2, <1>9, NumberJoined
  <2>3. Number(rest, Statuses) \in Nat
    BY <1>2, PositionsFinite
  <2> QED BY <1>8, <2>1, <2>2, <2>3
<1>12. \A f : /\ Completes(alerts', f) <=> Completes(rest, f)
              /\ Completes(alerts, f) <=> Completes(<<a>>, f) \/ Completes(rest, f)
  BY <1>2, <1>6, <1>8, <1>9, CompletesJoined
<1>13. Pending(alerts) = (IF a.is = "status" THEN {a.status.have} ELSE {}) \union Pending(alerts')
  BY <1>1, <1>10, SingleAlert
<1>14. Number(alerts, Statuses) = (IF a.is = "status" THEN 1 ELSE 0) + Number(alerts', Statuses)
  <2>1. Number(alerts', Statuses) = Number(rest, Statuses)
    BY <1>6, <1>11
  <2> QED BY <1>1, <1>11, <2>1, SingleAlert
<1>15. \A f : Completes(alerts, f) <=>
                 (a.is = "completed" /\ a.file = f) \/ Completes(alerts', f)
  BY <1>1, <1>12, SingleAlert
<1>16. alerts' \in Seq(Alert) /\ t' \in TorrentImpl
  BY <1>1, <1>2, Joined DEF Handled
<1>17. \E again \in BOOLEAN :
          PiecesHandled(a, again) /\ (Rechecks(work') <=> Rechecks(work) \/ again)
  BY <1>1, AsksGrow DEF Handled
<1> QED BY <1>1, <1>3, <1>4, <1>13, <1>14, <1>15, <1>16, <1>17 DEF a

(* A new status, when no recheck is asked for: it is of the pieces that    *)
(* are there, and all of those that were known.                            *)
LEMMA PiecesUpdated ==
    ASSUME NEW s \in TorrentImpl, NEW x \in TorrentImpl, NEW status \in Status,
           Updated(s, x, status), s.pieces = s.status.have, s.pieces \subseteq status.have,
           ~mode.deferState => \A p \in Piece : s.progress[p] = IF p \in s.pieces THEN 1 ELSE 0
    PROVE  /\ x.pieces = status.have /\ x.status = status
           /\ ~mode.deferState => \A p \in Piece : x.progress[p] = IF p \in x.pieces THEN 1 ELSE 0
<1>1. IsFiniteSet(status.have) /\ status.have \in SUBSET Piece
  BY StatusParts, FilesAssumption, FS_Subset
<1>2. CASE Cardinality(status.have) # Cardinality(s.status.have)
  <2>1. /\ x.pieces = status.have /\ x.status = status
        /\ ~mode.deferState => \A p \in Piece :
              x.progress[p] = IF (p \in status.have) # (p \in s.pieces)
                              THEN s.progress[p] + 1 ELSE s.progress[p]
    BY <1>2 DEF Updated
  <2>2. ASSUME ~mode.deferState, NEW p \in Piece
        PROVE  x.progress[p] = IF p \in status.have THEN 1 ELSE 0
    <3>1. x.progress[p] = IF (p \in status.have) # (p \in s.pieces)
                          THEN s.progress[p] + 1 ELSE s.progress[p]
      BY <2>1, <2>2
    <3>2. s.progress[p] = IF p \in s.pieces THEN 1 ELSE 0
      BY <2>2
    <3>3. CASE p \in s.pieces
      <4>1. p \in status.have
        BY <3>3
      <4> QED BY <3>1, <3>2, <3>3, <4>1
    <3>4. CASE p \notin s.pieces /\ p \in status.have
      BY <3>1, <3>2, <3>4
    <3>5. CASE p \notin s.pieces /\ p \notin status.have
      BY <3>1, <3>2, <3>5
    <3> QED BY <3>3, <3>4, <3>5
  <2> QED BY <2>1, <2>2
<1>3. CASE Cardinality(status.have) = Cardinality(s.status.have)
  <2>1. status.have = s.pieces
    <3>1. s.pieces \in SUBSET status.have
      OBVIOUS
    <3> QED BY <1>1, <1>3, <3>1, FS_Subset
  <2>2. x.pieces = s.pieces /\ x.progress = s.progress /\ x.status = status
    BY <1>3 DEF Updated
  <2> QED BY <2>1, <2>2
<1> QED BY <1>2, <1>3

(* Nothing is known any more.                                              *)
LEMMA PiecesForgotten ==
    ASSUME NEW s, NEW x, Rechecked(s, x)
    PROVE  /\ x.pieces = {} /\ x.status.have = {}
           /\ ~mode.deferState => /\ x.completed = {}
                                  /\ \A p \in Piece : x.progress[p] = IF p \in x.pieces THEN 1 ELSE 0
BY DEF Rechecked

LEMMA PiecesTaken ==
    ASSUME TypeOK, HandleAlert, ~late', PiecesHold(native, t, work, alerts)
    PROVE  PiecesHold(native', t', work', alerts')
<1> DEFINE a == Head(alerts)
<1>1. /\ a \in Alert /\ alerts' \in Seq(Alert) /\ t' \in TorrentImpl
      /\ mode' = mode /\ native' = native
      /\ Pending(alerts) = (IF a.is = "status" THEN {a.status.have} ELSE {})
                              \union Pending(alerts')
      /\ Number(alerts, Statuses) =
            (IF a.is = "status" THEN 1 ELSE 0) + Number(alerts', Statuses)
      /\ a.is \in {"completed", "status"} => ~Rechecks(work)
  BY AlertTaken
<1>2. PICK again \in BOOLEAN :
         PiecesHandled(a, again) /\ (Rechecks(work') <=> Rechecks(work) \/ again)
  BY AlertTaken
<1>3. Number(alerts', Statuses) \in Nat /\ Number(alerts, Statuses) <= 1
  BY <1>1, PositionsFinite DEF PiecesHold
<1>4. native.checking => native.have = {}
  BY DEF PiecesHold
<1>5. t \in TorrentImpl
  BY DEF TypeOK
<1> HIDE DEF a
<1>6. Number(alerts', Statuses) <= 1 /\ Pending(alerts') \subseteq Pending(alerts)
  BY <1>1, <1>3
<1>7. CASE again
  <2>1. Rechecked(t, t') /\ Rechecks(work')
    BY <1>2, <1>7 DEF PiecesHandled
  <2> QED BY <1>1, <1>4, <1>6, <2>1, PiecesForgotten DEF PiecesHold
<1>8. CASE ~again /\ a.is = "status"
  <2>1. Updated(t, t', a.status) /\ ~Rechecks(work) /\ ~Rechecks(work') /\ a.status \in Status
    BY <1>1, <1>2, <1>8, AlertParts DEF PiecesHandled
  <2>2. Pending(alerts') = {}
    <3>1. Number(alerts', Statuses) = 0
      BY <1>1, <1>3, <1>8
    <3> QED BY <1>1, <3>1, NonePending
  <2>3. a.status.have \in Pending(alerts)
    BY <1>1, <1>8
  <2>4. t.pieces \subseteq a.status.have /\ a.status.have \subseteq native.have
    BY <2>1, <2>3 DEF PiecesHold
  <2>5. /\ t'.pieces = a.status.have /\ t'.status = a.status
        /\ ~mode.deferState => \A p \in Piece : t'.progress[p] = IF p \in t'.pieces THEN 1 ELSE 0
    BY <1>1, <1>5, <2>1, <2>4, PiecesUpdated DEF PiecesHold
  <2>6. t'.pieces = t'.status.have
    BY <2>5
  <2> QED BY <1>1, <1>4, <1>6, <2>1, <2>2, <2>4, <2>5, <2>6 DEF PiecesHold
<1>9. CASE ~again /\ a.is # "status"
  <2>1. SamePieces(t, t') /\ (Rechecks(work') <=> Rechecks(work))
    BY <1>2, <1>9 DEF PiecesHandled
  <2>2. Pending(alerts') = Pending(alerts)
    BY <1>1, <1>9
  <2>3. /\ t.pieces = t.status.have
        /\ ~mode.deferState => \A p \in Piece : t.progress[p] = IF p \in t.pieces THEN 1 ELSE 0
        /\ \A have \in Pending(alerts) : t.pieces \subseteq have
        /\ IF Rechecks(work) THEN t.pieces = {}
           ELSE /\ t.pieces \subseteq native.have
                /\ \A have \in Pending(alerts) : have \subseteq native.have
    BY DEF PiecesHold
  <2>4. t'.pieces = t.pieces /\ t'.progress = t.progress /\ t'.status = t.status
    BY <2>1 DEF SamePieces
  <2> QED BY <1>1, <1>4, <1>6, <2>1, <2>2, <2>3, <2>4 DEF PiecesHold
<1> QED BY <1>2, <1>7, <1>8, <1>9

LEMMA FilesTaken ==
    ASSUME TypeOK, HandleAlert, ~late', PiecesHold(native, t, work, alerts),
           FilesHold(native, t, work, alerts)
    PROVE  FilesHold(native', t', work', alerts')
<1> DEFINE a == Head(alerts)
<1>1. /\ a \in Alert /\ alerts' \in Seq(Alert) /\ t' \in TorrentImpl
      /\ mode' = mode /\ native' = native
      /\ Pending(alerts) = (IF a.is = "status" THEN {a.status.have} ELSE {})
                              \union Pending(alerts')
      /\ Number(alerts, Statuses) =
            (IF a.is = "status" THEN 1 ELSE 0) + Number(alerts', Statuses)
      /\ \A f : Completes(alerts, f) <=>
            (a.is = "completed" /\ a.file = f) \/ Completes(alerts', f)
      /\ a.is \in {"completed", "status"} => ~Rechecks(work)
  BY AlertTaken
<1>2. PICK again \in BOOLEAN :
         PiecesHandled(a, again) /\ (Rechecks(work') <=> Rechecks(work) \/ again)
  BY AlertTaken
<1>3. t \in TorrentImpl
  BY DEF TypeOK
<1> HIDE DEF a
<1>4. StatusHolds(native', t', work', alerts')
  <2> SUFFICES ASSUME ~native.updated, ~Rechecks(work')
               PROVE  /\ \A have \in Pending(alerts') : have = native.have
                      /\ Pending(alerts') = {} => t'.pieces = native.have
    BY <1>1 DEF StatusHolds
  <2>1. ~again /\ ~Rechecks(work)
    BY <1>2
  <2>2. /\ \A have \in Pending(alerts) : have = native.have
        /\ Pending(alerts) = {} => t.pieces = native.have
    BY <2>1 DEF FilesHold, StatusHolds
  <2>3. \A have \in Pending(alerts') : have = native.have
    BY <1>1, <2>2
  <2>4. CASE a.is = "status"
    <3>1. a.status.have \in Pending(alerts)
      BY <1>1, <2>4
    <3>2. a.status.have = native.have /\ t.pieces \subseteq a.status.have
      BY <2>2, <3>1 DEF PiecesHold
    <3>3. Updated(t, t', a.status) /\ a.status \in Status
      BY <1>1, <1>2, <2>1, <2>4, AlertParts DEF PiecesHandled
    <3>4. t'.pieces = a.status.have
      BY <1>1, <1>3, <3>2, <3>3, PiecesUpdated DEF PiecesHold
    <3> QED BY <2>3, <3>2, <3>4
  <2>5. CASE a.is # "status"
    <3>1. t'.pieces = t.pieces
      BY <1>2, <2>1, <2>5 DEF PiecesHandled, SamePieces
    <3>2. Pending(alerts') = Pending(alerts)
      BY <1>1, <2>5
    <3> QED BY <2>2, <3>1, <3>2
  <2> QED BY <2>4, <2>5
<1>5. CompletedHold(native', t', work', alerts')
  <2> SUFFICES ASSUME ~mode.deferState, NEW f \in File, PiecesOf[f] # {}
               PROVE  IF Rechecks(work') THEN f \notin t'.completed
                      ELSE f \in t'.completed \/ Completes(alerts', f)
                              <=> PiecesOf[f] \subseteq native.have
    BY <1>1 DEF CompletedHold
  <2>1. IF Rechecks(work) THEN f \notin t.completed
        ELSE f \in t.completed \/ Completes(alerts, f) <=> PiecesOf[f] \subseteq native.have
    BY DEF FilesHold, CompletedHold
  <2>2. CASE again
    <3>1. t'.completed = {} /\ Rechecks(work')
      BY <1>2, <2>2, PiecesForgotten DEF PiecesHandled
    <3> QED BY <3>1
  <2>3. CASE ~again /\ a.is = "completed"
    <3>1. t'.completed = t.completed \union {a.file} /\ ~Rechecks(work) /\ ~Rechecks(work')
      BY <1>1, <1>2, <2>3 DEF PiecesHandled
    <3>2. Completes(alerts, f) <=> a.file = f \/ Completes(alerts', f)
      BY <1>1, <2>3
    <3> QED BY <2>1, <3>1, <3>2
  <2>4. CASE ~again /\ a.is # "completed"
    <3>1. t'.completed = t.completed /\ (Rechecks(work') <=> Rechecks(work))
      BY <1>2, <2>4 DEF PiecesHandled
    <3>2. Completes(alerts, f) <=> Completes(alerts', f)
      BY <1>1, <2>4
    <3> QED BY <2>1, <3>1, <3>2
  <2> QED BY <1>2, <2>2, <2>3, <2>4
<1> QED BY <1>4, <1>5 DEF FilesHold

(* What a call of the user leaves of pieces and files.                     *)
LEMMA PiecesAsked ==
    ASSUME TypeOK, PiecesInv, mode' = mode, native' = native, alerts' = alerts, late' = late,
           \/ Rechecked(t, t') /\ Rechecks(work')
           \/ /\ SamePieces(t, t') /\ t'.completed = t.completed
              /\ Rechecks(work') <=> Rechecks(work)
    PROVE  PiecesInv'
<1> SUFFICES ASSUME ~late', PiecesHold(native, t, work, alerts), FilesHold(native, t, work, alerts)
             PROVE  PiecesHold(native', t', work', alerts') /\ FilesHold(native', t', work', alerts')
  BY PiecesPrimed DEF PiecesInv
<1>1. CASE Rechecked(t, t') /\ Rechecks(work')
  <2>1. PiecesHold(native', t', work', alerts')
    BY <1>1, PiecesForgotten DEF PiecesHold
  <2>2. CompletedHold(native', t', work', alerts')
    BY <1>1, PiecesForgotten DEF CompletedHold
  <2>3. StatusHolds(native', t', work', alerts')
    BY <1>1 DEF StatusHolds
  <2> QED BY <2>1, <2>2, <2>3 DEF FilesHold
<1>2. CASE /\ SamePieces(t, t') /\ t'.completed = t.completed
           /\ Rechecks(work') <=> Rechecks(work)
  <2>1. PiecesHold(native', t', work', alerts')
    BY <1>2 DEF PiecesHold, SamePieces
  <2>2. CompletedHold(native', t', work', alerts')
    BY <1>2 DEF CompletedHold, FilesHold
  <2>3. StatusHolds(native', t', work', alerts')
    BY <1>2 DEF StatusHolds, FilesHold, SamePieces
  <2> QED BY <2>1, <2>2, <2>3 DEF FilesHold
<1> QED BY <1>1, <1>2

(* libtorrent goes on and reports, but not with a status.                  *)
LEMMA PiecesReported ==
    ASSUME TypeOK, PiecesInv, mode' = mode, t' = t, late' = late,
           Rechecks(work') <=> Rechecks(work),
           NEW y \in Seq(Alert), alerts' = alerts \o y,
           Pending(y) = {}, Number(y, Statuses) = 0,
           native'.checking => native'.have = {},
           native.have \subseteq native'.have,
           native'.updated \/ (native'.updated = native.updated /\ native'.have = native.have),
           \A f \in File : PiecesOf[f] # {} =>
              (Completes(y, f) \/ PiecesOf[f] \subseteq native.have <=> PiecesOf[f] \subseteq native'.have)
    PROVE  PiecesInv'
<1> SUFFICES ASSUME ~late', PiecesHold(native, t, work, alerts), FilesHold(native, t, work, alerts)
             PROVE  PiecesHold(native', t', work', alerts') /\ FilesHold(native', t', work', alerts')
  BY PiecesPrimed DEF PiecesInv
<1>1. alerts \in Seq(Alert)
  BY DEF TypeOK
<1>2. Pending(alerts') = Pending(alerts)
  <2>1. Pending(alerts \o y) = Pending(alerts) \union Pending(y)
    BY <1>1, PendingJoined
  <2> QED BY <2>1
<1>3. Number(alerts', Statuses) = Number(alerts, Statuses)
  <2>1. Number(alerts, Statuses) \in Nat
    BY <1>1, PositionsFinite
  <2>2. Number(alerts', Statuses) = Number(alerts, Statuses) + Number(y, Statuses)
    BY <1>1, NumberJoined
  <2> QED BY <2>1, <2>2
<1>4. PiecesHold(native', t', work', alerts')
  <2>1. IF Rechecks(work') THEN t.pieces = {}
        ELSE /\ t.pieces \subseteq native'.have
             /\ \A have \in Pending(alerts') : have \subseteq native'.have
    BY <1>2 DEF PiecesHold
  <2> QED BY <1>2, <1>3, <2>1 DEF PiecesHold
<1>5. CompletedHold(native', t', work', alerts')
  <2>1. \A f : Completes(alerts', f) <=> Completes(alerts, f) \/ Completes(y, f)
    BY <1>1, CompletesJoined
  <2> QED BY <2>1 DEF CompletedHold, FilesHold
<1>6. StatusHolds(native', t', work', alerts')
  BY <1>2 DEF StatusHolds, FilesHold
<1> QED BY <1>4, <1>5, <1>6 DEF FilesHold

LEMMA InitPieces == Init => PiecesInv
<1> SUFFICES ASSUME Init PROVE PiecesInv
  OBVIOUS
<1>1. /\ t.pieces = {} /\ t.status.have = {} /\ t.completed = {}
      /\ t.progress = [p \in Piece |-> 0]
      /\ native.have = {} /\ native.checking /\ native.updated
  BY DEF Init
<1>2. work = <<>> /\ alerts = <<>>
  BY DEF Init
<1>3. ~Rechecks(work)
  BY <1>2 DEF Rechecks
<1>4. Number(alerts, Statuses) = 0 /\ Pending(alerts) = {} /\ \A f : ~Completes(alerts, f)
  <2>1. alerts \in Seq(Alert)
    BY <1>2
  <2>2. Number(alerts, Statuses) = 0
    BY <1>2, NumberEmpty
  <2>3. \A f : ~Completes(alerts, f)
    BY <1>2 DEF Completes
  <2> QED BY <2>1, <2>2, <2>3, NonePending
<1>5. PiecesHold(native, t, work, alerts)
  BY <1>1, <1>3, <1>4 DEF PiecesHold
<1>6. CompletedHold(native, t, work, alerts)
  BY <1>1, <1>3, <1>4 DEF CompletedHold
<1>7. StatusHolds(native, t, work, alerts)
  BY <1>1 DEF StatusHolds
<1> QED BY <1>5, <1>6, <1>7 DEF PiecesInv, FilesHold

LEMMA PiecesStep == TypeOK /\ PiecesInv /\ [Next]_vars => PiecesInv'
<1> SUFFICES ASSUME TypeOK, PiecesInv, [Next]_vars PROVE PiecesInv'
  OBVIOUS
<1>1. ASSUME Event, SamePieces(t, t'), t'.completed = t.completed,
             Rechecks(work') <=> Rechecks(work)
      PROVE  PiecesInv'
  BY <1>1, EventIs, PiecesAsked
<1>2. ASSUME NEW prios \in Priorities, PrioritizeFiles(prios) PROVE PiecesInv'
  <2> DEFINE q == Prioritized(prios)
             r == Wanted(FilePriorities(t'))
  <2>1. /\ q \in Request /\ r \in Request /\ (work' = work \o <<q>> \/ work' = work \o <<q, r>>)
        /\ SamePieces(t, t') /\ t'.completed = t.completed
    BY <1>2, PrioritizeIs DEF SameFiles
  <2>2. q.do = "prioritize" /\ r.do = "wanted"
    BY DEF Prioritized, Wanted
  <2> HIDE DEF q, r
  <2>3. /\ <<q>> \in Seq(Request) /\ Plain(<<q>>)
        /\ <<q, r>> \in Seq(Request) /\ Plain(<<q, r>>)
    BY <2>1, <2>2, SingleIs, PairIs
  <2>4. Event
    BY <1>2 DEF PrioritizeFiles
  <2>5. Rechecks(work') <=> Rechecks(work)
    <3>1. CASE work' = work \o <<q>>
      BY <2>3, <3>1, PlainGrow
    <3>2. CASE work' = work \o <<q, r>>
      BY <2>3, <3>2, PlainGrow
    <3> QED BY <2>1, <3>1, <3>2
  <2> QED BY <1>1, <2>1, <2>4, <2>5
<1>3. CASE SetFirstLastPiecePriority
  <2> DEFINE r == Wanted(FilePriorities(t))
  <2>1. r \in Request /\ work' = work \o <<r>> /\ SamePieces(t, t') /\ t'.completed = t.completed
    BY <1>3, FirstLastIs DEF SameFiles
  <2>2. r.do = "wanted"
    BY DEF Wanted
  <2> HIDE DEF r
  <2>3. Event
    BY <1>3 DEF SetFirstLastPiecePriority
  <2>4. Rechecks(work') <=> Rechecks(work)
    BY <2>1, <2>2, SingleIs, PlainGrow
  <2> QED BY <1>1, <2>1, <2>3, <2>4
<1>4. ASSUME NEW f \in File, NEW path \in Path, RenameFile(f, path) PROVE PiecesInv'
  <2>1. PICK r \in Request : r.do = "rename" /\ work' = work \o <<r>>
    BY <1>4, RenameFileIs
  <2>2. Event /\ SamePieces(t, t') /\ t'.completed = t.completed
    BY <1>4, RenameFileIs DEF RenameFile
  <2>3. <<r>> \in Seq(Request) /\ ~Rechecks(<<r>>)
    BY <2>1, SingleIs DEF Rechecks
  <2>4. Rechecks(work') <=> Rechecks(work)
    BY <2>1, <2>3, WorkGrows
  <2> QED BY <1>1, <2>2, <2>4
<1>5. CASE ToggleAppendExtension
  <2>1. Event
    BY <1>5 DEF ToggleAppendExtension
  <2>2. SamePieces(t, t') /\ t'.completed = t.completed /\ \E n : Asks(n, FALSE)
    BY <1>5, ToggleIs
  <2>3. Rechecks(work') <=> Rechecks(work)
    BY <2>2, AsksGrow
  <2> QED BY <1>1, <2>1, <2>2, <2>3
<1>6. CASE Recheck
  <2>1. mode' = mode /\ native' = native /\ alerts' = alerts /\ late' = late
    BY <1>6, EventIs DEF Recheck
  <2>2. Rechecked(t, t') /\ Asks(0, TRUE)
    BY <1>6, RecheckIs
  <2>3. Rechecks(work')
    BY <2>2, AsksGrow
  <2> QED BY <2>1, <2>2, <2>3, PiecesAsked
<1>7. CASE SaveResumeData
  <2> DEFINE r == [do |-> "save"]
  <2>1. r \in Request /\ r.do = "save"
    BY RequestTypes
  <2>2. /\ work' = Append(work, r) /\ mode' = mode /\ native' = native /\ t' = t
        /\ alerts' = alerts /\ late' = late
    BY <1>7 DEF SaveResumeData
  <2> HIDE DEF r
  <2>3. work' = work \o <<r>>
    BY <2>1, <2>2, AppendIsConcat DEF TypeOK
  <2>4. Rechecks(work') <=> Rechecks(work)
    BY <2>1, <2>3, SingleIs, PlainGrow
  <2> QED BY <2>2, <2>4, PiecesAsked DEF SamePieces
<1>8. ASSUME mode' = mode, native' = native, alerts' = alerts, late' = late, t' = t, work' = work
      PROVE  PiecesInv'
  BY <1>8, PiecesAsked DEF SamePieces
<1>9. CASE ReadAlerts
  BY <1>8, <1>9 DEF ReadAlerts
<1>10. CASE HandleAlert
  <2>1. mode' = mode /\ (~late' => ~late)
    BY <1>10, AlertTaken
  <2>2. ~late' => /\ PiecesHold(native', t', work', alerts')
                  /\ FilesHold(native', t', work', alerts')
    BY <1>10, <2>1, PiecesTaken, FilesTaken DEF PiecesInv
  <2> QED BY <2>1, <2>2, PiecesPrimed
<1>11. CASE NativeRequest
  <2> DEFINE r == Head(work)
  <2>1. work # <<>> /\ work' = Tail(work) /\ work \in Seq(Request) /\ r \in Request
    BY <1>11, NativeRequestIs DEF TypeOK
  <2>2. PICK y \in Seq(Alert) : alerts' = alerts \o y /\ CarriedOut(r, y)
    BY <1>11, NativeRequestIs
  <2>3. /\ mode' = mode /\ t' = t
        /\ late' = (late \/ (r.do = "recheck" /\ \E i \in DOMAIN alerts : IsReport(alerts[i])))
    BY <1>11 DEF NativeRequest
  <2>4. /\ r.do = "recheck" => Rechecks(work)
        /\ r.do # "recheck" => (Rechecks(work') <=> Rechecks(work))
    <3>1. /\ Head(work) = work[1] /\ 1 \in DOMAIN work
          /\ \A i \in DOMAIN Tail(work) : i + 1 \in DOMAIN work /\ Tail(work)[i] = work[i + 1]
          /\ \A i \in DOMAIN work : i # 1 => i - 1 \in DOMAIN Tail(work) /\ Tail(work)[i - 1] = work[i]
      BY <2>1, Rest
    <3>2. Rechecks(Tail(work)) => Rechecks(work)
      <4> SUFFICES ASSUME NEW i \in DOMAIN Tail(work), Tail(work)[i].do = "recheck"
                   PROVE  Rechecks(work)
        BY DEF Rechecks
      <4> DEFINE k == i + 1
      <4>1. k \in DOMAIN work /\ work[k].do = "recheck"
        BY <3>1
      <4> HIDE DEF k
      <4> QED BY <4>1 DEF Rechecks
    <3>3. ASSUME r.do # "recheck", Rechecks(work) PROVE Rechecks(Tail(work))
      <4>1. PICK i \in DOMAIN work : work[i].do = "recheck"
        BY <3>3 DEF Rechecks
      <4>2. i # 1
        BY <3>1, <3>3, <4>1
      <4> DEFINE k == i - 1
      <4>3. k \in DOMAIN Tail(work) /\ Tail(work)[k].do = "recheck"
        BY <3>1, <4>1, <4>2
      <4> HIDE DEF k
      <4> QED BY <4>3 DEF Rechecks
    <3>4. r.do = "recheck" => Rechecks(work)
      BY <3>1 DEF Rechecks
    <3> QED BY <2>1, <3>2, <3>3, <3>4
  <2> HIDE DEF r
  <2>5. CASE r.do = "recheck"
    <3>1. /\ native'.have = {} /\ native'.checking /\ native'.updated
          /\ Only(y, {"finished"})
      BY <2>2, <2>5 DEF CarriedOut
    <3>2. Pending(y) = {} /\ Number(y, Statuses) = 0 /\ \A f : ~Completes(y, f)
      BY <3>1, NoStatus, NoCompletion
    <3> SUFFICES ASSUME ~late'
                 PROVE  /\ PiecesHold(native', t', work', alerts')
                        /\ FilesHold(native', t', work', alerts')
      BY <2>3, PiecesPrimed
    <3>3. PiecesHold(native, t, work, alerts) /\ FilesHold(native, t, work, alerts)
      BY <2>3 DEF PiecesInv
    <3>4. \A i \in DOMAIN alerts : alerts[i].is # "status" /\ alerts[i].is # "completed"
      BY <2>3, <2>5 DEF IsReport
    <3>5. alerts \in Seq(Alert)
      BY DEF TypeOK
    <3>6. Pending(alerts) = {} /\ Number(alerts, Statuses) = 0 /\ \A f : ~Completes(alerts, f)
      <4>1. \A i \in DOMAIN alerts : alerts[i] \notin Statuses
        BY <3>4 DEF Statuses
      <4>2. Number(alerts, Statuses) = 0
        BY <3>5, <4>1, PositionsFinite
      <4>3. \A f : ~Completes(alerts, f)
        BY <3>4 DEF Completes
      <4> QED BY <3>5, <4>2, <4>3, NonePending
    <3>7. Pending(alerts') = {} /\ Number(alerts', Statuses) = 0 /\ \A f : ~Completes(alerts', f)
      <4>1. Pending(alerts \o y) = Pending(alerts) \union Pending(y)
        BY <3>5, PendingJoined
      <4>2. Number(alerts \o y, Statuses) = Number(alerts, Statuses) + Number(y, Statuses)
        BY <3>5, NumberJoined
      <4>3. \A f : Completes(alerts \o y, f) <=> Completes(alerts, f) \/ Completes(y, f)
        BY <3>5, CompletesJoined
      <4> QED BY <2>2, <3>2, <3>6, <4>1, <4>2, <4>3
    <3>8. Rechecks(work)
      BY <2>4, <2>5
    <3>9. t.pieces = {}
      BY <3>3, <3>8 DEF PiecesHold
    <3>10. PiecesHold(native', t', work', alerts')
      BY <2>3, <3>1, <3>3, <3>7, <3>9 DEF PiecesHold
    <3>11. StatusHolds(native', t', work', alerts')
      BY <3>1 DEF StatusHolds
    <3>12. CompletedHold(native', t', work', alerts')
      <4>1. ~mode.deferState => \A f \in File : PiecesOf[f] # {} => f \notin t.completed
        BY <3>3, <3>8 DEF FilesHold, CompletedHold
      <4> QED BY <2>3, <3>1, <3>7, <4>1 DEF CompletedHold
    <3> QED BY <3>10, <3>11, <3>12 DEF FilesHold
  <2>6. CASE r.do # "recheck"
    <3>1. /\ native'.have = native.have /\ native'.checking = native.checking
          /\ native'.updated \/ native'.updated = native.updated
      BY <2>2, <2>6 DEF CarriedOut, NativeIs, SameDisk
    <3>2. Pending(y) = {} /\ Number(y, Statuses) = 0 /\ \A f : ~Completes(y, f)
      <4> DEFINE kinds == {"finished", "renamed", "rename_failed", "saved"}
      <4>1. Only(y, kinds)
        <5>1. CASE Only(y, {"finished"})
          BY <5>1 DEF Only
        <5>2. CASE y = <<Failed(r)>>
          BY <5>2 DEF Only, Failed
        <5>3. CASE y = <<SavedAs(native)>>
          BY <5>3 DEF Only, SavedAs
        <5>4. CASE r.do = "rename" /\ \E end \in Seq(Alert) :
                      Only(end, {"finished"}) /\ y = <<RenamedTo(r)>> \o end
          <6>1. PICK end \in Seq(Alert) : Only(end, {"finished"}) /\ y = <<RenamedTo(r)>> \o end
            BY <5>4
          <6>2. r.file \in File /\ r.to.path \in Path
            BY <2>1, <5>4, RequestParts DEF DiskName
          <6>3. RenamedTo(r) \in Alert /\ RenamedTo(r).is = "renamed"
            BY <6>2, AlertTypes DEF RenamedTo
          <6>4. <<RenamedTo(r)>> \in Seq(Alert) /\ Only(<<RenamedTo(r)>>, {"renamed"})
            BY <6>3, SingleAlert DEF Only
          <6>5. Only(y, {"renamed"} \union {"finished"})
            BY <6>1, <6>4, OnlyJoined
          <6> QED BY <6>5 DEF Only
        <5> QED BY <2>2, <2>6, <5>1, <5>2, <5>3, <5>4 DEF CarriedOut
      <4>2. "status" \notin kinds /\ "completed" \notin kinds
        OBVIOUS
      <4> HIDE DEF kinds
      <4> QED BY <4>1, <4>2, NoStatus, NoCompletion
    <3>3. Rechecks(work') <=> Rechecks(work)
      BY <2>4, <2>6
    <3>4. late' = late
      BY <2>3, <2>6 DEF TypeOK
    <3>5. CASE late
      BY <2>3, <3>4, <3>5, PiecesPrimed
    <3>6. CASE ~late
      <4>1. native'.checking => native'.have = {}
        BY <3>1, <3>6 DEF PiecesInv, PiecesHold
      <4> QED BY <2>2, <2>3, <3>1, <3>2, <3>3, <3>4, <4>1, PiecesReported
    <3> QED BY <3>5, <3>6
  <2> QED BY <2>5, <2>6
<1>12. ASSUME NEW p \in Piece, NativePiece(p) PROVE PiecesInv'
  <2>1. mode' = mode /\ t' = t /\ late' = late /\ work' = work
    BY <1>12 DEF NativePiece
  <2>2. /\ ~native.checking /\ native'.have = native.have \union {p}
        /\ native'.checking = native.checking /\ native'.updated
    BY <1>12, NativePieceIs
  <2>3. PICK y \in Seq(Alert) :
           /\ alerts' = alerts \o y /\ Only(y, {"finished", "completed"})
           /\ \A f \in File : Completes(y, f) <=>
                 p \in PiecesOf[f] /\ PiecesOf[f] \subseteq native.have \union {p}
    BY <1>12, NativePieceIs
  <2>4. Pending(y) = {} /\ Number(y, Statuses) = 0
    BY <2>3, NoStatus
  <2>5. \A f \in File : PiecesOf[f] # {} =>
           (Completes(y, f) \/ PiecesOf[f] \subseteq native.have <=> PiecesOf[f] \subseteq native'.have)
    BY <2>2, <2>3
  <2>6. native.have \subseteq native'.have /\ (native'.checking => native'.have = {})
    BY <2>2
  <2> QED BY <2>1, <2>2, <2>3, <2>4, <2>5, <2>6, PiecesReported
<1>13. CASE NativeChecked
  <2>1. mode' = mode /\ t' = t /\ late' = late /\ work' = work
    BY <1>13 DEF NativeChecked
  <2>2. native.checking /\ ~native'.checking /\ native'.updated
    BY <1>13, NativeCheckedIs
  <2>3. PICK y \in Seq(Alert) :
           /\ alerts' = alerts \o y /\ Only(y, {"checked", "finished", "completed"})
           /\ \A f \in File : Completes(y, f) <=>
                 PiecesOf[f] # {} /\ PiecesOf[f] \subseteq native'.have
    BY <1>13, NativeCheckedIs
  <2>4. Pending(y) = {} /\ Number(y, Statuses) = 0
    BY <2>3, NoStatus
  <2>5. CASE late
    BY <2>1, <2>5, PiecesPrimed
  <2>6. CASE ~late
    <3>1. native.have = {}
      BY <2>2, <2>6 DEF PiecesInv, PiecesHold
    <3>2. \A f \in File : PiecesOf[f] # {} =>
             (Completes(y, f) \/ PiecesOf[f] \subseteq native.have <=> PiecesOf[f] \subseteq native'.have)
      BY <2>3, <3>1
    <3>3. native.have \subseteq native'.have /\ (native'.checking => native'.have = {})
      BY <2>2, <3>1
    <3> QED BY <2>1, <2>2, <2>3, <2>4, <3>2, <3>3, PiecesReported
  <2> QED BY <2>5, <2>6
<1>14. CASE NativeStatus
  <2>1. mode' = mode /\ t' = t /\ late' = late /\ work' = work
    BY <1>14 DEF NativeStatus
  <2>2. /\ work = <<>> /\ \A i \in DOMAIN alerts : alerts[i].is # "status"
        /\ NativeIs(native, native')
    BY <1>14, NativeStatusIs
  <2>3. PICK a \in Alert : a.is = "status" /\ a.status.have = native.have /\ alerts' = alerts \o <<a>>
    BY <1>14, NativeStatusIs
  <2>4. native'.have = native.have /\ native'.checking = native.checking
    BY <2>2 DEF NativeIs, SameDisk
  <2> SUFFICES ASSUME ~late'
               PROVE  /\ PiecesHold(native', t', work', alerts')
                      /\ FilesHold(native', t', work', alerts')
    BY <2>1, PiecesPrimed
  <2>5. PiecesHold(native, t, work, alerts) /\ FilesHold(native, t, work, alerts)
    BY <2>1 DEF PiecesInv
  <2>6. alerts \in Seq(Alert) /\ <<a>> \in Seq(Alert)
    BY SingleAlert DEF TypeOK
  <2>7. Number(alerts, Statuses) = 0 /\ Pending(alerts) = {}
    <3>1. \A i \in DOMAIN alerts : alerts[i] \notin Statuses
      BY <2>2 DEF Statuses
    <3>2. Number(alerts, Statuses) = 0
      BY <2>6, <3>1, PositionsFinite
    <3> QED BY <2>6, <3>2, NonePending
  <2>8. Number(alerts', Statuses) = 1 /\ Pending(alerts') = {native.have}
        /\ \A f : Completes(alerts', f) <=> Completes(alerts, f)
    <3>1. Pending(alerts \o <<a>>) = Pending(alerts) \union Pending(<<a>>)
      BY <2>6, PendingJoined
    <3>2. Number(alerts \o <<a>>, Statuses) = Number(alerts, Statuses) + Number(<<a>>, Statuses)
      BY <2>6, NumberJoined
    <3>3. \A f : Completes(alerts \o <<a>>, f) <=> Completes(alerts, f) \/ Completes(<<a>>, f)
      BY <2>6, CompletesJoined
    <3>4. /\ Pending(<<a>>) = {native.have} /\ Number(<<a>>, Statuses) = 1
          /\ \A f : ~Completes(<<a>>, f)
      BY <2>3, SingleAlert
    <3> QED BY <2>3, <2>7, <3>1, <3>2, <3>3, <3>4
  <2>9. ~Rechecks(work)
    BY <2>2 DEF Rechecks
  <2>10. PiecesHold(native', t', work', alerts')
    BY <2>1, <2>4, <2>5, <2>8, <2>9 DEF PiecesHold
  <2>11. StatusHolds(native', t', work', alerts')
    BY <2>4, <2>8 DEF StatusHolds
  <2>12. CompletedHold(native', t', work', alerts')
    BY <2>1, <2>4, <2>5, <2>8 DEF CompletedHold, FilesHold
  <2> QED BY <2>10, <2>11, <2>12 DEF FilesHold
<1>15. CASE UNCHANGED vars
  BY <1>8, <1>15 DEF vars
<1> QED BY <1>2, <1>3, <1>4, <1>5, <1>6, <1>7, <1>9, <1>10, <1>11, <1>12, <1>13, <1>14, <1>15
    DEF Next

LEMMA PiecesAlways == Spec => [](TypeOK /\ PiecesInv)
<1>1. Init => TypeOK /\ PiecesInv
  BY InitTypes, InitPieces
<1>2. TypeOK /\ PiecesInv /\ [Next]_vars => TypeOK' /\ PiecesInv'
  BY TypeStep, PiecesStep
<1> QED BY <1>1, <1>2, PTL DEF Spec

LEMMA ModeTypes == TypeOK => mode.deferState \in BOOLEAN /\ late \in BOOLEAN
BY FilesAssumption DEF TypeOK, Mode

(* The progress of files that is kept, to which updateProgress() only ever *)
(* adds, is that of the pieces; a report from before a recheck aside.      *)
THEOREM Progress == Spec => []ProgressIsOfPieces
<1>1. TypeOK /\ PiecesInv => ProgressIsOfPieces
  <2> SUFFICES ASSUME TypeOK, PiecesInv, ~late, NEW p \in Piece
               PROVE  FilesProgress(t)[p] = IF p \in t.pieces THEN 1 ELSE 0
    BY ModeTypes DEF ProgressIsOfPieces
  <2>1. CASE mode.deferState
    BY <2>1 DEF FilesProgress
  <2>2. CASE ~mode.deferState
    BY <2>2 DEF FilesProgress, PiecesInv, PiecesHold
  <2> QED BY <2>1, <2>2
<1> QED BY <1>1, PiecesAlways, PTL

(* When nothing is on its way, the files that are known complete are those *)
(* whose pieces are there: handleFileCompletedAlert() has seen each of     *)
(* them, or the last status has their pieces.                              *)
THEOREM Completion == Spec => []CompletedWhenQuiet
<1>1. TypeOK /\ PiecesInv => CompletedWhenQuiet
  <2> SUFFICES ASSUME TypeOK, PiecesInv, Quiet, ~late, NEW f \in File, PiecesOf[f] # {}
               PROVE  IsCompletedFile(t, f) <=> PiecesOf[f] \subseteq native.have
    BY DEF CompletedWhenQuiet
  <2>1. work = <<>> /\ alerts = <<>> /\ ~native.updated
    BY DEF Quiet
  <2>2. ~Rechecks(work) /\ ~Completes(alerts, f) /\ Pending(alerts) = {}
    BY <2>1 DEF Rechecks, Completes, Pending, Positions
  <2>3. t.pieces = native.have
    BY <2>1, <2>2 DEF PiecesInv, FilesHold, StatusHolds
  <2>4. CASE mode.deferState
    BY <2>3, <2>4 DEF IsCompletedFile
  <2>5. CASE ~mode.deferState
    <3>1. f \in t.completed <=> PiecesOf[f] \subseteq native.have
      BY <2>2, <2>5 DEF PiecesInv, FilesHold, CompletedHold
    <3> QED BY <2>5, <3>1 DEF IsCompletedFile
  <2> QED BY <2>4, <2>5
<1> QED BY <1>1, PiecesAlways, PTL
=============================================================================
