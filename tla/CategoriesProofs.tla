-------------------------- MODULE CategoriesProofs --------------------------
(***************************************************************************)
(* Categories, for every set of names, torrents and options.  As long as   *)
(* subcategories are not toggled at run time (with toggling it fails, see  *)
(* EditedCategoryIsNotRemoved), CategoriesConsistent is inductive together *)
(* with TypeOK, whatever writes fail and whenever the session crashes.     *)
(* That a crash loses nothing is proved with the toggling, and without     *)
(* failing writes.                                                         *)
(***************************************************************************)
EXTENDS Categories, TLAPS

LEMMA TableFacts ==
    ASSUME NEW table \in Table, NEW cs \in SUBSET Category
    PROVE  /\ WithDefaults(table, cs) \in Table
           /\ NamesIn(WithDefaults(table, cs)) = NamesIn(table) \union cs
           /\ \A c \in NamesIn(table) : WithDefaults(table, cs)[c] = table[c]
           /\ \A c \in Category \ cs : WithDefaults(table, cs)[c] = table[c]
BY CategoriesAssumption DEF Table, WithDefaults, NamesIn

LEMMA NamesFacts ==
    ASSUME NEW table \in Table
    PROVE  /\ NamesIn(table) \subseteq Category
           /\ \A c \in Category : table[c] \in Options \union {None}
           /\ \A c \in Category : c \in NamesIn(table) <=> table[c] # None
           /\ UNION {Ancestors[c] : c \in NamesIn(table)} \subseteq Category
BY CategoriesAssumption DEF Table, NamesIn

(* expandCategories: afterwards every parent of a category is one.         *)
LEMMA ExpandedFacts ==
    ASSUME NEW table \in Table
    PROVE  /\ Expanded(table) \in Table
           /\ \A c \in NamesIn(Expanded(table)) : Ancestors[c] \subseteq NamesIn(Expanded(table))
<1> DEFINE parents == UNION {Ancestors[c] : c \in NamesIn(table)}
<1>1. parents \in SUBSET Category
  BY NamesFacts
<1>2. /\ Expanded(table) \in Table
      /\ NamesIn(Expanded(table)) = NamesIn(table) \union parents
  BY <1>1, TableFacts DEF Expanded
<1>3. ASSUME NEW c \in NamesIn(table) \union parents
      PROVE  Ancestors[c] \subseteq parents
  <2>1. CASE c \in NamesIn(table)
    BY <2>1
  <2>2. CASE c \in parents
    <3>1. PICK d \in NamesIn(table) : c \in Ancestors[d]
      BY <2>2
    <3>2. d \in Category /\ Ancestors[c] \subseteq Ancestors[d]
      BY <3>1, NamesFacts, CategoriesAssumption
    <3> QED BY <3>1, <3>2
  <2> QED BY <1>3, <2>1, <2>2
<1> HIDE DEF parents
<1> QED BY <1>2, <1>3

(* addCategory makes the category and its missing parents.                 *)
LEMMA WithCategoryFacts ==
    ASSUME TypeOK, NEW c \in Category, NEW options \in Options
    PROVE  /\ WithCategory(categories, c, options) \in Table
           /\ NamesIn(WithCategory(categories, c, options))
                 = NamesIn(categories) \union Parents(c) \union {c}
           /\ \A d \in Category \ {c} : d \notin Parents(c) =>
                 WithCategory(categories, c, options)[d] = categories[d]
           /\ \A d \in NamesIn(categories) \ {c} :
                 WithCategory(categories, c, options)[d] = categories[d]
<1>1. categories \in Table /\ Parents(c) \in SUBSET Category
  BY CategoriesAssumption DEF TypeOK, Parents
<1> DEFINE w == WithDefaults(categories, Parents(c))
<1>2. /\ w \in Table
      /\ NamesIn(w) = NamesIn(categories) \union Parents(c)
      /\ \A d \in NamesIn(categories) : w[d] = categories[d]
      /\ \A d \in Category \ Parents(c) : w[d] = categories[d]
  BY <1>1, TableFacts
<1>3. WithCategory(categories, c, options) = [w EXCEPT ![c] = options]
  BY DEF WithCategory
<1>4. options # None /\ NamesIn(categories) \subseteq Category
  BY <1>1, NamesFacts, CategoriesAssumption
<1> HIDE DEF w
<1>5. WithCategory(categories, c, options) \in Table
  BY <1>2, <1>3 DEF Table
<1>6. \A d \in Category \ {c} : WithCategory(categories, c, options)[d] = w[d]
  BY <1>2, <1>3 DEF Table
<1>7. WithCategory(categories, c, options)[c] = options
  BY <1>2, <1>3 DEF Table
<1>8. NamesIn(WithCategory(categories, c, options)) = NamesIn(w) \union {c}
  BY <1>4, <1>6, <1>7 DEF NamesIn
<1> QED BY <1>2, <1>4, <1>5, <1>6, <1>8

LEMMA StoredIsTable ==
    ASSUME TypeOK, NEW table \in Table, StoreCategories(table)
    PROVE  file' \in Table
BY DEF StoreCategories, TypeOK

LEMMA LoadedIsTable ==
    ASSUME TypeOK
    PROVE  /\ Loaded \in Table
           /\ Recovered \in SUBSET Category
           /\ UNION {Ancestors[c] : c \in Recovered} \in SUBSET Category
<1>1. Loaded \in Table
  BY ExpandedFacts DEF TypeOK, Loaded
<1>2. Recovered \in SUBSET Category
  BY DEF TypeOK, Recovered
<1> QED BY <1>1, <1>2, CategoriesAssumption

(* What the startup makes of the file and the resume data.                 *)
LEMMA RestartedFacts ==
    ASSUME TypeOK, Restart
    PROVE  /\ categories' \in Table
           /\ NamesIn(categories') =
                 NamesIn(Loaded) \union Recovered \union
                     (IF subcategories' THEN UNION {Ancestors[c] : c \in Recovered} ELSE {})
<1> DEFINE extra == Recovered \union
                       IF subcategories' THEN UNION {Ancestors[c] : c \in Recovered} ELSE {}
<1>1. extra \in SUBSET Category /\ Loaded \in Table
  BY LoadedIsTable
<1>2. categories' = WithDefaults(Loaded, extra)
  BY DEF Restart
<1>3. /\ categories' \in Table
      /\ NamesIn(categories') = NamesIn(Loaded) \union extra
  BY <1>1, <1>2, TableFacts
<1> QED BY <1>3

-----------------------------------------------------------------------------
LEMMA InitType == Init => TypeOK
<1> SUFFICES ASSUME Init PROVE TypeOK
  OBVIOUS
<1>1. categories \in Table /\ NamesIn(categories) \subseteq Category
  BY NamesFacts DEF Init
<1> QED BY <1>1 DEF Init, TypeOK

LEMMA PrewarmType ==
    ASSUME TypeOK, Prewarm
    PROVE  TypeOK'
<1>1. SnapshotAfterPending \in Table
  BY CategoriesAssumption DEF TypeOK, SnapshotAfterPending, Table
<1> QED BY <1>1 DEF TypeOK, Prewarm, torrentVars

LEMMA TypeStep == TypeOK /\ [Next]_vars => TypeOK'
<1> SUFFICES ASSUME TypeOK, [Next]_vars PROVE TypeOK'
  OBVIOUS
<1>1. ASSUME NEW c \in Category, NEW options \in Options, AddCategory(c, options)
      PROVE  TypeOK'
  <2>1. categories' \in Table
    BY <1>1, WithCategoryFacts DEF AddCategory
  <2>2. file' \in Table
    BY <1>1, <2>1, StoredIsTable DEF AddCategory
  <2>3. NamesIn(categories') \subseteq Category
    BY <2>1, NamesFacts
  <2> QED BY <1>1, <2>1, <2>2, <2>3
          DEF TypeOK, AddCategory, OnCategoriesAdded, torrentVars
<1>2. ASSUME NEW c \in Category, NEW options \in Options, EditCategory(c, options)
      PROVE  TypeOK'
  <2>1. categories' \in Table
    BY <1>2 DEF EditCategory, TypeOK, Table
  <2>2. file' \in Table
    BY <1>2, <2>1, StoredIsTable DEF EditCategory
  <2> QED BY <1>2, <2>1, <2>2 DEF TypeOK, EditCategory, torrentVars
<1>3. ASSUME NEW c \in Category, RemoveCategory(c)
      PROVE  TypeOK'
  <2> DEFINE gone == NamesIn(categories) \cap
                        ({c} \union IF subcategories THEN Subtree(c) ELSE {})
  <2>1. categories' = [d \in Category |-> IF d \in gone THEN None ELSE categories[d]]
    BY <1>3 DEF RemoveCategory
  <2>2. gone \subseteq Category
    BY NamesFacts DEF TypeOK
  <2>3. IF gone # {}
        THEN StoreCategories(categories') /\ OnCategoriesRemoved(gone \union {c})
        ELSE UNCHANGED <<file, updated, removed>>
    BY <1>3 DEF RemoveCategory
  <2> HIDE DEF gone
  <2>4. categories' \in Table
    BY <2>1 DEF TypeOK, Table
  <2>5. file' \in Table
    BY <2>3, <2>4, StoredIsTable DEF TypeOK
  <2>6. updated' \subseteq Category /\ removed' \subseteq Category
    BY <2>2, <2>3 DEF TypeOK, OnCategoriesRemoved
  <2>7. categoryOf' \in [Torrent -> Category \union {None}]
    BY <1>3 DEF TypeOK, RemoveCategory
  <2> QED BY <1>3, <2>4, <2>5, <2>6, <2>7 DEF TypeOK, RemoveCategory
<1>4. ASSUME ToggleSubcategories
      PROVE  TypeOK'
  <2>1. categories' \in Table /\ file' \in Table
    BY <1>4, ExpandedFacts, StoredIsTable DEF ToggleSubcategories, TypeOK
  <2>2. NamesIn(categories') \subseteq Category
    BY <2>1, NamesFacts
  <2> QED BY <1>4, <2>1, <2>2 DEF TypeOK, ToggleSubcategories, OnCategoriesAdded, torrentVars
<1>5. ASSUME NEW t \in Torrent, NEW c \in Category \union {None}, SetCategory(t, c)
      PROVE  TypeOK'
  BY <1>5 DEF TypeOK, SetCategory, storeVars
<1>6. ASSUME NEW t \in Torrent, SaveResumeData(t)
      PROVE  TypeOK'
  BY <1>6 DEF TypeOK, SaveResumeData, storeVars
<1>7. ASSUME Prewarm PROVE TypeOK'
  BY <1>7, PrewarmType
<1>8. ASSUME Restart PROVE TypeOK'
  <2>1. categories' \in Table
    BY <1>8, RestartedFacts
  <2>2. file' \in Table
    BY <1>8, <2>1, StoredIsTable DEF Restart, TypeOK
  <2>3. subcategories' \in BOOLEAN
    BY <1>8 DEF Restart, TypeOK
  <2> QED BY <1>8, <2>1, <2>2, <2>3 DEF TypeOK, Restart
<1>9. ASSUME UNCHANGED vars PROVE TypeOK'
  BY <1>9 DEF TypeOK, vars, torrentVars, storeVars
<1> QED BY <1>1, <1>2, <1>3, <1>4, <1>5, <1>6, <1>7, <1>8, <1>9 DEF Next

(* Type correctness of the categories, subcategories toggled or not.       *)
THEOREM TypeCorrect == Spec => []TypeOK
BY InitType, TypeStep, PTL DEF Spec

-----------------------------------------------------------------------------
Inductive == TypeOK /\ CategoriesConsistent

LEMMA InitConsistent ==
    ASSUME Init PROVE CategoriesConsistent
<1>1. categories \in Table
  BY DEF Init
<1>2. TorrentCategoriesExist
  BY DEF Init, TorrentCategoriesExist
<1>3. ParentsExist
  BY <1>1, ExpandedFacts DEF Init, ParentsExist
<1> QED BY <1>2, <1>3 DEF Init, CategoriesConsistent

LEMMA AddCategoryStep ==
    ASSUME Inductive, NEW c \in Category, NEW options \in Options, AddCategory(c, options)
    PROVE  CategoriesConsistent'
<1> USE DEF Inductive, CategoriesConsistent
<1>1. /\ NamesIn(categories') = NamesIn(categories) \union Parents(c) \union {c}
      /\ \A d \in Category \ {c} : d \notin Parents(c) => categories'[d] = categories[d]
      /\ \A d \in NamesIn(categories) \ {c} : categories'[d] = categories[d]
  BY WithCategoryFacts DEF AddCategory
<1>2. c \notin NamesIn(categories)
  BY DEF AddCategory, NamesIn
<1>3. TorrentCategoriesExist'
  BY <1>1 DEF AddCategory, TorrentCategoriesExist, torrentVars
<1>4. ParentsExist'
  <2>1. SUFFICES ASSUME subcategories,
                        NEW d \in NamesIn(categories) \union Parents(c) \union {c}
                 PROVE  Ancestors[d] \subseteq NamesIn(categories) \union Parents(c)
    BY <1>1 DEF AddCategory, ParentsExist
  <2>2. Parents(c) = Ancestors[c]
    BY <2>1 DEF Parents
  <2>3. CASE d \in NamesIn(categories)
    BY <2>1, <2>3 DEF ParentsExist
  <2>4. CASE d \in Parents(c) \union {c}
    BY <2>2, <2>4, CategoriesAssumption
  <2> QED BY <2>1, <2>3, <2>4
<1>5. /\ updated' = updated \union (NamesIn(categories') \ NamesIn(categories))
      /\ removed' = removed \ (NamesIn(categories') \ NamesIn(categories))
  BY DEF AddCategory, OnCategoriesAdded
<1>6. updated' \subseteq NamesIn(categories') /\ removed' \cap NamesIn(categories') = {}
  BY <1>1, <1>5
<1>7. ASSUME NEW d \in Category \ (updated' \union removed')
      PROVE  snapshot'[d] = categories'[d]
  <2>1. d \in NamesIn(categories') => d \in NamesIn(categories)
    BY <1>5, <1>7
  <2>2. d \notin updated \union removed
    BY <1>5, <1>7, <2>1
  <2>3. d # c
    BY <1>1, <1>2, <2>1
  <2>4. categories'[d] = categories[d]
    BY <1>1, <2>1, <2>3
  <2> QED BY <2>2, <2>4 DEF AddCategory
<1> QED BY <1>3, <1>4, <1>6, <1>7

LEMMA EditCategoryStep ==
    ASSUME Inductive, NEW c \in Category, NEW options \in Options, EditCategory(c, options)
    PROVE  CategoriesConsistent'
<1> USE DEF Inductive, CategoriesConsistent
<1>1. /\ c \in NamesIn(categories) /\ options # None
      /\ categories' = [categories EXCEPT ![c] = options]
      /\ categories \in Table
  BY CategoriesAssumption DEF EditCategory, NamesIn, TypeOK
<1>2. \A d \in Category \ {c} : categories'[d] = categories[d]
  BY <1>1 DEF Table
<1>3. categories'[c] = options
  BY <1>1 DEF Table
<1>4. NamesIn(categories') = NamesIn(categories)
  BY <1>1, <1>2, <1>3 DEF NamesIn
<1>5. TorrentCategoriesExist'
  BY <1>4 DEF EditCategory, TorrentCategoriesExist, torrentVars
<1>6. ParentsExist'
  BY <1>4 DEF EditCategory, ParentsExist
<1> QED BY <1>1, <1>2, <1>4, <1>5, <1>6 DEF EditCategory

LEMMA RemoveCategoryStep ==
    ASSUME Inductive, NEW c \in Category, RemoveCategory(c)
    PROVE  CategoriesConsistent'
<1> USE DEF Inductive, CategoriesConsistent
<1> DEFINE tree == {c} \union IF subcategories THEN Subtree(c) ELSE {}
           gone == NamesIn(categories) \cap tree
<1>1. /\ categories' = [d \in Category |-> IF d \in gone THEN None ELSE categories[d]]
      /\ categoryOf' = [t \in Torrent |-> IF BelongsTo(t, c) THEN None ELSE categoryOf[t]]
      /\ IF gone # {}
         THEN OnCategoriesRemoved(gone \union {c})
         ELSE UNCHANGED <<file, updated, removed>>
      /\ UNCHANGED <<subcategories, snapshot>>
  BY DEF RemoveCategory
<1>2. tree \subseteq Category
  BY DEF Subtree
<1> HIDE DEF gone
<1>3. NamesIn(categories') = NamesIn(categories) \ gone
  BY <1>1 DEF NamesIn
<1>4. TorrentCategoriesExist'
  <2>1. SUFFICES ASSUME NEW t \in Torrent, categoryOf'[t] # None
                 PROVE  categoryOf'[t] \in NamesIn(categories')
    BY DEF TorrentCategoriesExist
  <2>2. categoryOf'[t] = categoryOf[t] /\ ~BelongsTo(t, c)
    BY <1>1, <2>1
  <2>3. categoryOf[t] \in NamesIn(categories)
    BY <2>1, <2>2 DEF TorrentCategoriesExist
  <2>4. categoryOf[t] \notin tree
    BY <2>2 DEF BelongsTo
  <2> QED BY <1>3, <2>2, <2>3, <2>4 DEF gone
<1>5. ParentsExist'
  <2>1. SUFFICES ASSUME subcategories, NEW d \in NamesIn(categories) \ gone,
                        NEW a \in Ancestors[d]
                 PROVE  a \in NamesIn(categories) \ gone
    BY <1>1, <1>3 DEF ParentsExist
  <2>2. a \in NamesIn(categories)
    BY <2>1 DEF ParentsExist
  <2>3. d \in Category
    BY <2>1 DEF NamesIn
  <2>4. ASSUME a \in gone PROVE FALSE
    <3>1. a = c \/ c \in Ancestors[a]
      BY <2>1, <2>4 DEF gone, Subtree
    <3>2. c \in Ancestors[d]
      BY <2>1, <2>3, <3>1, CategoriesAssumption
    <3>3. d \in tree
      BY <2>1, <2>3, <3>2 DEF Subtree
    <3> QED BY <2>1, <3>3 DEF gone
  <2> QED BY <2>2, <2>4
<1>6. CASE gone = {}
  <2>1. \A d \in Category : categories'[d] = categories[d]
    BY <1>1, <1>6
  <2> QED BY <1>1, <1>3, <1>4, <1>5, <1>6, <2>1
<1>7. CASE gone # {}
  <2>1. updated' = updated \ (gone \union {c}) /\ removed' = removed \union (gone \union {c})
    BY <1>1, <1>7 DEF OnCategoriesRemoved
  <2>2. c \in NamesIn(categories) => c \in gone
    BY DEF gone
  <2>3. updated' \subseteq NamesIn(categories') /\ removed' \cap NamesIn(categories') = {}
    BY <1>3, <2>1, <2>2
  <2>4. ASSUME NEW d \in Category \ (updated' \union removed')
        PROVE  snapshot'[d] = categories'[d]
    BY <1>1, <2>1, <2>4
  <2> QED BY <1>4, <1>5, <2>3, <2>4
<1> QED BY <1>6, <1>7

LEMMA PrewarmCompletes ==
    ASSUME Inductive
    PROVE  SnapshotAfterPending = categories
<1> USE DEF Inductive, CategoriesConsistent
<1>1. categories = [c \in Category |-> categories[c]]
  BY DEF TypeOK, Table
<1>2. ASSUME NEW c \in Category
      PROVE  categories[c] = IF c \in removed THEN None
                             ELSE IF c \in updated
                                  THEN IF categories[c] = None THEN Default ELSE categories[c]
                             ELSE snapshot[c]
  BY DEF NamesIn
<1> QED BY <1>1, <1>2 DEF SnapshotAfterPending

LEMMA RestartStep ==
    ASSUME Inductive, Restart
    PROVE  CategoriesConsistent'
<1> USE DEF Inductive, CategoriesConsistent
<1> DEFINE parents == UNION {Ancestors[c] : c \in Recovered}
<1>1. /\ NamesIn(categories') = NamesIn(Loaded) \union Recovered \union
                                   (IF subcategories' THEN parents ELSE {})
      /\ categoryOf' = resumed /\ snapshot' = categories'
      /\ updated' = {} /\ removed' = {}
  BY RestartedFacts DEF Restart
<1>2. TorrentCategoriesExist'
  BY <1>1 DEF TorrentCategoriesExist, Recovered
<1>3. ParentsExist'
  <2>1. SUFFICES ASSUME subcategories',
                        NEW c \in NamesIn(Loaded) \union Recovered \union parents
                 PROVE  Ancestors[c] \subseteq NamesIn(Loaded) \union parents
    BY <1>1 DEF ParentsExist
  <2>2. CASE c \in NamesIn(Loaded)
    BY <2>1, <2>2, ExpandedFacts DEF Loaded, TypeOK
  <2>3. CASE c \in Recovered
    BY <2>3
  <2>4. CASE c \in parents
    <3>1. PICK d \in Recovered : c \in Ancestors[d]
      BY <2>4
    <3>2. Ancestors[c] \subseteq Ancestors[d]
      BY <3>1, LoadedIsTable, CategoriesAssumption
    <3> QED BY <3>1, <3>2
  <2> QED BY <2>1, <2>2, <2>3, <2>4
<1> QED BY <1>1, <1>2, <1>3

LEMMA ConsistentStep ==
    ~TogglesSubcategories /\ Inductive /\ [Next]_vars => CategoriesConsistent'
<1> SUFFICES ASSUME ~TogglesSubcategories, Inductive, [Next]_vars
             PROVE  CategoriesConsistent'
  OBVIOUS
<1>1. ASSUME NEW c \in Category, NEW options \in Options, AddCategory(c, options)
      PROVE  CategoriesConsistent'
  BY <1>1, AddCategoryStep
<1>2. ASSUME NEW c \in Category, NEW options \in Options, EditCategory(c, options)
      PROVE  CategoriesConsistent'
  BY <1>2, EditCategoryStep
<1>3. ASSUME NEW c \in Category, RemoveCategory(c)
      PROVE  CategoriesConsistent'
  BY <1>3, RemoveCategoryStep
<1>4. ~ToggleSubcategories
  BY DEF ToggleSubcategories
<1>5. ASSUME NEW t \in Torrent, NEW c \in Category \union {None}, SetCategory(t, c)
      PROVE  CategoriesConsistent'
  <2>1. TorrentCategoriesExist'
    BY <1>5 DEF SetCategory, TorrentCategoriesExist, Inductive, CategoriesConsistent, TypeOK
  <2> QED BY <1>5, <2>1
          DEF SetCategory, Inductive, CategoriesConsistent, ParentsExist, storeVars
<1>6. ASSUME NEW t \in Torrent, SaveResumeData(t)
      PROVE  CategoriesConsistent'
  BY <1>6 DEF SaveResumeData, Inductive, CategoriesConsistent,
              TorrentCategoriesExist, ParentsExist, storeVars
<1>7. ASSUME Prewarm PROVE CategoriesConsistent'
  <2>1. snapshot' = categories
    BY <1>7, PrewarmCompletes DEF Prewarm
  <2> QED BY <1>7, <2>1 DEF Prewarm, Inductive, CategoriesConsistent,
              TorrentCategoriesExist, ParentsExist, torrentVars
<1>8. ASSUME Restart PROVE CategoriesConsistent'
  BY <1>8, RestartStep
<1>9. ASSUME UNCHANGED vars PROVE CategoriesConsistent'
  BY <1>9 DEF vars, torrentVars, storeVars, Inductive, CategoriesConsistent,
              TorrentCategoriesExist, ParentsExist
<1> QED BY <1>1, <1>2, <1>3, <1>4, <1>5, <1>6, <1>7, <1>8, <1>9 DEF Next

(* The invariant holds in every behaviour of a session in which            *)
(* subcategories are toggled only between two runs.                        *)
THEOREM Consistent == ~TogglesSubcategories /\ Spec => []CategoriesConsistent
<1> SUFFICES ASSUME ~TogglesSubcategories PROVE Spec => []CategoriesConsistent
  OBVIOUS
<1>1. Init => Inductive
  BY InitType, InitConsistent DEF Inductive
<1>2. Inductive /\ [Next]_vars => Inductive'
  BY TypeStep, ConsistentStep DEF Inductive
<1>3. Inductive => CategoriesConsistent
  BY DEF Inductive
<1> QED BY <1>1, <1>2, <1>3, PTL DEF Spec

(* No torrent is ever in a category the session does not have              *)
(* (removeCategory, setCategory, processNextResumeData).                   *)
THEOREM CategoriesExist == ~TogglesSubcategories /\ Spec => []TorrentCategoriesExist
<1> SUFFICES ASSUME ~TogglesSubcategories PROVE Spec => []TorrentCategoriesExist
  OBVIOUS
<1>1. Spec => []CategoriesConsistent
  BY Consistent
<1>2. CategoriesConsistent => TorrentCategoriesExist
  BY DEF CategoriesConsistent
<1> QED BY <1>1, <1>2, PTL

(* With subcategories enabled every parent of a category is one            *)
(* (addCategory, removeCategory, expandCategories, loadCategories).        *)
THEOREM ParentsAreCategories == ~TogglesSubcategories /\ Spec => []ParentsExist
<1> SUFFICES ASSUME ~TogglesSubcategories PROVE Spec => []ParentsExist
  OBVIOUS
<1>1. Spec => []CategoriesConsistent
  BY Consistent
<1>2. CategoriesConsistent => ParentsExist
  BY DEF CategoriesConsistent
<1> QED BY <1>1, <1>2, PTL

(* The delta of the pending category changes brings the snapshot up to     *)
(* date (storePendingRevision).                                            *)
THEOREM DeltaIsComplete == ~TogglesSubcategories /\ Spec => []PendingCategoriesAreComplete
<1> SUFFICES ASSUME ~TogglesSubcategories PROVE Spec => []PendingCategoriesAreComplete
  OBVIOUS
<1>1. Spec => []CategoriesConsistent
  BY Consistent
<1>2. Spec => []TypeOK
  BY TypeCorrect
<1>3. TypeOK /\ CategoriesConsistent => PendingCategoriesAreComplete
  BY PrewarmCompletes DEF Inductive, PendingCategoriesAreComplete
<1> QED BY <1>1, <1>2, <1>3, PTL

-----------------------------------------------------------------------------
(* What the startup would make of the file, if the setting stayed.         *)
InFile == IF subcategories THEN Expanded(file) ELSE file

(* Every category can be read back with its options: it is in the file, or *)
(* it is a parent that the next startup implies as this one did.           *)
FileHolds == \A c \in NamesIn(categories) : InFile[c] = categories[c]

LEMMA StoredHolds ==
    ASSUME TypeOK', file' = categories'
    PROVE  FileHolds'
<1>1. \A c \in NamesIn(categories') : Expanded(categories')[c] = categories'[c]
  <2>1. categories' \in Table
    BY DEF TypeOK
  <2>2. UNION {Ancestors[c] : c \in NamesIn(categories')} \in SUBSET Category
    BY <2>1, NamesFacts
  <2> QED BY <2>1, <2>2, TableFacts DEF Expanded
<1> QED BY <1>1 DEF FileHolds, InFile

LEMMA UnchangedHolds ==
    ASSUME FileHolds, UNCHANGED <<file, subcategories>>, categories' = categories
    PROVE  FileHolds'
BY DEF FileHolds, InFile, Expanded

LEMMA RestartReadsFile ==
    ASSUME TypeOK, ~EditsSettings, Restart
    PROVE  /\ subcategories' = subcategories
           /\ Loaded = InFile
           /\ \A c \in NamesIn(Loaded) : categories'[c] = Loaded[c]
           /\ Recovered = {} => categories' = Loaded
<1>1. subcategories' = subcategories /\ Loaded = InFile
  BY DEF Restart, Loaded, InFile
<1> DEFINE extra == Recovered \union
                       IF subcategories' THEN UNION {Ancestors[c] : c \in Recovered} ELSE {}
<1>2. extra \in SUBSET Category /\ Loaded \in Table
  BY LoadedIsTable
<1>3. categories' = WithDefaults(Loaded, extra)
  BY DEF Restart
<1>4. Recovered = {} => extra = {}
  OBVIOUS
<1> HIDE DEF extra
<1>5. \A c \in NamesIn(Loaded) : categories'[c] = Loaded[c]
  BY <1>2, <1>3, TableFacts
<1>6. ASSUME extra = {} PROVE categories' = Loaded
  <2>1. categories' = [c \in Category |-> Loaded[c]]
    BY <1>3, <1>6 DEF WithDefaults
  <2> QED BY <1>2, <2>1 DEF Table
<1> QED BY <1>1, <1>4, <1>5, <1>6

LEMMA FileStep ==
    ~WritesMayFail /\ ~EditsSettings /\ TypeOK /\ FileHolds /\ [Next]_vars => FileHolds'
<1> SUFFICES ASSUME ~WritesMayFail, ~EditsSettings, TypeOK, FileHolds, [Next]_vars
             PROVE  FileHolds'
  OBVIOUS
<1>0. TypeOK'
  BY TypeStep
<1>1. ASSUME NEW c \in Category, NEW options \in Options, AddCategory(c, options)
      PROVE  FileHolds'
  BY <1>0, <1>1, StoredHolds DEF AddCategory, StoreCategories
<1>2. ASSUME NEW c \in Category, NEW options \in Options, EditCategory(c, options)
      PROVE  FileHolds'
  BY <1>0, <1>2, StoredHolds DEF EditCategory, StoreCategories
<1>3. ASSUME NEW c \in Category, RemoveCategory(c)
      PROVE  FileHolds'
  <2> DEFINE gone == NamesIn(categories) \cap
                        ({c} \union IF subcategories THEN Subtree(c) ELSE {})
  <2>1. /\ categories' = [d \in Category |-> IF d \in gone THEN None ELSE categories[d]]
        /\ IF gone # {} THEN StoreCategories(categories') ELSE UNCHANGED file
        /\ UNCHANGED subcategories
    BY <1>3 DEF RemoveCategory
  <2> HIDE DEF gone
  <2>2. CASE gone = {}
    <3>1. categories' = [d \in Category |-> categories[d]]
      BY <2>1, <2>2
    <3>2. categories' = categories
      BY <3>1 DEF TypeOK, Table
    <3> QED BY <2>1, <2>2, <3>2, UnchangedHolds
  <2>3. CASE gone # {}
    BY <1>0, <2>1, <2>3, StoredHolds DEF StoreCategories
  <2> QED BY <2>2, <2>3
<1>4. ASSUME ToggleSubcategories
      PROVE  FileHolds'
  <2>1. CASE subcategories
    BY <1>0, <1>4, <2>1, StoredHolds DEF ToggleSubcategories
  <2>2. CASE ~subcategories
    BY <1>0, <1>4, <2>2, StoredHolds DEF ToggleSubcategories, StoreCategories
  <2> QED BY <2>1, <2>2
<1>5. ASSUME NEW t \in Torrent, NEW c \in Category \union {None}, SetCategory(t, c)
      PROVE  FileHolds'
  BY <1>5, UnchangedHolds DEF SetCategory
<1>6. ASSUME NEW t \in Torrent, SaveResumeData(t)
      PROVE  FileHolds'
  BY <1>6, UnchangedHolds DEF SaveResumeData
<1>7. ASSUME Prewarm PROVE FileHolds'
  BY <1>7, UnchangedHolds DEF Prewarm
<1>8. ASSUME Restart PROVE FileHolds'
  <2>1. CASE Recovered = {}
    <3>1. file' = file
      BY <1>8, <2>1 DEF Restart
    <3>2. InFile' = Loaded /\ categories' = Loaded
      BY <1>8, <2>1, <3>1, RestartReadsFile DEF InFile, Loaded
    <3> QED BY <3>2 DEF FileHolds
  <2>2. CASE Recovered # {}
    BY <1>0, <1>8, <2>2, StoredHolds DEF Restart, StoreCategories
  <2> QED BY <2>1, <2>2
<1>9. ASSUME UNCHANGED vars PROVE FileHolds'
  BY <1>9, UnchangedHolds DEF vars
<1> QED BY <1>1, <1>2, <1>3, <1>4, <1>5, <1>6, <1>7, <1>8, <1>9 DEF Next

(* A crash loses no category and no options, subcategories switched at run *)
(* time or not, as long as writes succeed and the settings are not changed *)
(* between two runs (storeCategories, loadCategories).                     *)
THEOREM RestartKeeps ==
    ~WritesMayFail /\ ~EditsSettings /\ Spec => RestartKeepsCategories
<1> SUFFICES ASSUME ~WritesMayFail, ~EditsSettings PROVE Spec => RestartKeepsCategories
  OBVIOUS
<1>1. Init => TypeOK /\ FileHolds
  <2> SUFFICES ASSUME Init PROVE TypeOK /\ FileHolds
    OBVIOUS
  <2>1. categories \in Table /\ file = categories
    BY DEF Init
  <2>2. UNION {Ancestors[c] : c \in NamesIn(categories)} \in SUBSET Category
    BY <2>1, NamesFacts
  <2>3. \A c \in NamesIn(categories) : Expanded(categories)[c] = categories[c]
    BY <2>1, <2>2, TableFacts DEF Expanded
  <2> QED BY <2>1, <2>3, InitType DEF FileHolds, InFile
<1>2. TypeOK /\ FileHolds /\ [Next]_vars => TypeOK' /\ FileHolds'
  BY TypeStep, FileStep
<1>3. TypeOK /\ FileHolds /\ [Next]_vars =>
          [Restart => \A c \in NamesIn(categories) : categories'[c] = categories[c]]_vars
  <2> SUFFICES ASSUME TypeOK, FileHolds, Restart, NEW c \in NamesIn(categories)
               PROVE  categories'[c] = categories[c]
    OBVIOUS
  <2>1. Loaded[c] = categories[c] /\ categories'[c] = Loaded[c]
    <3>1. Loaded[c] = categories[c]
      BY RestartReadsFile DEF FileHolds
    <3>2. c \in NamesIn(Loaded)
      BY <3>1 DEF NamesIn
    <3> QED BY <3>1, <3>2, RestartReadsFile
  <2> QED BY <2>1
<1> QED BY <1>1, <1>2, <1>3, PTL DEF Spec, RestartKeepsCategories
=============================================================================
