----------------------------- MODULE Categories -----------------------------
(***************************************************************************)
(* The categories of the BitTorrent session: the map in memory, its file   *)
(* categories.json, the categories of the torrents with their resume data, *)
(* and what MaindataSyncStore notes of them for the next delta.  With      *)
(* subcategories enabled the name A/B implies its parent A.  The session   *)
(* may crash at any time: categories are saved at once, resume data later, *)
(* and the startup recovers a category that only resume data mention.      *)
(* Signals are handled in the event loop, within the action that emits     *)
(* them.  The store is initialised (see MaindataStore for its release).    *)
(***************************************************************************)
EXTENDS Naturals

CONSTANTS
    Category,             \* names
    Ancestors,            \* Ancestors[c]: expandCategory(c) without c itself
    Options,              \* save path and download path of a category
    Default,              \* those of a category made by the session itself
    Torrent,
    None,                 \* no category; a category that does not exist
    TogglesSubcategories, \* setSubcategoriesEnabled is called
    EditsSettings,        \* the settings file may be changed between two runs
    WritesMayFail         \* saving categories.json may fail

ASSUME CategoriesAssumption ==
    /\ Ancestors \in [Category -> SUBSET Category]
    /\ \A c \in Category : c \notin Ancestors[c]
    /\ \A c \in Category : \A a \in Ancestors[c] : Ancestors[a] \subseteq Ancestors[c]
    /\ Default \in Options
    /\ None \notin Options
    /\ None \notin Category
    /\ TogglesSubcategories \in BOOLEAN
    /\ EditsSettings \in BOOLEAN
    /\ WritesMayFail \in BOOLEAN

VARIABLES
    categories,      \* m_categories; None where there is no such category
    file,            \* categories.json
    subcategories,   \* m_isSubcategoriesEnabled
    categoryOf,      \* m_category of each torrent
    resumed,         \* category in the stored resume data of each torrent
    snapshot,        \* categories of the store's snapshot
    updated,         \* m_updatedCategories
    removed          \* m_removedCategories

torrentVars == <<categoryOf, resumed>>
storeVars == <<snapshot, updated, removed>>
vars == <<categories, file, subcategories, torrentVars, storeVars>>

-----------------------------------------------------------------------------
Table == [Category -> Options \union {None}]

NamesIn(table) == {c \in Category : table[c] # None}

Subtree(c) == {d \in Category : c \in Ancestors[d]}

(* m_categories with every name of cs, which get default options if new.   *)
WithDefaults(table, cs) ==
    [c \in Category |-> IF c \in cs /\ table[c] = None THEN Default ELSE table[c]]

(* expandCategories: every ancestor of a category is one.                  *)
Expanded(table) ==
    WithDefaults(table, UNION {Ancestors[c] : c \in NamesIn(table)})

(* addCategory: the missing parents first, where subcategories count, then *)
(* the category itself.                                                    *)
Parents(c) == IF subcategories THEN Ancestors[c] ELSE {}

WithCategory(table, c, options) ==
    [WithDefaults(table, Parents(c)) EXCEPT ![c] = options]

(* storeCategories; a failure is logged, and the file stays as it was.     *)
StoreCategories(table) ==
    \/ file' = table
    \/ WritesMayFail /\ UNCHANGED file

(* Variant with a mistake: subcategories are not looked at.                *)
BelongsExactly(t, c) == categoryOf[t] = c

(* belongsToCategory, for a category that is named.                        *)
BelongsTo(t, c) ==
    \/ categoryOf[t] = c
    \/ subcategories /\ categoryOf[t] \in Subtree(c)

Init ==
    /\ subcategories \in BOOLEAN
    /\ categories \in Table
    /\ subcategories => categories = Expanded(categories)
    /\ file = categories
    /\ categoryOf \in [Torrent -> NamesIn(categories) \union {None}]
    /\ resumed = categoryOf
    /\ snapshot = categories
    /\ updated = {}
    /\ removed = {}

-----------------------------------------------------------------------------
(* Variants with a mistake: a category that comes back stays removed; one  *)
(* that goes stays updated.                                                *)
OnCategoriesAddedStayRemoved(cs) ==
    /\ updated' = updated \union cs
    /\ UNCHANGED removed

OnCategoriesRemovedStayUpdated(cs) ==
    /\ removed' = removed \union cs
    /\ UNCHANGED updated

(* onCategoryAdded, once for each of cs.                                   *)
OnCategoriesAdded(cs) ==
    /\ updated' = updated \union cs
    /\ removed' = removed \ cs

(* onCategoryRemoved, once for each of cs.                                 *)
OnCategoriesRemoved(cs) ==
    /\ updated' = updated \ cs
    /\ removed' = removed \union cs

(* Variant with a mistake: the file is written before the insertion.       *)
AddCategoryStoresBefore(c, options) ==
    /\ categories[c] = None
    /\ categories' = WithCategory(categories, c, options)
    /\ StoreCategories(categories)
    /\ OnCategoriesAdded(NamesIn(categories') \ NamesIn(categories))
    /\ UNCHANGED <<subcategories, torrentVars, snapshot>>

AddCategory(c, options) ==
    /\ categories[c] = None
    /\ categories' = WithCategory(categories, c, options)
    /\ StoreCategories(categories')
    /\ OnCategoriesAdded(NamesIn(categories') \ NamesIn(categories))
    /\ UNCHANGED <<subcategories, torrentVars, snapshot>>

EditCategory(c, options) ==
    /\ categories[c] \notin {None, options}
    /\ categories' = [categories EXCEPT ![c] = options]
    /\ StoreCategories(categories')
    /\ updated' = updated \union {c}
    /\ UNCHANGED <<subcategories, torrentVars, snapshot, removed>>

(* The torrents of the category lose it even when the session has no such  *)
(* category any more.                                                      *)
RemoveCategory(c) ==
    LET gone == NamesIn(categories) \cap
                    ({c} \union IF subcategories THEN Subtree(c) ELSE {})
    IN  /\ categoryOf' = [t \in Torrent |-> IF BelongsTo(t, c) THEN None ELSE categoryOf[t]]
        /\ categories' = [d \in Category |-> IF d \in gone THEN None ELSE categories[d]]
        /\ IF gone # {}
           THEN /\ StoreCategories(categories')
                /\ OnCategoriesRemoved(gone \union {c})
           ELSE UNCHANGED <<file, updated, removed>>
        /\ UNCHANGED <<subcategories, resumed, snapshot>>

(* setSubcategoriesEnabled: enabling adds the parents, disabling reads the *)
(* file again; the store looks for names its snapshot lacks.               *)
ToggleSubcategories ==
    /\ TogglesSubcategories
    /\ subcategories' = ~subcategories
    /\ IF subcategories
       THEN categories' = file /\ UNCHANGED file
       ELSE categories' = Expanded(categories) /\ StoreCategories(categories')
    /\ OnCategoriesAdded(NamesIn(categories') \ NamesIn(snapshot))
    /\ UNCHANGED <<torrentVars, snapshot>>

(* TorrentImpl::setCategory                                                *)
SetCategory(t, c) ==
    /\ c # categoryOf[t]
    /\ c \in NamesIn(categories) \union {None}
    /\ categoryOf' = [categoryOf EXCEPT ![t] = c]
    /\ UNCHANGED <<categories, file, subcategories, resumed, storeVars>>

(* The resume data of a torrent that needs saving reach the storage.       *)
SaveResumeData(t) ==
    /\ resumed[t] # categoryOf[t]
    /\ resumed' = [resumed EXCEPT ![t] = categoryOf[t]]
    /\ UNCHANGED <<categories, file, subcategories, categoryOf, storeVars>>

(* prewarm(): the delta of the pending changes goes into the snapshot.     *)
SnapshotAfterPending ==
    [c \in Category |->
        IF c \in removed THEN None
        ELSE IF c \in updated
             THEN IF categories[c] = None THEN Default ELSE categories[c]
        ELSE snapshot[c]]

Prewarm ==
    /\ updated \union removed # {}
    /\ snapshot' = SnapshotAfterPending
    /\ updated' = {}
    /\ removed' = {}
    /\ UNCHANGED <<categories, file, subcategories, torrentVars>>

(* A crash and the startup after it: the file is loaded, its names are     *)
(* expanded (and not stored) when subcategories are enabled, and each      *)
(* category that only resume data mention is added (processNextResumeData).*)
Loaded == IF subcategories' THEN Expanded(file) ELSE file

Recovered == {resumed[t] : t \in Torrent} \ (NamesIn(Loaded) \union {None})

Restart ==
    /\ subcategories' \in IF EditsSettings THEN BOOLEAN ELSE {subcategories}
    /\ categories' =
          WithDefaults(Loaded,
              Recovered \union
                  IF subcategories' THEN UNION {Ancestors[c] : c \in Recovered} ELSE {})
    /\ IF Recovered = {} THEN UNCHANGED file ELSE StoreCategories(categories')
    /\ categoryOf' = resumed
    /\ UNCHANGED resumed
    /\ snapshot' = categories'
    /\ updated' = {}
    /\ removed' = {}

Next ==
    \/ \E c \in Category, options \in Options : AddCategory(c, options)
    \/ \E c \in Category, options \in Options : EditCategory(c, options)
    \/ \E c \in Category : RemoveCategory(c)
    \/ ToggleSubcategories
    \/ \E t \in Torrent, c \in Category \union {None} : SetCategory(t, c)
    \/ \E t \in Torrent : SaveResumeData(t)
    \/ Prewarm
    \/ Restart

Spec == Init /\ [][Next]_vars

-----------------------------------------------------------------------------
(* Type invariant.                                                         *)
TypeOK ==
    /\ categories \in Table
    /\ file \in Table
    /\ subcategories \in BOOLEAN
    /\ categoryOf \in [Torrent -> Category \union {None}]
    /\ resumed \in [Torrent -> Category \union {None}]
    /\ snapshot \in Table
    /\ updated \subseteq Category
    /\ removed \subseteq Category

(* Safety: no torrent is in a category the session does not have, across   *)
(* the removal of whole subtrees, crashes and lost writes                  *)
(* (removeCategory, setCategory, processNextResumeData).                   *)
TorrentCategoriesExist ==
    \A t \in Torrent : categoryOf[t] # None => categoryOf[t] \in NamesIn(categories)

(* Safety: with subcategories enabled every parent of a category is one    *)
(* (addCategory, removeCategory, expandCategories, loadCategories).        *)
ParentsExist ==
    subcategories => \A c \in NamesIn(categories) : Ancestors[c] \subseteq NamesIn(categories)

(* Safety: the delta of the next sync request brings the snapshot to the   *)
(* session's categories.  It holds as long as nobody toggles subcategories *)
(* at run time: see EditedCategoryIsNotRemoved.                            *)
PendingCategoriesAreComplete ==
    SnapshotAfterPending = categories

(* Action property: a crash loses no category and no options of one, when  *)
(* the writes succeeded (storeCategories in every operation).              *)
RestartKeepsCategories ==
    [][Restart => \A c \in NamesIn(categories) : categories'[c] = categories[c]]_vars

(* The invariant behind these properties when subcategories are not        *)
(* toggled at run time; inductive together with TypeOK.  It contains that  *)
(* storePendingRevision finds every category noted as updated, and that    *)
(* one noted as removed is gone (onCategoryAdded, onCategoryRemoved).      *)
CategoriesConsistent ==
    /\ TorrentCategoriesExist
    /\ ParentsExist
    /\ updated \subseteq NamesIn(categories)
    /\ removed \cap NamesIn(categories) = {}
    /\ \A c \in Category \ (updated \union removed) : snapshot[c] = categories[c]

(* Action property, Q_ASSERT(!m_removedCategories.contains(categoryName))  *)
(* in onCategoryOptionsChanged: a category whose options are edited is not *)
(* noted as removed.  It fails when enabling subcategories brings back a   *)
(* parent that has just been removed: onSubcategoriesSupportChanged        *)
(* compares with the snapshot, which still has the name.                   *)
EditedCategoryIsNotRemoved ==
    [][\A c \in Category :
          (\E options \in Options : EditCategory(c, options)) => c \notin removed]_vars

=============================================================================
